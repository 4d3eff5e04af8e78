--------------------------- MODULE DraftJobProofs ---------------------------
(***************************************************************************)
(* Theorems of a drafting job, for any number of batches, owners, attempts, *)
(* retries and stalls.                                                     *)
(***************************************************************************)
EXTENDS DraftJobs, FiniteSetTheorems, TLAPS

\* An owner at a batch, or on the way to it.
Drafting(o) == pc[o] \in {"next", "try", "call", "fail"}

\* What an owner knows of the batches it still has to draft: the attempts it
\* read are those counted, for as long as nobody took the job from it.
CountsOk(o) ==
    /\ Drafting(o) \/ pc[o] = "merge" => view[o] \in Views
    /\ pc[o] \in {"try", "call", "fail"} => at[o] \in Batches
    /\ Holds(o) /\ Drafting(o) =>
          \A b \in Batches : b > at[o] \/ (b = at[o] /\ pc[o] = "next") =>
              view[o][b].attempts = attempts[b]
    /\ Holds(o) /\ pc[o] \in {"try", "call"} => tries[o] = attempts[at[o]]

\* What an owner that merges has read are the stored results.
MergeOk(o) ==
    /\ pc[o] = "merge" =>
          \A b \in Batches : view[o][b].status = "SUCCEEDED" =>
              batch[b] = "SUCCEEDED" /\ view[o][b].result = result[b]
    /\ pc[o] = "succeed" => draft # None

RunInv == \A o \in Owners : CountsOk(o) /\ MergeOk(o)

\* No call of the AI without an attempt, and no drafted batch without a result.
BatchInv ==
    \A b \in Batches :
        /\ calls[b] <= attempts[b] /\ calls[b] <= MaxAttempts
        /\ batch[b] = "SUCCEEDED" => result[b] \in Owners

IInv == TypeOK /\ RunInv /\ BatchInv /\ DraftHasEveryBatch

-----------------------------------------------------------------------------
LEMMA BatchesAreFinite ==
    BatchCount \in Nat /\ IsFiniteSet(Batches) /\ Cardinality(Batches) = BatchCount
<1>1. BatchCount \in Int /\ 1 \in Int /\ ~(1 > BatchCount) /\ BatchCount - 1 + 1 = BatchCount
  BY JobAssumption
<1>2. IsFiniteSet(1 .. BatchCount) /\ Cardinality(1 .. BatchCount) = BatchCount
  BY <1>1, FS_Interval
<1> QED BY <1>2, JobAssumption DEF Batches

\* The counts of a job are those of a set of its batches.
LEMMA CountsAreSmall ==
    ASSUME NEW S \in SUBSET Batches
    PROVE  Cardinality(S) \in 0 .. BatchCount
<1>1. BatchCount \in Nat /\ IsFiniteSet(Batches) /\ Cardinality(Batches) = BatchCount
  BY BatchesAreFinite
<1>2. IsFiniteSet(S) /\ Cardinality(S) <= Cardinality(Batches)
  BY <1>1, FS_Subset
<1>3. Cardinality(S) \in Nat
  BY <1>2, FS_CardinalityType
<1> QED BY <1>1, <1>2, <1>3

LEMMA RefreshedCounts ==
    ASSUME RefreshCounts
    PROVE  done' \in 0 .. BatchCount /\ failed' \in 0 .. BatchCount
<1> DEFINE S == {b \in Batches : batch'[b] = "SUCCEEDED"}
           F == {b \in Batches : batch'[b] = "FAILED"}
<1>1. S \in SUBSET Batches /\ F \in SUBSET Batches
  OBVIOUS
<1>2. Cardinality(S) \in 0 .. BatchCount /\ Cardinality(F) \in 0 .. BatchCount
  <2> HIDE DEF S, F
  <2> QED BY <1>1, CountsAreSmall
<1> QED BY <1>2 DEF RefreshCounts

\* What a step leaves as it is: drafted batches and the draft; and only a
\* claim makes an owner hold the job.
Stands ==
    /\ \A b \in Batches : batch[b] = "SUCCEEDED" =>
          batch'[b] = "SUCCEEDED" /\ result'[b] = result[b] /\ calls'[b] = calls[b]
    /\ draft # None => draft' = draft

\* An owner that does not move keeps its part of the invariant.
LEMMA OwnerStands ==
    ASSUME IInv, Stands, NEW o \in Owners,
           pc'[o] = pc[o], view'[o] = view[o], at'[o] = at[o], tries'[o] = tries[o],
           Holds(o)' => Holds(o) /\ attempts' = attempts
    PROVE  CountsOk(o)' /\ MergeOk(o)'
<1>1. CountsOk(o)'
  BY DEF IInv, RunInv, CountsOk, Drafting
<1>2. MergeOk(o)'
  BY DEF IInv, RunInv, MergeOk, Stands
<1> QED BY <1>1, <1>2

-----------------------------------------------------------------------------
\* The steps that only move their owner.
LEMMA MovingSteps ==
    ASSUME IInv, NEW o \in Owners,
           Read(o) \/ NextBatch(o) \/ LeavesBatch(o) \/ Reread(o) \/ CannotMerge(o)
    PROVE  TypeOK' /\ CountsOk(o)' /\ MergeOk(o)'
<1>0. UNCHANGED <<jobRow, batchRows, draft, history>> /\ (Holds(o)' <=> Holds(o))
  BY DEF Read, NextBatch, LeavesBatch, Reread, CannotMerge, Holds, jobRow
<1>v. view[o] \in Views \cup {None} /\ at[o] \in 1 .. BatchCount + 1 /\ BatchCount \in Nat
  BY JobAssumption DEF IInv, TypeOK
<1> USE <1>0 DEF jobRow, batchRows, history, Goto, Leaves, Steps
<1>1. CASE Read(o)
  <2>1. [b \in Batches |-> ReadForLoop(b)] \in Views
    BY DEF ReadForLoop, Views, IInv, TypeOK
  <2>2. /\ view' = [view EXCEPT ![o] = [b \in Batches |-> ReadForLoop(b)]]
        /\ pc' = [pc EXCEPT ![o] = "next"] /\ UNCHANGED <<at, tries>>
    BY <1>1 DEF Read
  <2>3. TypeOK'
    BY <2>1, <2>2 DEF IInv, TypeOK
  <2>4. CountsOk(o)'
    BY <2>1, <2>2 DEF CountsOk, Drafting, ReadForLoop, IInv, TypeOK
  <2>5. MergeOk(o)'
    BY <2>2 DEF MergeOk, IInv, TypeOK
  <2> QED BY <2>3, <2>4, <2>5
<1>2. CASE NextBatch(o)
  <2>0. pc[o] = "next" /\ view[o] \in Views
    BY <1>2 DEF NextBatch, IInv, RunInv, CountsOk, Drafting
  <2>1. CASE at[o] > BatchCount
    <3>1. pc' = [pc EXCEPT ![o] = "reread"] /\ UNCHANGED <<view, at, tries>>
      BY <1>2, <2>1 DEF NextBatch
    <3> QED BY <3>1 DEF IInv, TypeOK, CountsOk, MergeOk, Drafting
  <2>2. CASE at[o] <= BatchCount
    <3>1. at[o] \in Batches /\ ~(at[o] > BatchCount)
      BY <1>v, <2>2 DEF Batches
    <3>2. CASE view[o][at[o]].status \in {"SUCCEEDED", "FAILED"}
      <4>1. /\ pc' = [pc EXCEPT ![o] = "next"] /\ UNCHANGED view
            /\ at' = [at EXCEPT ![o] = @ + 1] /\ tries' = [tries EXCEPT ![o] = 0]
        BY <1>2, <3>1, <3>2 DEF NextBatch
      <4>2. at'[o] = at[o] + 1 /\ at'[o] \in 1 .. BatchCount + 1
        BY <1>v, <2>2, <4>1 DEF IInv, TypeOK
      <4>3. TypeOK'
        BY <4>1, <4>2 DEF IInv, TypeOK
      <4>4. \A b \in Batches : b >= at[o] + 1 => b > at[o]
        BY <1>v DEF Batches
      <4>5. CountsOk(o)'
        BY <1>v, <2>0, <4>1, <4>2, <4>4 DEF IInv, TypeOK, RunInv, CountsOk, Drafting, Batches
      <4> QED BY <2>0, <4>1, <4>3, <4>5 DEF IInv, TypeOK, MergeOk
    <3>3. CASE view[o][at[o]].status \notin {"SUCCEEDED", "FAILED"}
      <4>1. /\ pc' = [pc EXCEPT ![o] = "try"] /\ UNCHANGED <<view, at>>
            /\ tries' = [tries EXCEPT ![o] = view[o][at[o]].attempts]
        BY <1>2, <3>1, <3>3 DEF NextBatch
      <4>2. view[o][at[o]].attempts \in Nat
        BY <2>0, <3>1 DEF Views
      <4>3. TypeOK'
        BY <4>1, <4>2 DEF IInv, TypeOK
      <4>4. CountsOk(o)'
        BY <2>0, <3>1, <4>1 DEF IInv, TypeOK, RunInv, CountsOk, Drafting
      <4> QED BY <2>0, <4>1, <4>3, <4>4 DEF IInv, TypeOK, MergeOk
    <3> QED BY <3>2, <3>3
  <2> QED BY <1>v, <2>1, <2>2
<1>3. CASE LeavesBatch(o)
  <2>0. /\ pc[o] \in {"try", "call", "fail"} /\ view[o] \in Views /\ at[o] \in Batches
        /\ pc' = [pc EXCEPT ![o] = "next"] /\ UNCHANGED view
        /\ at' = [at EXCEPT ![o] = @ + 1] /\ tries' = [tries EXCEPT ![o] = 0]
    BY <1>3 DEF LeavesBatch, IInv, RunInv, CountsOk, Drafting
  <2>1. at'[o] = at[o] + 1 /\ at'[o] \in 1 .. BatchCount + 1
    BY <1>v, <2>0 DEF IInv, TypeOK, Batches
  <2>2. TypeOK'
    BY <2>0, <2>1 DEF IInv, TypeOK
  <2>3. CountsOk(o)'
    <3>1. pc'[o] = "next" /\ view'[o] = view[o]
      BY <2>0 DEF IInv, TypeOK
    <3>2. Holds(o) => \A b \in Batches : b > at[o] => view[o][b].attempts = attempts[b]
      BY <2>0 DEF IInv, RunInv, CountsOk, Drafting
    <3>3. \A b \in Batches : b > at'[o] \/ b = at'[o] => b > at[o]
      BY <1>v, <2>1 DEF Batches
    <3> QED BY <2>0, <3>1, <3>2, <3>3 DEF CountsOk, Drafting
  <2> QED BY <2>0, <2>2, <2>3 DEF IInv, TypeOK, MergeOk
<1>4. CASE Reread(o)
  <2>1. [b \in Batches |-> ReadForMerge(b)] \in Views
    BY DEF ReadForMerge, Views, IInv, TypeOK
  <2>2. /\ view' = [view EXCEPT ![o] = [b \in Batches |-> ReadForMerge(b)]]
        /\ pc' = [pc EXCEPT ![o] = "merge"] /\ at' = [at EXCEPT ![o] = 1] /\ UNCHANGED tries
    BY <1>4 DEF Reread
  <2>3. TypeOK'
    BY <1>v, <2>1, <2>2 DEF IInv, TypeOK
  <2>4. CountsOk(o)'
    BY <2>1, <2>2 DEF CountsOk, Drafting, IInv, TypeOK
  <2>5. MergeOk(o)'
    BY <2>2 DEF MergeOk, ReadForMerge, IInv, TypeOK
  <2> QED BY <2>3, <2>4, <2>5
<1>5. CASE CannotMerge(o)
  <2>1. pc' = [pc EXCEPT ![o] = "giveup"] /\ UNCHANGED <<view, at, tries>>
    BY <1>5 DEF CannotMerge
  <2> QED BY <2>1 DEF IInv, TypeOK, CountsOk, MergeOk, Drafting
<1> QED BY <1>1, <1>2, <1>3, <1>4, <1>5

-----------------------------------------------------------------------------
\* The other owners: they do not move, and hold the job only if they did.
OthersStand(o) ==
    \A p \in Owners \ {o} :
        /\ pc'[p] = pc[p] /\ view'[p] = view[p] /\ at'[p] = at[p] /\ tries'[p] = tries[p]
        /\ Holds(p)' => Holds(p) /\ attempts' = attempts

\* A step of an owner that keeps the invariant and what stands.
Good(o) ==
    TypeOK' /\ CountsOk(o)' /\ MergeOk(o)' /\ BatchInv' /\ DraftHasEveryBatch' /\ Stands /\ OthersStand(o)

\* A step that leaves the batches and the draft, and does not end the job well.
LEMMA QuietStep ==
    ASSUME IInv, UNCHANGED <<batchRows, draft, calls>>, job' = "SUCCEEDED" => job = "SUCCEEDED"
    PROVE  BatchInv' /\ DraftHasEveryBatch' /\ Stands
BY DEF IInv, BatchInv, DraftHasEveryBatch, Stands, batchRows

\* An end of a batch.
LEMMA BatchEnds ==
    ASSUME IInv, NEW o \in Owners, pc[o] \in {"call", "fail"},
           NEW outcome \in BatchStatus, NEW produced \in Owners \cup {None},
           outcome = "SUCCEEDED" => produced = o,
           EndBatch(o, outcome, produced)
    PROVE  /\ batch' \in [Batches -> BatchStatus] /\ result' \in [Batches -> Owners \cup {None}]
           /\ done' \in 0 .. BatchCount /\ failed' \in 0 .. BatchCount
           /\ BatchInv' /\ DraftHasEveryBatch' /\ Stands
           /\ Holds(o) /\ Holds(o)'
           /\ \A p \in Owners \ {o} : ~Holds(p)'
           /\ UNCHANGED <<job, owner, lease, attempts, draft, history>>
           /\ at[o] \in Batches
<1>0. at[o] \in Batches
  BY DEF IInv, RunInv, CountsOk
<1>1. /\ batch' = [batch EXCEPT ![at[o]] = outcome] /\ result' = [result EXCEPT ![at[o]] = produced]
      /\ batch[at[o]] = "RUNNING" /\ Holds(o) /\ RefreshCounts
      /\ UNCHANGED <<job, owner, lease, attempts, draft, history>>
  BY DEF EndBatch
<1>2. batch' \in [Batches -> BatchStatus] /\ result' \in [Batches -> Owners \cup {None}]
  BY <1>1 DEF IInv, TypeOK
<1>3. Stands
  BY <1>1 DEF Stands, IInv, TypeOK, history
<1>4. BatchInv'
  BY <1>0, <1>1 DEF BatchInv, IInv, TypeOK, history
<1>5. DraftHasEveryBatch'
  BY <1>1, <1>3 DEF DraftHasEveryBatch, Stands, IInv
<1>6. Holds(o)' /\ \A p \in Owners \ {o} : ~Holds(p)'
  BY <1>1 DEF Holds
<1> QED BY <1>0, <1>1, <1>2, <1>3, <1>4, <1>5, <1>6, RefreshedCounts

\* The steps that end a batch.
LEMMA EndingSteps ==
    ASSUME IInv, NEW o \in Owners, Drafted(o) \/ TriesAgain(o) \/ BatchFails(o)
    PROVE  Good(o)
<1>v. /\ pc[o] \in {"call", "fail"} /\ view[o] \in Views /\ at[o] \in Batches
      /\ BatchCount \in Nat /\ result[at[o]] \in Owners \cup {None}
  BY JobAssumption DEF Drafted, TriesAgain, BatchFails, IInv, TypeOK, RunInv, CountsOk, Drafting
<1>1. ASSUME NEW outcome \in BatchStatus, NEW produced \in Owners \cup {None},
             outcome = "SUCCEEDED" => produced = o,
             EndBatch(o, outcome, produced), Leaves(o)
      PROVE  Good(o)
  <2>1. /\ pc' = [pc EXCEPT ![o] = "next"] /\ view' = view
        /\ at' = [at EXCEPT ![o] = @ + 1] /\ tries' = [tries EXCEPT ![o] = 0]
    BY <1>1 DEF Leaves
  <2>2. at'[o] = at[o] + 1 /\ at'[o] \in 1 .. BatchCount + 1
    <3>1. at \in [Owners -> 1 .. BatchCount + 1]
      BY DEF IInv, TypeOK
    <3>2. at'[o] = at[o] + 1
      BY <2>1, <3>1
    <3> QED BY <1>v, <3>2 DEF Batches
  <2>3. TypeOK'
    BY <1>v, <1>1, <2>1, <2>2, BatchEnds DEF IInv, TypeOK, Steps, history
  <2>4. attempts' = attempts /\ Holds(o)
    BY <1>v, <1>1, BatchEnds
  <2>5. CountsOk(o)'
    BY <1>v, <2>1, <2>2, <2>4 DEF IInv, TypeOK, RunInv, CountsOk, Drafting, Batches
  <2>6. MergeOk(o)' /\ OthersStand(o)
    BY <1>v, <1>1, <2>1, BatchEnds DEF MergeOk, OthersStand, IInv, TypeOK
  <2> QED BY <1>v, <1>1, <2>3, <2>5, <2>6, BatchEnds DEF Good
<1>2. CASE Drafted(o)
  BY <1>1, <1>2 DEF Drafted, BatchStatus
<1>3. CASE BatchFails(o)
  BY <1>v, <1>1, <1>3 DEF BatchFails, BatchStatus
<1>4. CASE TriesAgain(o)
  <2>0. "PENDING" \in BatchStatus /\ EndBatch(o, "PENDING", result[at[o]])
    BY <1>4 DEF TriesAgain, BatchStatus
  <2>1. pc' = [pc EXCEPT ![o] = "try"] /\ UNCHANGED <<view, at, tries>> /\ pc[o] = "call"
    BY <1>4 DEF TriesAgain, Goto
  <2>2. /\ attempts' = attempts /\ Holds(o) /\ BatchInv' /\ DraftHasEveryBatch' /\ Stands
        /\ \A p \in Owners \ {o} : ~Holds(p)'
    BY <1>v, <2>0, BatchEnds
  <2>3. TypeOK'
    BY <1>v, <2>0, <2>1, BatchEnds DEF IInv, TypeOK, Steps, history
  <2>4. CountsOk(o)'
    BY <1>v, <2>1, <2>2 DEF IInv, TypeOK, RunInv, CountsOk, Drafting
  <2>5. MergeOk(o)' /\ OthersStand(o)
    BY <2>1, <2>2 DEF MergeOk, OthersStand, IInv, TypeOK
  <2> QED BY <2>2, <2>3, <2>4, <2>5 DEF Good
<1> QED BY <1>2, <1>3, <1>4

\* An attempt is counted, and the AI called if one was left.
LEMMA StartStep ==
    ASSUME IInv, NEW o \in Owners, Start(o)
    PROVE  Good(o)
<1>0. /\ pc[o] = "try" /\ view[o] \in Views /\ at[o] \in Batches /\ Holds(o)
      /\ batch[at[o]] \in {"PENDING", "RUNNING"}
      /\ tries[o] = attempts[at[o]] /\ attempts[at[o]] \in Nat /\ calls[at[o]] \in Nat
      /\ MaxAttempts \in Nat
  BY JobAssumption DEF Start, IInv, TypeOK, RunInv, CountsOk, Drafting
<1>1. /\ batch' = [batch EXCEPT ![at[o]] = "RUNNING"]
      /\ attempts' = [attempts EXCEPT ![at[o]] = @ + 1]
      /\ UNCHANGED <<jobRow, result, draft, retries, stalls>> /\ UNCHANGED <<view, at>>
  BY DEF Start, Goto
<1>2. \/ pc' = [pc EXCEPT ![o] = "fail"] /\ UNCHANGED <<tries, calls>>
      \/ /\ tries[o] < MaxAttempts /\ pc' = [pc EXCEPT ![o] = "call"]
         /\ tries' = [tries EXCEPT ![o] = @ + 1] /\ calls' = [calls EXCEPT ![at[o]] = @ + 1]
  BY <1>0 DEF Start, Goto
<1>3. TypeOK'
  BY <1>0, <1>1, <1>2 DEF IInv, TypeOK, Steps, BatchStatus, jobRow
<1>4. CountsOk(o)'
  <2>1. \A b \in Batches : b > at[o] => attempts'[b] = attempts[b]
    BY <1>0, <1>1 DEF Batches, IInv, TypeOK
  <2>2. pc'[o] = "call" => tries'[o] = attempts'[at'[o]]
    BY <1>0, <1>1, <1>2 DEF IInv, TypeOK
  <2>3. pc'[o] \in {"call", "fail"}
    BY <1>2 DEF IInv, TypeOK
  <2> QED BY <1>0, <1>1, <2>1, <2>2, <2>3 DEF IInv, TypeOK, RunInv, CountsOk, Drafting
<1>5. MergeOk(o)'
  BY <1>2 DEF MergeOk, IInv, TypeOK
<1>6. BatchInv'
  <2>1. \A b \in Batches \ {at[o]} : calls'[b] = calls[b] /\ attempts'[b] = attempts[b] /\ batch'[b] = batch[b]
    BY <1>1, <1>2 DEF IInv, TypeOK
  <2>2. calls'[at[o]] <= attempts'[at[o]] /\ calls'[at[o]] <= MaxAttempts /\ batch'[at[o]] = "RUNNING"
    BY <1>0, <1>1, <1>2 DEF IInv, TypeOK, BatchInv
  <2> QED BY <1>1, <2>1, <2>2 DEF IInv, BatchInv
<1>7. Stands
  BY <1>0, <1>1, <1>2 DEF Stands, IInv, TypeOK
<1>8. DraftHasEveryBatch'
  BY <1>1, <1>7 DEF DraftHasEveryBatch, Stands, IInv, jobRow
<1>9. OthersStand(o)
  BY <1>0, <1>1, <1>2 DEF OthersStand, Holds, jobRow, IInv, TypeOK
<1> QED BY <1>3, <1>4, <1>5, <1>6, <1>7, <1>8, <1>9 DEF Good

\* Taking the job over, merging it, ending it, and leaving it.
LEMMA JobSteps ==
    ASSUME IInv, NEW o \in Owners,
           \/ Claim(o) \/ Merge(o) \/ Finish(o)
           \/ Heartbeat(o) \/ Cancelled(o) \/ RunFails(o) \/ Dies(o)
    PROVE  Good(o)
<1> USE DEF jobRow, batchRows, history, locals
<1>1. CASE Claim(o)
  <2>1. /\ pc' = [pc EXCEPT ![o] = "read"] /\ UNCHANGED <<view, at, tries>>
        /\ job' = "RUNNING" /\ owner' = o /\ lease' = "live"
        /\ UNCHANGED <<done, failed, batchRows, draft, history>>
    BY <1>1 DEF Claim, Goto
  <2>2. TypeOK'
    BY <2>1 DEF IInv, TypeOK, Steps
  <2>3. CountsOk(o)' /\ MergeOk(o)' /\ OthersStand(o)
    BY <2>1 DEF CountsOk, MergeOk, Drafting, OthersStand, Holds, IInv, TypeOK
  <2> QED BY <2>1, <2>2, <2>3, QuietStep DEF Good
<1>2. CASE Merge(o)
  <2>1. /\ pc' = [pc EXCEPT ![o] = "succeed"] /\ UNCHANGED <<view, at, tries>> /\ pc[o] = "merge"
        /\ UNCHANGED <<jobRow, batchRows, history>>
        /\ \A b \in Batches : batch[b] = "SUCCEEDED" /\ view[o][b].result = result[b]
        /\ \A b \in Batches : result[b] \in Owners
    BY <1>2 DEF Merge, Goto, IInv, RunInv, MergeOk, BatchInv
  <2>2. /\ draft' \in [Batches -> Owners]
        /\ draft # None => draft' = draft
        /\ draft = None => \A b \in Batches : draft'[b] = result[b]
    BY <1>2, <2>1 DEF Merge, IInv, TypeOK
  <2>3. TypeOK'
    BY <2>1, <2>2 DEF IInv, TypeOK, Steps
  <2>4. draft' # None
    BY <2>2, JobAssumption DEF Batches
  <2>5. CountsOk(o)' /\ MergeOk(o)' /\ OthersStand(o)
    BY <2>1, <2>4 DEF CountsOk, MergeOk, Drafting, OthersStand, Holds, IInv, TypeOK
  <2>6. DraftHasEveryBatch'
    BY <2>1, <2>2, <2>4 DEF DraftHasEveryBatch, IInv
  <2>7. BatchInv' /\ Stands
    BY <2>1, <2>2 DEF BatchInv, Stands, IInv
  <2> QED BY <2>3, <2>5, <2>6, <2>7 DEF Good
<1>3. CASE Finish(o)
  <2>1. /\ pc' = [pc EXCEPT ![o] = "idle"] /\ view' = [view EXCEPT ![o] = None]
        /\ at' = [at EXCEPT ![o] = 1] /\ tries' = [tries EXCEPT ![o] = 0]
        /\ UNCHANGED <<done, failed, batchRows, draft, history>>
        /\ \/ /\ job' = IF pc[o] = "succeed" THEN "SUCCEEDED" ELSE "FAILED"
              /\ owner' = None /\ lease' = "none"
           \/ UNCHANGED <<job, owner, lease>>
    BY <1>3 DEF Finish, Leave
  <2>2. TypeOK'
    BY <2>1, JobAssumption DEF IInv, TypeOK, Steps
  <2>3. CountsOk(o)' /\ MergeOk(o)' /\ OthersStand(o)
    BY <2>1, JobAssumption DEF CountsOk, MergeOk, Drafting, OthersStand, Holds, IInv, TypeOK
  <2>4. job' = "SUCCEEDED" => job = "SUCCEEDED" \/ draft # None
    BY <2>1 DEF IInv, RunInv, MergeOk
  <2>5. DraftHasEveryBatch' /\ BatchInv' /\ Stands
    BY <2>1, <2>4 DEF IInv, DraftHasEveryBatch, BatchInv, Stands
  <2> QED BY <2>2, <2>3, <2>5 DEF Good
<1>4. CASE Heartbeat(o)
  <2>1. lease' = "live" /\ UNCHANGED <<job, owner, done, failed, batchRows, draft, locals, history>>
    BY <1>4 DEF Heartbeat
  <2>2. TypeOK' /\ OthersStand(o)
    BY <2>1 DEF IInv, TypeOK, OthersStand, Holds
  <2>3. BatchInv' /\ DraftHasEveryBatch' /\ Stands
    BY <2>1, QuietStep
  <2>4. CountsOk(o)' /\ MergeOk(o)'
    BY <2>1, <2>3, OwnerStands DEF Holds
  <2> QED BY <2>2, <2>3, <2>4 DEF Good
<1>5. ASSUME NEW step \in {"idle", "dead"}, Leave(o, step),
             UNCHANGED <<jobRow, batchRows, draft, calls, retries>>, stalls' \in 0 .. MaxStalls
      PROVE  Good(o)
  <2>1. /\ pc' = [pc EXCEPT ![o] = step] /\ view' = [view EXCEPT ![o] = None]
        /\ at' = [at EXCEPT ![o] = 1] /\ tries' = [tries EXCEPT ![o] = 0]
    BY <1>5 DEF Leave
  <2>2. TypeOK'
    <3>1. pc' \in [Owners -> Steps] /\ view' \in [Owners -> Views \cup {None}]
      BY <2>1 DEF IInv, TypeOK, Steps
    <3>2. at' \in [Owners -> 1 .. BatchCount + 1] /\ tries' \in [Owners -> Nat]
      BY <2>1, JobAssumption DEF IInv, TypeOK
    <3> QED BY <1>5, <3>1, <3>2 DEF IInv, TypeOK
  <2>3. CountsOk(o)' /\ MergeOk(o)' /\ OthersStand(o)
    BY <1>5, <2>1 DEF CountsOk, MergeOk, Drafting, OthersStand, Holds, IInv, TypeOK
  <2> QED BY <1>5, <2>2, <2>3, QuietStep DEF Good
<1>6. CASE Cancelled(o) \/ Dies(o)
  BY <1>5, <1>6 DEF Cancelled, Dies, IInv, TypeOK
<1>7. CASE RunFails(o)
  <2>1. stalls' \in 0 .. MaxStalls
    BY <1>7, JobAssumption DEF RunFails, IInv, TypeOK
  <2> QED BY <1>5, <1>7, <2>1 DEF RunFails
<1> QED BY <1>1, <1>2, <1>3, <1>4, <1>6, <1>7

\* An administrator queues the job again.
LEMMA RetryStep ==
    ASSUME IInv, Retry
    PROVE  IInv' /\ Stands
<1>1. /\ batch' = [b \in Batches |-> IF batch[b] = "SUCCEEDED" THEN batch[b] ELSE "PENDING"]
      /\ attempts' = [b \in Batches |-> IF batch[b] = "SUCCEEDED" THEN attempts[b] ELSE 0]
      /\ calls' = [b \in Batches |-> IF batch[b] = "SUCCEEDED" THEN calls[b] ELSE 0]
  BY DEF Retry
<1>2. /\ job' = "QUEUED" /\ owner' = None /\ lease' = "none" /\ RefreshCounts
      /\ retries' = retries + 1 /\ retries < MaxRetries
      /\ UNCHANGED <<result, draft, locals, stalls>>
  BY DEF Retry
<1>3. Stands
  BY <1>1, <1>2 DEF Stands
<1>4. TypeOK'
  <2>1. retries' \in 0 .. MaxRetries
    BY <1>2, JobAssumption DEF IInv, TypeOK
  <2> QED BY <1>1, <1>2, <2>1, RefreshedCounts DEF IInv, TypeOK, BatchStatus, locals
<1>5. BatchInv'
  <2>1. MaxAttempts \in Nat
    BY JobAssumption
  <2>2. ASSUME NEW b \in Batches
        PROVE  /\ calls'[b] <= attempts'[b] /\ calls'[b] <= MaxAttempts
               /\ batch'[b] = "SUCCEEDED" => result'[b] \in Owners
    BY <1>1, <1>2, <2>1 DEF IInv, BatchInv
  <2> QED BY <2>2 DEF BatchInv
<1>6. DraftHasEveryBatch'
  BY <1>2, <1>3 DEF DraftHasEveryBatch, Stands, IInv
<1>7. RunInv'
  <2>1. \A o \in Owners : ~Holds(o)'
    BY <1>2 DEF Holds
  <2> QED BY <1>2, <1>3, <2>1, OwnerStands DEF RunInv, locals
<1> QED BY <1>3, <1>4, <1>5, <1>6, <1>7 DEF IInv

LEMMA InvStep == ASSUME IInv, [Next]_vars PROVE IInv' /\ Stands
<1>1. ASSUME NEW o \in Owners, Good(o) PROVE IInv' /\ Stands
  BY <1>1, OwnerStands DEF Good, OthersStand, IInv, RunInv
<1>2. ASSUME NEW o \in Owners, Work(o) \/ Heartbeat(o) \/ Cancelled(o) \/ RunFails(o) \/ Dies(o)
      PROVE  IInv' /\ Stands
  <2>1. ASSUME Read(o) \/ NextBatch(o) \/ LeavesBatch(o) \/ Reread(o) \/ CannotMerge(o) PROVE Good(o)
    <3>1. /\ UNCHANGED <<jobRow, batchRows, draft, history>>
          /\ \A p \in Owners \ {o} : pc'[p] = pc[p] /\ view'[p] = view[p] /\ at'[p] = at[p] /\ tries'[p] = tries[p]
      BY <2>1 DEF Read, NextBatch, LeavesBatch, Reread, CannotMerge, Goto, Leaves, IInv, TypeOK
    <3>2. OthersStand(o)
      BY <3>1 DEF OthersStand, Holds, jobRow, batchRows
    <3> QED BY <2>1, <3>1, <3>2, MovingSteps, QuietStep DEF Good, jobRow, history
  <2>2. ASSUME Drafted(o) \/ TriesAgain(o) \/ BatchFails(o) \/ Start(o) PROVE Good(o)
    BY <2>2, EndingSteps, StartStep
  <2>3. ASSUME Claim(o) \/ Merge(o) \/ Finish(o) \/ Heartbeat(o) \/ Cancelled(o) \/ RunFails(o) \/ Dies(o)
        PROVE  Good(o)
    BY <2>3, JobSteps
  <2> QED BY <1>1, <1>2, <2>1, <2>2, <2>3 DEF Work
<1>3. CASE LeaseExpires \/ OwnerStalls
  <2>1. /\ lease' = "expired" /\ stalls' \in 0 .. MaxStalls
        /\ UNCHANGED <<job, owner, done, failed, batchRows, draft, locals, calls, retries>>
    BY <1>3, JobAssumption DEF LeaseExpires, OwnerStalls, IInv, TypeOK, history
  <2>2. BatchInv' /\ DraftHasEveryBatch' /\ Stands
    BY <2>1, QuietStep
  <2>3. RunInv'
    BY <2>1, <2>2, OwnerStands DEF RunInv, Holds, locals, batchRows
  <2>4. TypeOK'
    BY <2>1 DEF IInv, TypeOK, locals, batchRows
  <2> QED BY <2>2, <2>3, <2>4 DEF IInv
<1>4. CASE UNCHANGED vars
  <2>1. BatchInv' /\ DraftHasEveryBatch' /\ Stands
    BY <1>4, QuietStep DEF vars, jobRow, history
  <2>2. RunInv'
    BY <1>4, <2>1, OwnerStands DEF vars, RunInv, Holds, locals, batchRows, jobRow
  <2>3. TypeOK'
    BY <1>4 DEF vars, IInv, TypeOK, locals, batchRows, jobRow, history
  <2> QED BY <2>1, <2>2, <2>3 DEF IInv
<1> QED BY <1>2, <1>3, <1>4, RetryStep DEF Next

-----------------------------------------------------------------------------
\* The invariant that the theorems rest on.
THEOREM JobInvariant == Spec => []IInv
<1>1. Init => IInv
  BY JobAssumption
     DEF Init, IInv, TypeOK, RunInv, BatchInv, CountsOk, MergeOk, Drafting, DraftHasEveryBatch, Holds,
         Batches, BatchStatus, Steps
<1>2. IInv /\ [Next]_vars => IInv'
  BY InvStep
<1> QED BY <1>1, <1>2, PTL DEF Spec

\* Every variable keeps its type; the counts of the job stay within its batches.
THEOREM TypeCorrect == Spec => []TypeOK
BY JobInvariant, PTL DEF IInv

\* The AI is called at most MaxAttempts times for a batch until an
\* administrator asks again (StartBatch counts before the call).
THEOREM CallsStayBounded == Spec => []CallsAreBounded
<1>1. IInv => CallsAreBounded
  BY DEF IInv, BatchInv, CallsAreBounded
<1> QED BY <1>1, JobInvariant, PTL

\* The draft is merged from the stored result of every batch, and a SUCCEEDED
\* job has it (aggregateJob, Finish).
THEOREM DraftsAreWhole == Spec => []DraftHasEveryBatch
BY JobInvariant, PTL DEF IInv

\* A drafted batch is never drafted again nor its result replaced.
THEOREM FinishedBatchesStand == Spec => FinishedBatchStands
<1>1. IInv /\ [Next]_vars =>
        [\A b \in Batches : batch[b] = "SUCCEEDED" =>
           batch'[b] = "SUCCEEDED" /\ result'[b] = result[b] /\ calls'[b] = calls[b]]_vars
  BY InvStep DEF Stands
<1> QED BY <1>1, JobInvariant, PTL DEF Spec, FinishedBatchStands

-----------------------------------------------------------------------------
(* Refinement.                                                              *)

DraftedBatches == {b \in Batches : batch[b] = "SUCCEEDED"}

\* The job's count of drafted batches is true in every state, not only where
\* it is refreshed.
DoneIsTrue == done = Cardinality(DraftedBatches)

\* Where no batch becomes drafted or stops being it, the ledger stands.
LEMMA LedgerStands ==
    ASSUME DoneIsTrue, \A b \in Batches : batch'[b] = "SUCCEEDED" <=> batch[b] = "SUCCEEDED",
           \A b \in Batches : batch[b] = "SUCCEEDED" => result'[b] = result[b],
           done' = done \/ RefreshCounts
    PROVE  LedgerResults' = LedgerResults /\ done' = done /\ DoneIsTrue'
<1>1. DraftedBatches' = DraftedBatches
  BY DEF DraftedBatches
<1>2. done' = done
  BY <1>1 DEF DoneIsTrue, RefreshCounts, DraftedBatches
<1>3. LedgerResults' = LedgerResults
  BY DEF LedgerResults
<1> QED BY <1>1, <1>2, <1>3 DEF DoneIsTrue

\* A batch has a result in the ledger exactly when it is drafted.
LEMMA LedgerHasDrafted ==
    ASSUME IInv, NEW b \in Batches
    PROVE  LedgerResults[b] # None <=> batch[b] = "SUCCEEDED"
BY JobAssumption DEF IInv, BatchInv, LedgerResults

\* A step that leaves the rows the ledger is read from.
LEMMA QuietLedger ==
    ASSUME DoneIsTrue, UNCHANGED <<done, batch, result, draft>>, LedgerStatus' = LedgerStatus
    PROVE  DoneIsTrue' /\ UNCHANGED Ledger!lvars
BY LedgerStands DEF Ledger!lvars

\* A batch gets its result: the owner holds the job.
LEMMA DraftedLedger ==
    ASSUME IInv, IInv', DoneIsTrue, NEW o \in Owners, Drafted(o)
    PROVE  DoneIsTrue' /\ Ledger!DraftBatch(at[o], o) /\ at[o] \in Batches
<1>0. at[o] \in Batches /\ job = "RUNNING" /\ batch[at[o]] = "RUNNING"
  BY DEF Drafted, EndBatch, Holds, IInv, RunInv, CountsOk
<1>1. /\ batch' = [batch EXCEPT ![at[o]] = "SUCCEEDED"] /\ result' = [result EXCEPT ![at[o]] = o]
      /\ RefreshCounts /\ job' = job /\ draft' = draft
  BY DEF Drafted, EndBatch
<1>2. LedgerResults' = [LedgerResults EXCEPT ![at[o]] = o]
  BY <1>0, <1>1 DEF LedgerResults, IInv, TypeOK
<1>3. DoneIsTrue' /\ done' = done + 1
  <2>1. DraftedBatches' = DraftedBatches \cup {at[o]} /\ at[o] \notin DraftedBatches
    BY <1>0, <1>1 DEF DraftedBatches, IInv, TypeOK
  <2>2. IsFiniteSet(Batches) /\ IsFiniteSet(DraftedBatches)
    BY BatchesAreFinite, FS_Subset DEF DraftedBatches
  <2>3. Cardinality(DraftedBatches') = Cardinality(DraftedBatches) + 1
    BY <2>1, <2>2, FS_AddElement
  <2> QED BY <1>1, <2>3 DEF DoneIsTrue, RefreshCounts, DraftedBatches
<1>4. LedgerStatus = "open" /\ LedgerStatus' = LedgerStatus /\ LedgerResults[at[o]] = None
  BY <1>0, <1>1 DEF LedgerStatus, LedgerResults
<1> QED BY <1>0, <1>1, <1>2, <1>3, <1>4 DEF Ledger!DraftBatch

\* The draft is made of the results the ledger has.
LEMMA MergeLedger ==
    ASSUME IInv, IInv', DoneIsTrue, NEW o \in Owners, Merge(o)
    PROVE  DoneIsTrue' /\ (Ledger!MakeDraft \/ UNCHANGED Ledger!lvars)
<1>1. /\ pc[o] = "merge" /\ UNCHANGED <<jobRow, batchRows, history>>
      /\ draft' = IF draft = None THEN [b \in Batches |-> view[o][b].result] ELSE draft
      /\ \A b \in Batches : view[o][b].status = "SUCCEEDED"
  BY DEF Merge
<1>2. \A b \in Batches : batch[b] = "SUCCEEDED" /\ view[o][b].result = result[b]
  BY <1>1 DEF IInv, RunInv, MergeOk
<1>3. DoneIsTrue' /\ LedgerResults' = LedgerResults /\ done' = done /\ LedgerStatus' = LedgerStatus
  BY <1>1, LedgerStands DEF jobRow, batchRows, LedgerStatus
<1>4. CASE draft = None
  <2>1. draft' = LedgerResults
    BY <1>1, <1>2, <1>4 DEF LedgerResults
  <2>2. \A b \in Batches : LedgerResults[b] # None
    BY <1>2, LedgerHasDrafted
  <2> QED BY <1>3, <1>4, <2>1, <2>2 DEF Ledger!MakeDraft
<1>5. CASE draft # None
  BY <1>1, <1>3, <1>5 DEF Ledger!lvars
<1> QED BY <1>4, <1>5

\* The owner that still holds the job ends it.
LEMMA FinishLedger ==
    ASSUME IInv, DoneIsTrue, NEW o \in Owners, Finish(o)
    PROVE  DoneIsTrue' /\ ([Ledger!Next]_(Ledger!lvars))
<1>1. UNCHANGED <<done, batch, result, draft>>
  BY DEF Finish, batchRows
<1>2. DoneIsTrue' /\ LedgerResults' = LedgerResults /\ done' = done
  BY <1>1, LedgerStands
<1>3. CASE Holds(o)
  <2>1. LedgerStatus = "open" /\ job' = IF pc[o] = "succeed" THEN "SUCCEEDED" ELSE "FAILED"
    BY <1>3 DEF Finish, Holds, LedgerStatus
  <2>2. pc[o] = "succeed" => draft # None
    BY DEF IInv, RunInv, MergeOk
  <2>3. Ledger!End(IF pc[o] = "succeed" THEN "succeeded" ELSE "failed")
    BY <1>1, <1>2, <2>1, <2>2 DEF Ledger!End, LedgerStatus
  <2> QED BY <1>2, <2>3 DEF Ledger!Next
<1>4. CASE ~Holds(o)
  BY <1>1, <1>4, QuietLedger DEF Finish, LedgerStatus
<1> QED BY <1>3, <1>4

\* A failed job opens again with the results it had.
LEMMA RetryLedger ==
    ASSUME IInv, DoneIsTrue, Retry
    PROVE  DoneIsTrue' /\ Ledger!Reopen
<1>1. /\ batch' = [b \in Batches |-> IF batch[b] # "SUCCEEDED" THEN "PENDING" ELSE batch[b]]
      /\ job = "FAILED" /\ job' = "QUEUED" /\ RefreshCounts /\ UNCHANGED <<result, draft>>
  BY DEF Retry
<1>2. \A b \in Batches : batch'[b] = "SUCCEEDED" <=> batch[b] = "SUCCEEDED"
  BY <1>1
<1>3. DoneIsTrue' /\ LedgerResults' = LedgerResults /\ done' = done
  BY <1>1, <1>2, LedgerStands
<1> QED BY <1>1, <1>3 DEF Ledger!Reopen, LedgerStatus

\* Starting a batch, and ending it without a result, change nothing in the ledger.
LEMMA BatchLedger ==
    ASSUME IInv, DoneIsTrue, NEW o \in Owners, Start(o) \/ TriesAgain(o) \/ BatchFails(o)
    PROVE  DoneIsTrue' /\ UNCHANGED Ledger!lvars
<1>0. at[o] \in Batches
  BY DEF Start, TriesAgain, BatchFails, IInv, RunInv, CountsOk
<1>1. /\ batch[at[o]] # "SUCCEEDED" /\ job' = job /\ draft' = draft
      /\ \E outcome \in {"RUNNING", "PENDING", "FAILED"} : batch' = [batch EXCEPT ![at[o]] = outcome]
      /\ result' = [result EXCEPT ![at[o]] = result[at[o]]] \/ result' = result
      /\ done' = done \/ RefreshCounts
  BY DEF Start, TriesAgain, BatchFails, EndBatch, jobRow
<1>2. \A b \in Batches : batch'[b] = "SUCCEEDED" <=> batch[b] = "SUCCEEDED"
  BY <1>0, <1>1 DEF IInv, TypeOK
<1>3. \A b \in Batches : result'[b] = result[b]
  BY <1>0, <1>1 DEF IInv, TypeOK
<1>4. DoneIsTrue' /\ LedgerResults' = LedgerResults /\ done' = done
  BY <1>1, <1>2, <1>3, LedgerStands
<1> QED BY <1>1, <1>4 DEF Ledger!lvars, LedgerStatus

LEMMA LedgerStep ==
    ASSUME IInv, IInv', DoneIsTrue, [Next]_vars
    PROVE  DoneIsTrue' /\ [Ledger!Next]_(Ledger!lvars)
<1> USE DEF jobRow, batchRows
<1>1. ASSUME NEW o \in Owners, Work(o)
      PROVE  DoneIsTrue' /\ [Ledger!Next]_(Ledger!lvars)
  <2>1. CASE Claim(o) \/ Read(o) \/ NextBatch(o) \/ LeavesBatch(o) \/ Reread(o) \/ CannotMerge(o)
    BY <2>1, QuietLedger
       DEF Claim, Read, NextBatch, LeavesBatch, Reread, CannotMerge, LedgerStatus
  <2>2. CASE Start(o) \/ TriesAgain(o) \/ BatchFails(o)
    BY <2>2, BatchLedger
  <2>3. CASE Drafted(o)
    BY <2>3, DraftedLedger DEF Ledger!Next
  <2>4. CASE Merge(o)
    BY <2>4, MergeLedger DEF Ledger!Next
  <2>5. CASE Finish(o)
    BY <2>5, FinishLedger
  <2> QED BY <1>1, <2>1, <2>2, <2>3, <2>4, <2>5 DEF Work
<1>2. ASSUME NEW o \in Owners, Heartbeat(o) \/ Cancelled(o) \/ RunFails(o) \/ Dies(o)
      PROVE  DoneIsTrue' /\ UNCHANGED Ledger!lvars
  BY <1>2, QuietLedger DEF Heartbeat, Cancelled, RunFails, Dies, LedgerStatus
<1>3. CASE LeaseExpires \/ OwnerStalls \/ UNCHANGED vars
  BY <1>3, QuietLedger DEF LeaseExpires, OwnerStalls, vars, LedgerStatus
<1>4. CASE Retry
  BY <1>4, RetryLedger DEF Ledger!Next
<1> QED BY <1>1, <1>2, <1>3, <1>4 DEF Next

\* The job implements DraftLedger: owners that die, stall and write beside each
\* other change results, progress, draft and outcome as one owner would.
THEOREM Refinement == Spec => ImplementsLedger
<1>1. Init => DoneIsTrue /\ Ledger!Init
  <2>1. ASSUME Init PROVE DraftedBatches = {} /\ LedgerResults = [b \in Batches |-> None]
    BY <2>1 DEF Init, DraftedBatches, LedgerResults
  <2> QED BY <2>1, FS_EmptySet DEF Init, DoneIsTrue, Ledger!Init, LedgerStatus
<1>2. IInv /\ IInv' /\ DoneIsTrue /\ [Next]_vars => DoneIsTrue' /\ [Ledger!Next]_(Ledger!lvars)
  BY LedgerStep
<1> QED BY <1>1, <1>2, JobInvariant, PTL DEF Spec, ImplementsLedger, Ledger!Spec
=============================================================================
