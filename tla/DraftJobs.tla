----------------------------- MODULE DraftJobs -----------------------------
(***************************************************************************)
(* One drafting job: the AI drafts the batches of its source one by one,   *)
(* and the results become one draft.  The job's row carries a lease; the   *)
(* API process that holds it (its JobRunner, an "owner") drafts, a         *)
(* heartbeat renews the lease, and another process takes the job over when *)
(* it runs out.  An owner may die, or stall past its lease and go on       *)
(* without knowing that it lost the job.                                   *)
(***************************************************************************)
EXTENDS Naturals, FiniteSets

CONSTANTS
    BatchCount,   \* batches_total
    Owners,       \* API processes, one JobRunner each
    None,         \* no owner, no result, no draft
    MaxAttempts,  \* JobRunner.MaxAttempts
    MaxRetries,   \* bound: times an administrator retries the job
    MaxStalls     \* bound: times a living owner's lease runs out

ASSUME JobAssumption ==
    /\ BatchCount \in Nat \ {0}
    /\ MaxAttempts \in Nat \ {0}
    /\ MaxRetries \in Nat
    /\ MaxStalls \in Nat
    /\ None \notin Owners \cup [1 .. BatchCount -> Owners]

VARIABLES
    job,      \* procedure_draft_jobs.status
    owner,    \* .lease_owner
    lease,    \* .lease_expires_at: not set, in the future or past
    done,     \* .batches_done
    failed,   \* .batches_failed
    batch,    \* procedure_draft_job_batches.status
    attempts, \* .attempts
    result,   \* .result: the owner it came from
    draft,    \* the results the job's draft row was merged from
    pc,       \* the next step of an owner's run
    view,     \* the batches as an owner last read them
    at,       \* the batch an owner is at
    tries,    \* attempts at it, counted by the owner
    calls,    \* history: calls of the AI for a batch since the job was queued
    retries,  \* history: retries of the job
    stalls    \* history: leases of living owners that ran out

jobRow == <<job, owner, lease, done, failed>>
batchRows == <<batch, attempts, result>>
locals == <<pc, view, at, tries>>
history == <<calls, retries, stalls>>
vars == <<jobRow, batchRows, draft, locals, history>>

Batches == 1 .. BatchCount
BatchStatus == {"PENDING", "RUNNING", "SUCCEEDED", "FAILED"}
Steps == {"idle", "read", "next", "try", "call", "fail", "reread", "merge",
          "succeed", "giveup", "dead"}
Views == [Batches -> [status : BatchStatus, attempts : Nat, result : Owners \cup {None}]]

TypeOK ==
    /\ job \in {"QUEUED", "RUNNING", "SUCCEEDED", "FAILED"}
    /\ owner \in Owners \cup {None}
    /\ lease \in {"none", "live", "expired"}
    /\ done \in 0 .. BatchCount
    /\ failed \in 0 .. BatchCount
    /\ batch \in [Batches -> BatchStatus]
    /\ attempts \in [Batches -> Nat]
    /\ result \in [Batches -> Owners \cup {None}]
    /\ draft \in [Batches -> Owners] \cup {None}
    /\ pc \in [Owners -> Steps]
    /\ view \in [Owners -> Views \cup {None}]
    /\ at \in [Owners -> 1 .. BatchCount + 1]
    /\ tries \in [Owners -> Nat]
    /\ calls \in [Batches -> Nat]
    /\ retries \in 0 .. MaxRetries
    /\ stalls \in 0 .. MaxStalls

\* DraftJobRepo.Create: the job and its planned batches.
Init ==
    /\ job = "QUEUED"
    /\ owner = None
    /\ lease = "none"
    /\ done = 0
    /\ failed = 0
    /\ batch = [b \in Batches |-> "PENDING"]
    /\ attempts = [b \in Batches |-> 0]
    /\ result = [b \in Batches |-> None]
    /\ draft = None
    /\ pc = [o \in Owners |-> "idle"]
    /\ view = [o \in Owners |-> None]
    /\ at = [o \in Owners |-> 1]
    /\ tries = [o \in Owners |-> 0]
    /\ calls = [b \in Batches |-> 0]
    /\ retries = 0
    /\ stalls = 0

-----------------------------------------------------------------------------
(* Helpers.                                                                 *)

Running(o) == pc[o] \notin {"idle", "dead"}

\* The guard of every statement of an owner.
Holds(o) == owner = o /\ job = "RUNNING"

Goto(o, step) == pc' = [pc EXCEPT ![o] = step] /\ UNCHANGED <<view, at, tries>>

\* On to the next batch.
Leaves(o) ==
    /\ pc' = [pc EXCEPT ![o] = "next"]
    /\ at' = [at EXCEPT ![o] = @ + 1]
    /\ tries' = [tries EXCEPT ![o] = 0]
    /\ UNCHANGED view

\* A run ends and keeps nothing.
Leave(o, step) ==
    /\ pc' = [pc EXCEPT ![o] = step]
    /\ view' = [view EXCEPT ![o] = None]
    /\ at' = [at EXCEPT ![o] = 1]
    /\ tries' = [tries EXCEPT ![o] = 0]

\* DraftJobRepo.Get: what the loop reads of the batches, and what the merge.
ReadForLoop(b) == [status |-> batch[b], attempts |-> attempts[b], result |-> None]
ReadForMerge(b) == [status |-> batch[b], attempts |-> 0, result |-> result[b]]

RefreshCounts ==
    /\ done' = Cardinality({b \in Batches : batch'[b] = "SUCCEEDED"})
    /\ failed' = Cardinality({b \in Batches : batch'[b] = "FAILED"})

-----------------------------------------------------------------------------
(* JobRunner.                                                               *)

\* Mutant: only queued jobs are taken.
ClaimQueued(o) ==
    /\ pc[o] = "idle"
    /\ job = "QUEUED"
    /\ job' = "RUNNING"
    /\ owner' = o
    /\ lease' = "live"
    /\ Goto(o, "read")
    /\ UNCHANGED <<done, failed, batchRows, draft, history>>

\* A queued job, or a running one whose lease ran out.
Claim(o) ==
    /\ pc[o] = "idle"
    /\ job \in {"QUEUED", "RUNNING"}
    /\ lease # "live"
    /\ job' = "RUNNING"
    /\ owner' = o
    /\ lease' = "live"
    /\ Goto(o, "read")
    /\ UNCHANGED <<done, failed, batchRows, draft, history>>

Read(o) ==
    /\ pc[o] = "read"
    /\ view' = [view EXCEPT ![o] = [b \in Batches |-> ReadForLoop(b)]]
    /\ pc' = [pc EXCEPT ![o] = "next"]
    /\ UNCHANGED <<at, tries>>
    /\ UNCHANGED <<jobRow, batchRows, draft, history>>

\* Batches that had ended when the run began are passed over.
NextBatch(o) ==
    /\ pc[o] = "next"
    /\ IF at[o] > BatchCount
       THEN Goto(o, "reread")
       ELSE IF view[o][at[o]].status \in {"SUCCEEDED", "FAILED"}
       THEN Leaves(o)
       ELSE /\ pc' = [pc EXCEPT ![o] = "try"]
            /\ tries' = [tries EXCEPT ![o] = view[o][at[o]].attempts]
            /\ UNCHANGED <<view, at>>
    /\ UNCHANGED <<jobRow, batchRows, draft, history>>

\* Mutant: the attempt is not counted before the AI is called.
StartUncounted(o) ==
    LET b == at[o]
    IN  /\ pc[o] = "try"
        /\ Holds(o)
        /\ batch[b] \in {"PENDING", "RUNNING"}
        /\ batch' = [batch EXCEPT ![b] = "RUNNING"]
        /\ IF tries[o] >= MaxAttempts
           THEN Goto(o, "fail") /\ UNCHANGED calls
           ELSE /\ pc' = [pc EXCEPT ![o] = "call"]
                /\ tries' = [tries EXCEPT ![o] = @ + 1]
                /\ calls' = [calls EXCEPT ![b] = @ + 1]
                /\ UNCHANGED <<view, at>>
        /\ UNCHANGED <<jobRow, attempts, result, draft, retries, stalls>>

\* StartBatch counts the attempt, then the AI is called; a batch without
\* attempts left is started only to be failed.
Start(o) ==
    LET b == at[o]
    IN  /\ pc[o] = "try"
        /\ Holds(o)
        /\ batch[b] \in {"PENDING", "RUNNING"}
        /\ batch' = [batch EXCEPT ![b] = "RUNNING"]
        /\ attempts' = [attempts EXCEPT ![b] = @ + 1]
        /\ IF tries[o] >= MaxAttempts
           THEN Goto(o, "fail") /\ UNCHANGED calls
           ELSE /\ pc' = [pc EXCEPT ![o] = "call"]
                /\ tries' = [tries EXCEPT ![o] = @ + 1]
                /\ calls' = [calls EXCEPT ![b] = @ + 1]
                /\ UNCHANGED <<view, at>>
        /\ UNCHANGED <<jobRow, result, draft, retries, stalls>>

\* Mutant: the batch is asked for, the job and its owner are not.
EndBatchOfAny(o, outcome, produced) ==
    LET b == at[o]
    IN  /\ batch[b] = "RUNNING"
        /\ batch' = [batch EXCEPT ![b] = outcome]
        /\ result' = [result EXCEPT ![b] = produced]
        /\ RefreshCounts
        /\ UNCHANGED <<job, owner, lease, attempts, draft, history>>

\* EndBatch: a batch that is RUNNING, of a job the owner still holds.
EndBatch(o, outcome, produced) ==
    LET b == at[o]
    IN  /\ Holds(o)
        /\ batch[b] = "RUNNING"
        /\ batch' = [batch EXCEPT ![b] = outcome]
        /\ result' = [result EXCEPT ![b] = produced]
        /\ RefreshCounts
        /\ UNCHANGED <<job, owner, lease, attempts, draft, history>>

Drafted(o) ==
    /\ pc[o] = "call"
    /\ EndBatch(o, "SUCCEEDED", o)
    /\ Leaves(o)

\* An error that may pass, with attempts left: the batch is tried again.
TriesAgain(o) ==
    /\ pc[o] = "call"
    /\ tries[o] < MaxAttempts
    /\ EndBatch(o, "PENDING", result[at[o]])
    /\ Goto(o, "try")

\* A final error, or no attempts left.
BatchFails(o) ==
    /\ pc[o] \in {"call", "fail"}
    /\ EndBatch(o, "FAILED", result[at[o]])
    /\ Leaves(o)

\* A statement is refused, or fails: the run goes on with the next batch.
LeavesBatch(o) ==
    /\ pc[o] \in {"try", "call", "fail"}
    /\ Leaves(o)
    /\ UNCHANGED <<jobRow, batchRows, draft, history>>

Reread(o) ==
    /\ pc[o] = "reread"
    /\ view' = [view EXCEPT ![o] = [b \in Batches |-> ReadForMerge(b)]]
    /\ pc' = [pc EXCEPT ![o] = "merge"]
    /\ at' = [at EXCEPT ![o] = 1]
    /\ UNCHANGED tries
    /\ UNCHANGED <<jobRow, batchRows, draft, history>>

\* aggregateJob: every batch has its result; the draft's id is derived from
\* the job's, so a draft that exists is taken as it is.
Merge(o) ==
    /\ pc[o] = "merge"
    /\ \A b \in Batches : view[o][b].status = "SUCCEEDED"
    /\ draft' = IF draft = None THEN [b \in Batches |-> view[o][b].result] ELSE draft
    /\ Goto(o, "succeed")
    /\ UNCHANGED <<jobRow, batchRows, history>>

\* A batch is not drafted, or the merge fails.
CannotMerge(o) ==
    /\ pc[o] = "merge"
    /\ Goto(o, "giveup")
    /\ UNCHANGED <<jobRow, batchRows, draft, history>>

\* Finish, refused when the lease was lost.
Finish(o) ==
    /\ pc[o] \in {"succeed", "giveup"}
    /\ IF Holds(o)
       THEN /\ job' = IF pc[o] = "succeed" THEN "SUCCEEDED" ELSE "FAILED"
            /\ owner' = None
            /\ lease' = "none"
       ELSE UNCHANGED <<job, owner, lease>>
    /\ Leave(o, "idle")
    /\ UNCHANGED <<done, failed, batchRows, draft, history>>

\* ExtendLease does not ask whether the lease ran out in between.
Heartbeat(o) ==
    /\ Running(o)
    /\ Holds(o)
    /\ lease' = "live"
    /\ UNCHANGED <<job, owner, done, failed, batchRows, draft, locals, history>>

\* The heartbeat finds the lease lost and cancels the run.
Cancelled(o) ==
    /\ Running(o)
    /\ ~Holds(o)
    /\ Leave(o, "idle")
    /\ UNCHANGED <<jobRow, batchRows, draft, history>>

\* Reading the batches fails: the run ends and the lease is left to run out.
RunFails(o) ==
    /\ pc[o] \in {"read", "reread"}
    /\ stalls < MaxStalls
    /\ stalls' = stalls + 1
    /\ Leave(o, "idle")
    /\ UNCHANGED <<jobRow, batchRows, draft, calls, retries>>

\* A process dies; one is left, or restarted, to take over.
Dies(o) ==
    /\ pc[o] # "dead"
    /\ \E p \in Owners \ {o} : pc[p] # "dead"
    /\ Leave(o, "dead")
    /\ UNCHANGED <<jobRow, batchRows, draft, history>>

\* lease_expires_at passes because its owner is gone.
LeaseExpires ==
    /\ lease = "live"
    /\ ~Running(owner)
    /\ lease' = "expired"
    /\ UNCHANGED <<job, owner, done, failed, batchRows, draft, locals, history>>

\* lease_expires_at passes while its owner hangs.
OwnerStalls ==
    /\ lease = "live"
    /\ Running(owner)
    /\ stalls < MaxStalls
    /\ stalls' = stalls + 1
    /\ lease' = "expired"
    /\ UNCHANGED <<job, owner, done, failed, batchRows, draft, locals, calls, retries>>

\* Mutant: every batch is drafted again.
RetryAll ==
    /\ job = "FAILED"
    /\ retries < MaxRetries
    /\ batch' = [b \in Batches |-> "PENDING"]
    /\ attempts' = [b \in Batches |-> 0]
    /\ job' = "QUEUED"
    /\ owner' = None
    /\ lease' = "none"
    /\ RefreshCounts
    /\ calls' = [b \in Batches |-> 0]
    /\ retries' = retries + 1
    /\ UNCHANGED <<result, draft, locals, stalls>>

\* An administrator queues a FAILED job again; drafted batches are kept.
Retry ==
    /\ job = "FAILED"
    /\ retries < MaxRetries
    /\ LET again == {b \in Batches : batch[b] # "SUCCEEDED"}
       IN  /\ batch' = [b \in Batches |-> IF b \in again THEN "PENDING" ELSE batch[b]]
           /\ attempts' = [b \in Batches |-> IF b \in again THEN 0 ELSE attempts[b]]
           /\ calls' = [b \in Batches |-> IF b \in again THEN 0 ELSE calls[b]]
    /\ job' = "QUEUED"
    /\ owner' = None
    /\ lease' = "none"
    /\ RefreshCounts
    /\ retries' = retries + 1
    /\ UNCHANGED <<result, draft, locals, stalls>>

-----------------------------------------------------------------------------
\* What a living owner goes on doing.
Work(o) ==
    \/ Claim(o)
    \/ Read(o)
    \/ NextBatch(o)
    \/ Start(o)
    \/ Drafted(o)
    \/ TriesAgain(o)
    \/ BatchFails(o)
    \/ LeavesBatch(o)
    \/ Reread(o)
    \/ Merge(o)
    \/ CannotMerge(o)
    \/ Finish(o)

Next ==
    \/ \E o \in Owners : Work(o) \/ Heartbeat(o) \/ Cancelled(o) \/ RunFails(o) \/ Dies(o)
    \/ LeaseExpires
    \/ OwnerStalls
    \/ Retry

Spec == Init /\ [][Next]_vars

\* Living processes go on, and time passes for a lease nobody renews.
FairSpec ==
    /\ Spec
    /\ \A o \in Owners : WF_vars(Work(o))
    /\ WF_vars(LeaseExpires)

-----------------------------------------------------------------------------
(* Properties.                                                              *)

\* A drafted batch is never drafted again nor its result replaced: not by a
\* takeover, a stalled owner that comes back, or a retry of the job ("finished
\* batches are never re-run").
FinishedBatchStands ==
    [][\A b \in Batches : batch[b] = "SUCCEEDED" =>
          batch'[b] = "SUCCEEDED" /\ result'[b] = result[b] /\ calls'[b] = calls[b]]_vars

\* Whoever drafts and however often the job changes hands, the AI is called at
\* most MaxAttempts times for a batch until an administrator asks again.
CallsAreBounded == \A b \in Batches : calls[b] <= MaxAttempts

\* The draft is merged from the whole source: from the stored result of every
\* batch, whichever owner merges and whoever else writes meanwhile; and a
\* SUCCEEDED job has it.
DraftHasEveryBatch ==
    /\ draft # None => \A b \in Batches : batch[b] = "SUCCEEDED" /\ draft[b] = result[b]
    /\ job = "SUCCEEDED" => draft # None

\* A queued or running job ends, its owners dying, stalling and losing it on
\* the way.
JobEnds == job \in {"QUEUED", "RUNNING"} ~> job \in {"SUCCEEDED", "FAILED"}

-----------------------------------------------------------------------------
(* Refinement of the promise made to the administrator.                     *)

LedgerStatus ==
    IF job = "SUCCEEDED" THEN "succeeded" ELSE IF job = "FAILED" THEN "failed" ELSE "open"

LedgerResults == [b \in Batches |-> IF batch[b] = "SUCCEEDED" THEN result[b] ELSE None]

Ledger == INSTANCE DraftLedger WITH
    Drafters <- Owners,
    status <- LedgerStatus,
    results <- LedgerResults,
    progress <- done

\* The job implements DraftLedger: with owners that die, stall, come back and
\* write beside each other, results, progress, draft and outcome change only
\* as one careful owner would change them.
ImplementsLedger == Ledger!Spec
=============================================================================
