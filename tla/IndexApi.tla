----------------------------- MODULE IndexApi -----------------------------
(***************************************************************************)
(* The API's side of the index system: the transactions of IndexRepo and   *)
(* the goroutine index.Service runs for every dispatch, in the production  *)
(* configuration (pipeline mode, background jobs).  Each repository        *)
(* transaction locks the document row first, so it is one step.  Replays   *)
(* of stored answers and refused requests change nothing and are stutters. *)
(***************************************************************************)
EXTENDS IndexStore

-----------------------------------------------------------------------------
(* IndexRepo: links.                                                        *)

\* A first link, or a fresh start for a row that was unlinked.
LinkDocument(v) ==
    /\ ~Live(v)
    /\ linkStatus' = [linkStatus EXCEPT ![v] = "UPLOADED"]
    /\ linked' = [linked EXCEPT ![v] = "live"]
    /\ active' = [active EXCEPT ![v] = None]
    /\ docStatus' = RecomputedStatus(linkStatus', linked')
    /\ UNCHANGED <<jobRows, genRows, stored, pinned, goroutines, ai, cleaner>>

\* Mutant: only a live claim stops the unlink.
UnlinkWhileProcessing(v) ==
    /\ Live(v)
    /\ LiveJobs(v) = {}
    /\ genStatus' = Superseded(v)
    /\ linked' = [linked EXCEPT ![v] = "unlinked"]
    /\ active' = [active EXCEPT ![v] = None]
    /\ docStatus' = RecomputedStatus(linkStatus, linked')
    /\ UNCHANGED <<linkStatus, jobRows, cleanup, attempts, cleanupLease, stored, pinned,
                   goroutines, ai, cleaner>>

\* Mutant: processing_status is not recomputed.
UnlinkKeepingDocument(v) ==
    /\ Live(v)
    /\ linkStatus[v] # "PROCESSING"
    /\ LiveJobs(v) = {}
    /\ genStatus' = Superseded(v)
    /\ linked' = [linked EXCEPT ![v] = "unlinked"]
    /\ active' = [active EXCEPT ![v] = None]
    /\ UNCHANGED <<linkStatus, docStatus, jobRows, cleanup, attempts, cleanupLease, stored,
                   pinned, goroutines, ai, cleaner>>

\* Refused while the link is PROCESSING or one of its jobs has a live claim.
\* index_status keeps its last value.
Unlink(v) ==
    /\ Live(v)
    /\ linkStatus[v] # "PROCESSING"
    /\ LiveJobs(v) = {}
    /\ genStatus' = Superseded(v)
    /\ linked' = [linked EXCEPT ![v] = "unlinked"]
    /\ active' = [active EXCEPT ![v] = None]
    /\ docStatus' = RecomputedStatus(linkStatus, linked')
    /\ UNCHANGED <<linkStatus, jobRows, cleanup, attempts, cleanupLease, stored, pinned,
                   goroutines, ai, cleaner>>

-----------------------------------------------------------------------------
(* IndexRepo: claims.                                                       *)

JobKind == {"index", "retry", "reindex"}

\* The link status each kind of request may start from.
Allowed(kind, status) ==
    \/ kind = "index" /\ status = "UPLOADED"
    \/ kind = "retry" /\ status \in {"FAILED", "PROCESSING"}
    \/ kind = "reindex" /\ status = "READY"

StartRun(d, r) ==
    /\ pc[d] = "idle"
    /\ pc' = [pc EXCEPT ![d] = "claimed"]
    /\ req' = [req EXCEPT ![d] = r]

\* A request id seen for the first time: claims of the link whose lease ran
\* out fail, a live one makes the request conflict.
Claim(r, v, kind, d) ==
    /\ jobStatus[r] = "none"
    /\ Live(v)
    /\ LiveJobs(v) = {}
    /\ Allowed(kind, linkStatus[v])
    /\ StartRun(d, r)
    /\ jobStatus' = [q \in Requests |-> IF q = r THEN "CLAIMED"
                                        ELSE IF q \in ClaimedJobs(v) THEN "FAILED"
                                        ELSE jobStatus[q]]
    /\ jobLease' = [q \in Requests |-> IF q = r THEN "live"
                                       ELSE IF q \in ClaimedJobs(v) THEN "none"
                                       ELSE jobLease[q]]
    /\ jobVersion' = [jobVersion EXCEPT ![r] = v]
    /\ jobToken' = [jobToken EXCEPT ![r] = d]
    /\ linkStatus' = IF kind = "reindex" THEN linkStatus
                     ELSE [linkStatus EXCEPT ![v] = "PROCESSING"]
    /\ docStatus' = RecomputedStatus(linkStatus', linked)
    /\ UNCHANGED <<linked, active, genRows, stored, pinned, ai, cleaner>>

\* The same request again after its lease ran out: a new token and a new run.
\* Nothing but the link being live is asked of the link.
Reclaim(r, d) ==
    /\ jobStatus[r] = "CLAIMED"
    /\ jobLease[r] = "expired"
    /\ Live(jobVersion[r])
    /\ StartRun(d, r)
    /\ jobToken' = [jobToken EXCEPT ![r] = d]
    /\ jobLease' = [jobLease EXCEPT ![r] = "live"]
    /\ UNCHANGED <<linkRows, jobStatus, jobVersion, genRows, stored, pinned, ai, cleaner>>

\* claim_expires_at passes.
LeaseExpires(r) ==
    /\ jobStatus[r] = "CLAIMED"
    /\ jobLease[r] = "live"
    /\ jobLease' = [jobLease EXCEPT ![r] = "expired"]
    /\ UNCHANGED <<linkRows, jobStatus, jobVersion, jobToken, genRows, stored, pinned,
                   goroutines, ai, cleaner>>

-----------------------------------------------------------------------------
(* index.Service: the goroutine of a dispatch.                              *)

Goto(d, step) == pc' = [pc EXCEPT ![d] = step] /\ UNCHANGED <<req, cleaner>>

\* StageGeneration inserts the row without looking at the claim again.
Stage(d) ==
    /\ pc[d] = "claimed"
    /\ genStatus' = [genStatus EXCEPT ![d] = "STAGING"]
    /\ Goto(d, "queued")
    /\ UNCHANGED <<linkRows, jobRows, cleanup, attempts, cleanupLease, stored, pinned, ai>>

StageFails(d) ==
    /\ pc[d] = "claimed"
    /\ Goto(d, "failing")
    /\ UNCHANGED <<linkRows, jobRows, genRows, stored, pinned, ai>>

\* Mutant: a finished goroutine does not give its slot back.
SlotsEverUsed == {d \in Dispatches : ai[d] # "idle"}

\* The slot channel admits MaxConcurrent worker calls; a goroutine that took a
\* slot (its pipeline process was started) keeps it until it has finished the job.
SlotsInUse == {d \in Dispatches : pc[d] \in {"calling", "publishing", "failing"} /\ ai[d] # "idle"}

AcquireSlot(d) ==
    /\ pc[d] = "queued"
    /\ Cardinality(SlotsInUse) < MaxConcurrent
    /\ Goto(d, "calling")
    /\ ai' = [ai EXCEPT ![d] = "running"]
    /\ UNCHANGED <<linkRows, jobRows, genRows, stored, pinned>>

\* Mutant: the heartbeat of a finished goroutine goes on.
HeartbeatsForever(d) == pc[d] \notin {"idle", "claimed"} /\ genStatus[d] # "none"

\* The heartbeat starts once the generation is staged and runs until the
\* goroutine ends.  It does not ask whether the lease ran out in between.
Heartbeats(d) == pc[d] \in {"queued", "calling", "publishing", "failing"} /\ genStatus[d] # "none"

HeartbeatExtends(d) ==
    /\ Heartbeats(d)
    /\ HoldsClaim(d)
    /\ jobLease' = [jobLease EXCEPT ![req[d]] = "live"]
    /\ UNCHANGED <<linkRows, jobStatus, jobVersion, jobToken, genRows, stored, pinned,
                   goroutines, ai, cleaner>>

\* A lost claim cancels the wait for a slot or the worker call.
HeartbeatFindsItLost(d) ==
    /\ Heartbeats(d)
    /\ ~HoldsClaim(d)
    /\ pc[d] \in {"queued", "calling"}
    /\ Goto(d, "failing")
    /\ UNCHANGED <<linkRows, jobRows, genRows, stored, pinned, ai>>

\* A job's outcome is where its goroutine goes: "publishing" for READY,
\* "failing" for FAILED.
WorkerReplies(d) ==
    /\ pc[d] = "calling"
    /\ \/ ai[d] = "ok" /\ Goto(d, "publishing")
       \/ ai[d] = "error" /\ Goto(d, "failing")
    /\ UNCHANGED <<linkRows, jobRows, genRows, stored, pinned, ai>>

\* Timeout, broken connection or an unusable reply fail the job while the
\* pipeline process may go on for a while.
WorkerCallFails(d) ==
    /\ pc[d] = "calling"
    /\ Goto(d, "failing")
    /\ UNCHANGED <<linkRows, jobRows, genRows, stored, pinned, ai>>

-----------------------------------------------------------------------------
(* IndexRepo.Finish, called by finishDetached on a context of its own.      *)

\* generationMatches: the row is STAGING and the stored chunks are the
\* manifest's.  Qdrant is not consulted.
GenerationMatches(d) == genStatus[d] = "STAGING" /\ d \in chunks

Publishable(d) == pc[d] = "publishing" /\ GenerationMatches(d)

EndRun(d) ==
    /\ pc[d] \in {"publishing", "failing"}
    /\ Goto(d, "done")
    /\ UNCHANGED <<cleanup, attempts, cleanupLease, stored, pinned, ai>>

CloseJob(d, status) ==
    /\ jobStatus' = [jobStatus EXCEPT ![req[d]] = status]
    /\ jobLease' = [jobLease EXCEPT ![req[d]] = "none"]
    /\ UNCHANGED <<jobVersion, jobToken>>

FailGeneration(d) ==
    genStatus' = [genStatus EXCEPT ![d] = IF @ = "STAGING" THEN "FAILED" ELSE @]

\* The link was unlinked meanwhile: the job and its generation fail.
FinishUnlinked(d) ==
    /\ EndRun(d)
    /\ ~Live(VersionOf(d))
    /\ HoldsClaim(d)
    /\ CloseJob(d, "FAILED")
    /\ FailGeneration(d)
    /\ UNCHANGED linkRows

\* Not applied: the token was taken over, the job is closed or the lease ran
\* out.  (A generation claimed for cleanup would roll the READY back; none is
\* while its run holds an unexpired claim.)
FinishRejected(d) ==
    /\ EndRun(d)
    /\ \/ ~HoldsClaim(d)
       \/ Live(VersionOf(d)) /\ ~HoldsLiveClaim(d)
    /\ UNCHANGED <<linkRows, jobRows, genStatus>>

\* READY: the generation replaces the link's other READY generation.
FinishReady(d) ==
    LET v == VersionOf(d) IN
    /\ EndRun(d)
    /\ Live(v)
    /\ HoldsLiveClaim(d)
    /\ Publishable(d)
    /\ cleanup[d] = "PENDING"
    /\ CloseJob(d, "SUCCEEDED")
    /\ genStatus' = [Superseded(v) EXCEPT ![d] = "READY"]
    /\ linkStatus' = [linkStatus EXCEPT ![v] = "READY"]
    /\ active' = [active EXCEPT ![v] = d]
    /\ docStatus' = RecomputedStatus(linkStatus', linked)
    /\ UNCHANGED linked

\* Mutant: a failed reindex fails a link that still serves.
FinishFailedAlways(d) ==
    LET v == VersionOf(d) IN
    /\ EndRun(d)
    /\ Live(v)
    /\ HoldsLiveClaim(d)
    /\ ~Publishable(d)
    /\ CloseJob(d, "FAILED")
    /\ FailGeneration(d)
    /\ linkStatus' = [linkStatus EXCEPT ![v] = "FAILED"]
    /\ docStatus' = RecomputedStatus(linkStatus', linked)
    /\ UNCHANGED <<linked, active>>

\* FAILED, or READY with a generation that does not match: a link that has
\* an active generation stays READY.
FinishFailed(d) ==
    LET v == VersionOf(d) IN
    /\ EndRun(d)
    /\ Live(v)
    /\ HoldsLiveClaim(d)
    /\ ~Publishable(d)
    /\ CloseJob(d, "FAILED")
    /\ FailGeneration(d)
    /\ linkStatus' = [linkStatus EXCEPT ![v] = IF active[v] = None THEN "FAILED" ELSE "READY"]
    /\ docStatus' = RecomputedStatus(linkStatus', linked)
    /\ UNCHANGED <<linked, active>>

\* The transaction fails and its error is dropped: nobody tries again.
FinishErrors(d) ==
    /\ EndRun(d)
    /\ UNCHANGED <<linkRows, jobRows, genStatus>>

Finish(d) ==
    \/ FinishUnlinked(d) \/ FinishRejected(d) \/ FinishReady(d) \/ FinishFailed(d)
    \/ FinishErrors(d)

-----------------------------------------------------------------------------

Running == {"claimed", "queued", "calling", "publishing", "failing"}

\* The API process dies, and every goroutine with it.
CrashApi ==
    /\ \E d \in Dispatches : pc[d] \in Running
    /\ pc' = [d \in Dispatches |-> IF pc[d] \in Running THEN "done" ELSE pc[d]]
    /\ UNCHANGED <<linkRows, jobRows, genRows, stored, pinned, req, ai, cleaner>>

\* The steps of a goroutine that keeps running.
RunStep(d) ==
    \/ Stage(d) \/ StageFails(d) \/ AcquireSlot(d)
    \/ HeartbeatFindsItLost(d) \/ WorkerReplies(d) \/ WorkerCallFails(d) \/ Finish(d)

ApiStep ==
    \/ \E v \in Versions : LinkDocument(v) \/ Unlink(v)
    \/ \E r \in Requests, v \in Versions, kind \in JobKind, d \in Dispatches : Claim(r, v, kind, d)
    \/ \E r \in Requests, d \in Dispatches : Reclaim(r, d)
    \/ \E r \in Requests : LeaseExpires(r)
    \/ \E d \in Dispatches : RunStep(d) \/ HeartbeatExtends(d)
    \/ CrashApi

=============================================================================
