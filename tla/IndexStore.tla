---------------------------- MODULE IndexStore ----------------------------
(***************************************************************************)
(* The rows the index system of the API, the index pipeline of the AI      *)
(* service and the cleanup job share, for ONE document: its links to       *)
(* procedure versions, its index jobs, its index generations, the chunks   *)
(* kept in PostgreSQL, the vectors kept in Qdrant and the source pins of   *)
(* chat sessions; and the volatile state of the three programs.            *)
(*                                                                         *)
(* A "dispatch" is one successful claim of an index job, the claim that    *)
(* makes the API run the worker.  Every dispatch draws a fresh claim token *)
(* and stages at most one generation, so the dispatch stands for its token *)
(* and for its generation.  A job is named by its request id, which is     *)
(* unique in the table.                                                    *)
(***************************************************************************)
EXTENDS Naturals, FiniteSets

CONSTANTS
    Versions,            \* procedure versions the document may be linked to
    Requests,            \* request ids of index, retry and reindex requests
    Dispatches,          \* claim tokens, one per claim that runs the worker
    None,                \* no generation, no request, no version
    MaxConcurrent,       \* worker calls one API process runs at a time
    MaxCleanupAttempts   \* cleanups of a generation before it is given up

ASSUME IndexAssumption ==
    /\ None \notin Versions \cup Requests \cup Dispatches
    /\ IsFiniteSet(Dispatches)
    /\ MaxConcurrent \in Nat \ {0}
    /\ MaxCleanupAttempts \in Nat \ {0}

VARIABLES
    linkStatus,    \* procedure_version_documents.index_status, by version
    linked,        \* "live", or "unlinked" when there is no row or unlinked_at is set
    active,        \* .active_generation_id
    docStatus,     \* documents.processing_status
    jobStatus,     \* document_index_jobs.status, by request id
    jobVersion,    \* .procedure_version_id
    jobToken,      \* .claim_token
    jobLease,      \* .claim_expires_at: not set, in the future or past
    genStatus,     \* document_index_generations.status, by dispatch
    cleanup,       \* .cleanup_status
    attempts,      \* .cleanup_attempts
    cleanupLease,  \* .cleanup_claim_expires_at
    chunks,        \* generations whose rows are in knowledge_chunks
    vectors,       \* generations whose points are in Qdrant
    pinned,        \* generations a session_source_pins row or a message citation names
    pc,            \* where the API's goroutine for a dispatch is
    req,           \* the request a dispatch serves
    ai,            \* the pipeline process the worker call of a dispatch starts
    cleaner        \* the cleanup worker of each attempt at each generation

linkRows == <<linkStatus, linked, active, docStatus>>
jobRows == <<jobStatus, jobVersion, jobToken, jobLease>>
genRows == <<genStatus, cleanup, attempts, cleanupLease>>
stored == <<chunks, vectors>>
goroutines == <<pc, req>>
vars == <<linkStatus, linked, active, docStatus, jobStatus, jobVersion, jobToken, jobLease,
          genStatus, cleanup, attempts, cleanupLease, chunks, vectors, pinned, pc, req,
          ai, cleaner>>

-----------------------------------------------------------------------------
(* The values the rows and the programs take.                               *)

IndexStatus == {"UPLOADED", "PROCESSING", "READY", "FAILED"}
JobStatus == {"none", "CLAIMED", "SUCCEEDED", "FAILED"}
GenerationStatus == {"none", "STAGING", "READY", "SUPERSEDED", "FAILED"}
CleanupStatus == {"PENDING", "CLAIMED", "RETRYABLE_FAILED", "COMPLETED", "TERMINAL_FAILED"}
Lease == {"none", "live", "expired"}
Attempts == 1 .. MaxCleanupAttempts
RunPc == {"idle", "claimed", "queued", "calling", "publishing", "failing", "done"}
Pipeline == {"idle", "running", "upserted", "stored", "cleaning", "ok", "error"}
Cleaner == {"idle", "claimed", "renewed", "deleted", "failing"}

TypeOK ==
    /\ linkStatus \in [Versions -> IndexStatus]
    /\ linked \in [Versions -> {"live", "unlinked"}]
    /\ active \in [Versions -> Dispatches \cup {None}]
    /\ docStatus \in IndexStatus
    /\ jobStatus \in [Requests -> JobStatus]
    /\ jobVersion \in [Requests -> Versions \cup {None}]
    /\ jobToken \in [Requests -> Dispatches \cup {None}]
    /\ jobLease \in [Requests -> Lease]
    /\ genStatus \in [Dispatches -> GenerationStatus]
    /\ cleanup \in [Dispatches -> CleanupStatus]
    /\ attempts \in [Dispatches -> 0 .. MaxCleanupAttempts]
    /\ cleanupLease \in [Dispatches -> Lease]
    /\ chunks \subseteq Dispatches
    /\ vectors \subseteq Dispatches
    /\ pinned \subseteq Dispatches
    /\ pc \in [Dispatches -> RunPc]
    /\ req \in [Dispatches -> Requests \cup {None}]
    /\ ai \in [Dispatches -> Pipeline]
    /\ cleaner \in [Dispatches -> [Attempts -> Cleaner]]

Init ==
    /\ linkStatus = [v \in Versions |-> "UPLOADED"]
    /\ linked = [v \in Versions |-> "unlinked"]
    /\ active = [v \in Versions |-> None]
    /\ docStatus = "UPLOADED"
    /\ jobStatus = [r \in Requests |-> "none"]
    /\ jobVersion = [r \in Requests |-> None]
    /\ jobToken = [r \in Requests |-> None]
    /\ jobLease = [r \in Requests |-> "none"]
    /\ genStatus = [d \in Dispatches |-> "none"]
    /\ cleanup = [d \in Dispatches |-> "PENDING"]
    /\ attempts = [d \in Dispatches |-> 0]
    /\ cleanupLease = [d \in Dispatches |-> "none"]
    /\ chunks = {}
    /\ vectors = {}
    /\ pinned = {}
    /\ pc = [d \in Dispatches |-> "idle"]
    /\ req = [d \in Dispatches |-> None]
    /\ ai = [d \in Dispatches |-> "idle"]
    /\ cleaner = [d \in Dispatches |-> [n \in Attempts |-> "idle"]]

-----------------------------------------------------------------------------
(* Reading the rows.                                                        *)

Live(v) == linked[v] = "live"

\* The version of the job a dispatch was claimed for.
VersionOf(d) == jobVersion[req[d]]

\* Mutant: a takeover's new token is not compared.
HoldsClaimOfAnyToken(d) == jobStatus[req[d]] = "CLAIMED"

\* The job row still carries the dispatch's token and is still CLAIMED.
HoldsClaim(d) == jobToken[req[d]] = d /\ jobStatus[req[d]] = "CLAIMED"

HoldsLiveClaim(d) == HoldsClaim(d) /\ jobLease[req[d]] = "live"

\* Jobs of a link that are CLAIMED, and those whose lease has not run out.
ClaimedJobs(v) == {r \in Requests : jobVersion[r] = v /\ jobStatus[r] = "CLAIMED"}
LiveJobs(v) == {r \in ClaimedJobs(v) : jobLease[r] = "live"}

\* The dispatches whose generation belongs to a version's link.
DispatchesOf(v) == {d \in Dispatches : req[d] # None /\ VersionOf(d) = v}

\* Mutant: the old generation stays READY.
SupersededNone(v) == [d \in Dispatches |-> genStatus[d]]

\* The READY generations of a version's link become SUPERSEDED.
Superseded(v) == [d \in Dispatches |->
    IF d \in DispatchesOf(v) /\ genStatus[d] = "READY" THEN "SUPERSEDED" ELSE genStatus[d]]

\* Mutant: having no live link at all is not told apart.
RecomputedWithoutLinks(status, isLinked) ==
    LET live == {status[v] : v \in {w \in Versions : isLinked[w] = "live"}}
    IN  IF live \subseteq {"READY"} THEN "READY"
        ELSE IF "PROCESSING" \in live THEN "PROCESSING"
        ELSE IF "FAILED" \in live THEN "FAILED"
        ELSE "UPLOADED"

\* processing_status, recomputed from the status of the live links.
RecomputedStatus(status, isLinked) ==
    LET live == {status[v] : v \in {w \in Versions : isLinked[w] = "live"}}
    IN  IF live = {} THEN "UPLOADED"
        ELSE IF live = {"READY"} THEN "READY"
        ELSE IF "PROCESSING" \in live THEN "PROCESSING"
        ELSE IF "FAILED" \in live THEN "FAILED"
        ELSE "UPLOADED"

=============================================================================
