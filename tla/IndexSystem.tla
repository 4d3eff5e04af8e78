---------------------------- MODULE IndexSystem ----------------------------
(***************************************************************************)
(* The index system: API, AI service, cleanup job and chat sessions over   *)
(* the rows of one document, with its properties.                          *)
(***************************************************************************)
EXTENDS IndexApi, IndexPipeline, IndexReaper

\* EnsureSourcePins: a session freezes what its version serves, in one
\* INSERT ... SELECT over the READY links.
PinSources(v) ==
    /\ Live(v)
    /\ linkStatus[v] = "READY"
    /\ active[v] # None
    /\ pinned' = pinned \cup {active[v]}
    /\ UNCHANGED <<linkRows, jobRows, genRows, stored, goroutines, ai, cleaner>>

Next ==
    \/ ApiStep
    \/ \E d \in Dispatches : AiStep(d)
    \/ \E d \in Dispatches : ReaperStep(d)
    \/ \E v \in Versions : PinSources(v)

Spec == Init /\ [][Next]_vars

(* A goroutine that is alive goes on, a pipeline process ends (its own      *)
(* deadline bounds it), leases run out once nobody renews them, and the     *)
(* cleanup job is run by a timer again and again.  No fairness is asked of  *)
(* users, of crashes, of a particular answer or of a successful deletion,   *)
(* and a lease that is being renewed need not ever run out.                 *)
AbandonedLeaseExpires(r) == LeaseExpires(r) /\ ~Heartbeats(jobToken[r])

Fairness ==
    /\ \A d \in Dispatches :
         /\ WF_vars(RunStep(d))
         /\ WF_vars(AiStep(d))
         /\ WF_vars(ReaperClaim(d))
         /\ WF_vars(CleanupLeaseExpires(d))
         /\ \A n \in Attempts : WF_vars(ReaperWork(d, n))
    /\ \A r \in Requests : WF_vars(AbandonedLeaseExpires(r))

FairSpec == Spec /\ Fairness

-----------------------------------------------------------------------------
(* State properties.                                                        *)

Published(d) == genStatus[d] \in {"READY", "SUPERSEDED"}

\* A live link is READY exactly when it has an active generation, and the
\* active generation is the one READY generation of the link: Unlink, Finish
\* and Link move three tables together.
ActiveIsTheReadyGeneration ==
    \A v \in Versions :
        /\ Live(v) => (linkStatus[v] = "READY" <=> active[v] # None)
        /\ {d \in DispatchesOf(v) : genStatus[d] = "READY"} = {active[v]} \ {None}

\* Whatever was published keeps its chunks and its vectors and was never
\* claimed for cleanup, however late a worker, a heartbeat or a cleanup
\* attempt of another run acts.
PublishedDataIntact ==
    \A d \in Dispatches : Published(d) =>
        d \in chunks /\ d \in vectors /\ cleanup[d] = "PENDING"

\* A generation a chat session refers to stays published, through reindexing
\* and unlinking of its source.
PinnedStaysRetrievable == \A d \in pinned : Published(d) /\ d \in chunks /\ d \in vectors

\* A link shows PROCESSING only while a CLAIMED job will decide it: nothing
\* else would ever take it out of that status.
ProcessingHasItsJob ==
    \A v \in Versions : linkStatus[v] = "PROCESSING" =>
        Live(v) /\ ClaimedJobs(v) # {}

\* Two runs never hold the claim of one link at the same time, by the code's
\* own checks and before the unique index on CLAIMED jobs is consulted.
OneClaimPerLink == \A v \in Versions : Cardinality(ClaimedJobs(v)) <= 1

\* processing_status is always what its links say, whichever transaction
\* moved a link last.
DocumentStatusAgrees == docStatus = RecomputedStatus(linkStatus, linked)

\* A job SUCCEEDED exactly when the generation of its last token was
\* published, and a CLAIMED one has published nothing yet: job and generation
\* never disagree, not even after a token was taken over.
JobMatchesGeneration ==
    \A d \in Dispatches : req[d] # None =>
        (Published(d) <=> jobStatus[req[d]] = "SUCCEEDED" /\ jobToken[req[d]] = d)

\* Once a generation's cleanup is recorded as COMPLETED its chunks are gone
\* and stay gone, and it can no longer be published.
CleanedIsGone ==
    \A d \in Dispatches : cleanup[d] = "COMPLETED" =>
        d \notin chunks /\ genStatus[d] = "FAILED"

\* A document shown as READY has a source in use, and each of its live links
\* serves a generation whose text and vectors are all there.
ReadyDocumentIsServed ==
    docStatus = "READY" =>
        /\ \E v \in Versions : Live(v)
        /\ \A v \in Versions : Live(v) => active[v] \in chunks \cap vectors

-----------------------------------------------------------------------------
(* Action properties.                                                       *)

\* A job that ended never changes again: no late finish, heartbeat or
\* takeover reopens or rewrites it.
TerminalJobIsFinal ==
    [][\A r \in Requests : jobStatus[r] \in {"SUCCEEDED", "FAILED"} =>
          /\ jobStatus'[r] = jobStatus[r]
          /\ jobToken'[r] = jobToken[r]
          /\ jobLease'[r] = jobLease[r]]_vars

\* A version that serves a generation goes on serving one, with all its data
\* and as READY, until it is unlinked: a reindex that fails, is abandoned or
\* is overtaken never takes the old generation away.
ServingSurvives ==
    [][\A v \in Versions :
          active[v] # None /\ linked'[v] = "live" =>
              /\ linkStatus'[v] = "READY"
              /\ active'[v] \in chunks' \cap vectors']_vars

-----------------------------------------------------------------------------
(* Liveness, under FairSpec.                                                *)

\* A link never hangs in PROCESSING: it is decided, or its claim runs out and
\* the admin is offered a retry (MarkRecoverable).
ProcessingIsDecidedOrRecoverable ==
    \A v \in Versions : linkStatus[v] = "PROCESSING" ~>
        (linkStatus[v] # "PROCESSING" \/ LiveJobs(v) = {})

\* Every run ends, the ones queued behind a full slot channel too.
DispatchSettles ==
    \A d \in Dispatches : pc[d] = "queued" ~> pc[d] = "done"

\* A generation nobody publishes is eventually deleted or reported as a
\* failure of the last attempt, or its last cleanup was interrupted.
AbandonedGenerationIsCleaned ==
    \A d \in Dispatches : genStatus[d] \in {"STAGING", "FAILED"} ~>
        \/ Published(d)
        \/ cleanup[d] \in {"COMPLETED", "TERMINAL_FAILED"}
        \/ cleanup[d] = "CLAIMED" /\ attempts[d] = MaxCleanupAttempts

-----------------------------------------------------------------------------
(* Refinement of the promise made to readers.                               *)

Serving == INSTANCE SourceServing WITH
    Generations <- Dispatches,
    serving <- active,
    retained <- {d \in Dispatches : Published(d) /\ d \in chunks /\ d \in vectors},
    pins <- pinned

\* The index system implements SourceServing: what readers see changes only
\* by whole publications, withdrawals and pins.
ImplementsServing == Serving!Spec

=============================================================================
