-------------------------- MODULE IndexInvariant --------------------------
(***************************************************************************)
(* The inductive invariant of IndexSystem.  Its parts say what the rows    *)
(* and the programs know of each other; the state properties follow.       *)
(***************************************************************************)
EXTENDS IndexSystem

\* A run that started belongs to a job that exists, and only a run past
\* staging has a generation.  Only a run that took a slot has a pipeline.
RunInv(d) ==
    /\ pc[d] = "idle" <=> req[d] = None
    /\ pc[d] # "idle" => jobStatus[req[d]] # "none" /\ jobVersion[req[d]] # None
    /\ pc[d] \in {"idle", "claimed"} => genStatus[d] = "none" /\ ai[d] = "idle"
    /\ pc[d] = "queued" => genStatus[d] # "none" /\ ai[d] = "idle"
    /\ pc[d] = "publishing" => ai[d] = "ok"
    /\ genStatus[d] = "none" => ai[d] = "idle"

\* A job is named by its request, has a token while it exists, and a lease
\* exactly while it is CLAIMED.
JobInv(r) ==
    /\ jobStatus[r] = "none" <=> jobVersion[r] = None
    /\ jobStatus[r] # "none" => jobToken[r] # None /\ req[jobToken[r]] = r
    /\ jobLease[r] # "none" <=> jobStatus[r] = "CLAIMED"

\* While a generation is STAGING the pipeline's writes are all there; a
\* cleanup was claimed only for a FAILED one; a published one was written to
\* the end.
GenerationInv(d) ==
    /\ genStatus[d] = "STAGING" /\ ai[d] \in {"upserted", "stored", "ok"} => d \in vectors
    /\ genStatus[d] = "STAGING" /\ ai[d] \in {"stored", "ok"} => d \in chunks
    /\ genStatus[d] # "FAILED" => /\ cleanup[d] = "PENDING"
                              /\ \A n \in Attempts : cleaner[d][n] = "idle"
    /\ Published(d) => ai[d] = "ok" /\ d \in chunks /\ d \in vectors
    /\ cleanup[d] = "COMPLETED" => d \notin chunks
    /\ d \in pinned => Published(d)
    /\ Published(d) => jobStatus[req[d]] = "SUCCEEDED" /\ jobToken[req[d]] = d
    /\ pc[d] # "idle" /\ jobStatus[req[d]] = "SUCCEEDED" /\ jobToken[req[d]] = d => Published(d)

\* The active generation of a link is its READY one; only a live link has
\* one, and it is READY then and only then.
LinkInv(v) ==
    /\ active[v] # None => linked[v] = "live" /\ linkStatus[v] = "READY"
    /\ linked[v] = "live" /\ linkStatus[v] = "READY" => active[v] # None
    /\ linkStatus[v] = "PROCESSING" =>
           /\ linked[v] = "live"
           /\ \E r \in Requests : jobVersion[r] = v /\ jobStatus[r] = "CLAIMED"
    /\ \A d \in Dispatches :
           active[v] = d <=>
               req[d] # None /\ jobVersion[req[d]] = v /\ genStatus[d] = "READY"

ClaimInv ==
    \A q, r \in Requests :
        /\ jobStatus[q] = "CLAIMED"
        /\ jobStatus[r] = "CLAIMED"
        /\ jobVersion[q] = jobVersion[r]
        => q = r

IInv ==
    /\ TypeOK
    /\ \A d \in Dispatches : RunInv(d) /\ GenerationInv(d)
    /\ \A r \in Requests : JobInv(r)
    /\ \A v \in Versions : LinkInv(v)
    /\ ClaimInv
    /\ DocumentStatusAgrees

=============================================================================
