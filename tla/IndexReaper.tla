---------------------------- MODULE IndexReaper ----------------------------
(***************************************************************************)
(* The cleanup job (cmd/index-reaper): it claims generations nobody will   *)
(* publish, deletes their vectors, then their chunks, and records the      *)
(* outcome.  An attempt number stands for its cleanup token: both are      *)
(* drawn by the claim.  Several cleanup workers may be at work on one      *)
(* generation when leases run out.                                         *)
(***************************************************************************)
EXTENDS IndexStore

\* The row still carries the token of attempt n.
HoldsCleanup(d, n) == cleanup[d] = "CLAIMED" /\ attempts[d] = n

OnlyCleaner(d, n, step) ==
    /\ cleaner' = [cleaner EXCEPT ![d][n] = step]
    /\ UNCHANGED <<linkRows, jobRows, pinned, goroutines, ai>>

\* Mutant: the number of attempts is not bounded.
ClaimableForever(d) ==
    /\ genStatus[d] \in {"STAGING", "FAILED"}
    /\ \/ cleanup[d] \in {"PENDING", "RETRYABLE_FAILED"}
       \/ cleanup[d] = "CLAIMED" /\ cleanupLease[d] = "expired"
    /\ \A v \in Versions : active[v] # d
    /\ ~(jobStatus[req[d]] = "CLAIMED" /\ jobLease[req[d]] = "live")
    /\ d \notin pinned

\* Mutant: a cleanup whose lease ran out is not taken over.
ClaimableOnce(d) ==
    /\ genStatus[d] \in {"STAGING", "FAILED"}
    /\ attempts[d] < MaxCleanupAttempts
    /\ cleanup[d] \in {"PENDING", "RETRYABLE_FAILED"}
    /\ \A v \in Versions : active[v] # d
    /\ ~(jobStatus[req[d]] = "CLAIMED" /\ jobLease[req[d]] = "live")
    /\ d \notin pinned

\* claimSQL: what makes a generation claimable.  Its age is abstracted: the
\* grace period is configurable down to zero.
Claimable(d) ==
    /\ genStatus[d] \in {"STAGING", "FAILED"}
    /\ attempts[d] < MaxCleanupAttempts
    /\ \/ cleanup[d] \in {"PENDING", "RETRYABLE_FAILED"}
       \/ cleanup[d] = "CLAIMED" /\ cleanupLease[d] = "expired"
    /\ \A v \in Versions : active[v] # d
    /\ ~(jobStatus[req[d]] = "CLAIMED" /\ jobLease[req[d]] = "live")
    /\ d \notin pinned

ReaperClaim(d) ==
    LET n == attempts[d] + 1 IN
    /\ Claimable(d)
    /\ genStatus' = [genStatus EXCEPT ![d] = "FAILED"]
    /\ cleanup' = [cleanup EXCEPT ![d] = "CLAIMED"]
    /\ attempts' = [attempts EXCEPT ![d] = n]
    /\ cleanupLease' = [cleanupLease EXCEPT ![d] = "live"]
    /\ OnlyCleaner(d, n, "claimed")
    /\ UNCHANGED stored

\* cleanup_claim_expires_at passes.
CleanupLeaseExpires(d) ==
    /\ cleanup[d] = "CLAIMED"
    /\ cleanupLease[d] = "live"
    /\ cleanupLease' = [cleanupLease EXCEPT ![d] = "expired"]
    /\ UNCHANGED <<linkRows, jobRows, genStatus, cleanup, attempts, pinned, stored,
                   goroutines, ai, cleaner>>

\* finishOne starts by renewing the lease, which revives an expired one; a
\* worker that lost its token stops.
ReaperRenew(d, n) ==
    /\ cleaner[d][n] = "claimed"
    /\ HoldsCleanup(d, n)
    /\ cleanupLease' = [cleanupLease EXCEPT ![d] = "live"]
    /\ OnlyCleaner(d, n, "renewed")
    /\ UNCHANGED <<genStatus, cleanup, attempts, stored>>

ReaperFindsItLost(d, n) ==
    /\ cleaner[d][n] \in {"claimed", "deleted", "failing"}
    /\ ~HoldsCleanup(d, n)
    /\ OnlyCleaner(d, n, "idle")
    /\ UNCHANGED <<genRows, stored>>

\* deleteQdrantVerified: delete, then count exactly zero points.
ReaperDelete(d, n) ==
    /\ cleaner[d][n] = "renewed"
    /\ vectors' = vectors \ {d}
    /\ OnlyCleaner(d, n, "deleted")
    /\ UNCHANGED <<genRows, chunks>>

ReaperDeleteFails(d, n) ==
    /\ cleaner[d][n] = "renewed"
    /\ vectors' \in {vectors, vectors \ {d}}
    /\ OnlyCleaner(d, n, "failing")
    /\ UNCHANGED <<genRows, chunks>>

\* Mutant: the chunks are deleted by document and not by generation.
ReaperCompletesDocument(d, n) ==
    /\ cleaner[d][n] = "deleted"
    /\ HoldsCleanup(d, n)
    /\ chunks' = {}
    /\ cleanup' = [cleanup EXCEPT ![d] = "COMPLETED"]
    /\ cleanupLease' = [cleanupLease EXCEPT ![d] = "none"]
    /\ OnlyCleaner(d, n, "idle")
    /\ UNCHANGED <<genStatus, attempts, vectors>>

\* complete: the chunks and the status go in one transaction, which a worker
\* without the token rolls back (ReaperFindsItLost).
ReaperComplete(d, n) ==
    /\ cleaner[d][n] = "deleted"
    /\ HoldsCleanup(d, n)
    /\ chunks' = chunks \ {d}
    /\ cleanup' = [cleanup EXCEPT ![d] = "COMPLETED"]
    /\ cleanupLease' = [cleanupLease EXCEPT ![d] = "none"]
    /\ OnlyCleaner(d, n, "idle")
    /\ UNCHANGED <<genStatus, attempts, vectors>>

\* complete hits a database error and rolls back.
ReaperCompleteFails(d, n) ==
    /\ cleaner[d][n] = "deleted"
    /\ OnlyCleaner(d, n, "failing")
    /\ UNCHANGED <<genRows, stored>>

\* markFailed: the last attempt is terminal.
ReaperMark(d, n) ==
    /\ cleaner[d][n] = "failing"
    /\ HoldsCleanup(d, n)
    /\ cleanup' = [cleanup EXCEPT ![d] = IF n >= MaxCleanupAttempts
                                         THEN "TERMINAL_FAILED" ELSE "RETRYABLE_FAILED"]
    /\ cleanupLease' = [cleanupLease EXCEPT ![d] = "none"]
    /\ OnlyCleaner(d, n, "idle")
    /\ UNCHANGED <<genStatus, attempts, stored>>

\* The process dies, or its renewal or its mark meets a database error: the
\* worker leaves the row as it is.
ReaperGivesUp(d, n) ==
    /\ cleaner[d][n] \in {"claimed", "renewed", "deleted", "failing"}
    /\ OnlyCleaner(d, n, "idle")
    /\ UNCHANGED <<genRows, stored>>

\* The steps of a worker that keeps running.
ReaperWork(d, n) ==
    \/ ReaperRenew(d, n) \/ ReaperFindsItLost(d, n) \/ ReaperDelete(d, n)
    \/ ReaperDeleteFails(d, n) \/ ReaperComplete(d, n) \/ ReaperCompleteFails(d, n)
    \/ ReaperMark(d, n)

ReaperStep(d) ==
    \/ ReaperClaim(d)
    \/ CleanupLeaseExpires(d)
    \/ \E n \in Attempts : ReaperWork(d, n) \/ ReaperGivesUp(d, n)

=============================================================================
