---------------------------- MODULE IndexProofs ----------------------------
(***************************************************************************)
(* Theorems of the index system, for every number of versions, requests,   *)
(* claims, slots and cleanup attempts.                                     *)
(***************************************************************************)
EXTENDS IndexInvariant, FiniteSetTheorems, TLAPS

\* The recomputed processing_status is one of the four the column allows.
LEMMA RecomputedType ==
    ASSUME NEW status, NEW isLinked
    PROVE  RecomputedStatus(status, isLinked) \in IndexStatus
BY DEF RecomputedStatus, IndexStatus

\* Type correctness is preserved by every transaction, goroutine step,
\* pipeline step and cleanup step.
LEMMA TypeStep == ASSUME TypeOK, [Next]_vars PROVE TypeOK'
<1> USE IndexAssumption
    DEFS TypeOK, IndexStatus, JobStatus, GenerationStatus, CleanupStatus, Lease, Attempts,
         RunPc, Pipeline, Cleaner, linkRows, jobRows, genRows, stored, goroutines
<1> SUFFICES ASSUME Next PROVE TypeOK'
  BY DEF vars
<1>1. ASSUME NEW v \in Versions, LinkDocument(v) \/ Unlink(v) PROVE TypeOK'
  <2>1. CASE LinkDocument(v)
    BY <2>1, RecomputedType DEF LinkDocument
  <2>2. CASE Unlink(v)
    <3>1. genStatus' \in [Dispatches -> GenerationStatus]
      BY <2>2 DEF Unlink, Superseded
    <3> QED BY <2>2, <3>1, RecomputedType DEF Unlink
  <2> QED BY <1>1, <2>1, <2>2
<1>2. ASSUME NEW r \in Requests, NEW v \in Versions, NEW kind \in JobKind,
             NEW d \in Dispatches, Claim(r, v, kind, d)
      PROVE TypeOK'
  BY <1>2, RecomputedType DEF Claim, StartRun
<1>3. ASSUME NEW r \in Requests, NEW d \in Dispatches, Reclaim(r, d) PROVE TypeOK'
  BY <1>3 DEF Reclaim, StartRun
<1>4. ASSUME NEW r \in Requests, LeaseExpires(r) PROVE TypeOK'
  BY <1>4 DEF LeaseExpires
<1>5. ASSUME NEW d \in Dispatches, RunStep(d) PROVE TypeOK'
  <2>1. CASE Stage(d)
    BY <2>1 DEF Stage, Goto
  <2>6. CASE AcquireSlot(d)
    BY <2>6 DEF AcquireSlot, Goto
  <2>7. CASE StageFails(d) \/ HeartbeatFindsItLost(d) \/ WorkerReplies(d) \/ WorkerCallFails(d)
    <3>1. PICK step \in RunPc : Goto(d, step)
      BY <2>7 DEF StageFails, HeartbeatFindsItLost, WorkerReplies, WorkerCallFails
    <3>2. UNCHANGED <<linkRows, jobRows, genRows, stored, pinned, ai>>
      BY <2>7 DEF StageFails, HeartbeatFindsItLost, WorkerReplies, WorkerCallFails
    <3> QED BY <3>1, <3>2 DEF Goto
  <2>2. CASE FinishUnlinked(d)
    <3>1. genStatus' \in [Dispatches -> GenerationStatus]
      BY <2>2 DEF FinishUnlinked, FailGeneration
    <3> QED BY <2>2, <3>1 DEF FinishUnlinked, EndRun, Goto, CloseJob
  <2>3. CASE FinishRejected(d) \/ FinishErrors(d)
    <3>1. EndRun(d) /\ UNCHANGED <<linkRows, jobRows, genStatus>>
      BY <2>3 DEF FinishRejected, FinishErrors
    <3> QED BY <3>1 DEF EndRun, Goto
  <2>4. CASE FinishReady(d)
    <3>1. genStatus' \in [Dispatches -> GenerationStatus]
      BY <2>4 DEF FinishReady, Superseded
    <3> QED BY <2>4, <3>1, RecomputedType DEF FinishReady, EndRun, Goto, CloseJob
  <2>5. CASE FinishFailed(d)
    BY <2>5, RecomputedType DEF FinishFailed, EndRun, Goto, CloseJob, FailGeneration
  <2> QED BY <1>5, <2>1, <2>2, <2>3, <2>4, <2>5, <2>6, <2>7 DEF RunStep, Finish
<1>6. ASSUME NEW d \in Dispatches, HeartbeatExtends(d) PROVE TypeOK'
  BY <1>6 DEF HeartbeatExtends
<1>7. CASE CrashApi
  BY <1>7 DEF CrashApi
<1>8. ASSUME NEW d \in Dispatches, AiStep(d) PROVE TypeOK'
  <2>1. chunks' \subseteq Dispatches /\ vectors' \subseteq Dispatches
    BY <1>8 DEF AiStep, AiFailsEarly, AiUpsert, AiUpsertFails, AiStore, AiStoreFails,
                AiDeadlineAfterStore, AiClean, AiDone, AiKilled
  <2>2. PICK step \in Pipeline : OnlyAi(d, step)
    BY <1>8 DEF AiStep, AiFailsEarly, AiUpsert, AiUpsertFails, AiStore, AiStoreFails,
                AiDeadlineAfterStore, AiClean, AiDone, AiKilled
  <2> QED BY <2>1, <2>2 DEF OnlyAi
<1>9. ASSUME NEW d \in Dispatches, ReaperStep(d) PROVE TypeOK'
  <2>1. CASE ReaperClaim(d)
    BY <2>1 DEF ReaperClaim, Claimable, OnlyCleaner
  <2>2. CASE CleanupLeaseExpires(d)
    BY <2>2 DEF CleanupLeaseExpires
  <2>3. ASSUME NEW n \in Attempts, ReaperWork(d, n) \/ ReaperGivesUp(d, n) PROVE TypeOK'
    <3>1. PICK step \in Cleaner : OnlyCleaner(d, n, step)
      BY <2>3 DEF ReaperWork, ReaperRenew, ReaperFindsItLost, ReaperDelete, ReaperDeleteFails,
                  ReaperComplete, ReaperCompleteFails, ReaperMark, ReaperGivesUp
    <3>2. chunks' \subseteq Dispatches /\ vectors' \subseteq Dispatches
      BY <2>3 DEF ReaperWork, ReaperRenew, ReaperFindsItLost, ReaperDelete, ReaperDeleteFails,
                  ReaperComplete, ReaperCompleteFails, ReaperMark, ReaperGivesUp
    <3>3. /\ genStatus' = genStatus /\ attempts' = attempts
          /\ cleanup' \in [Dispatches -> CleanupStatus]
          /\ cleanupLease' \in [Dispatches -> Lease]
      <4>1. CASE ReaperRenew(d, n)
        BY <4>1 DEF ReaperRenew
      <4>2. CASE ReaperComplete(d, n)
        BY <4>2 DEF ReaperComplete
      <4>3. CASE ReaperMark(d, n)
        BY <4>3 DEF ReaperMark
      <4> QED BY <2>3, <4>1, <4>2, <4>3
              DEF ReaperWork, ReaperFindsItLost, ReaperDelete, ReaperDeleteFails,
                  ReaperCompleteFails, ReaperGivesUp
    <3>4. cleaner' \in [Dispatches -> [Attempts -> Cleaner]]
      <4>1. cleaner[d] \in [Attempts -> Cleaner]
        OBVIOUS
      <4>2. cleaner' = [cleaner EXCEPT ![d] = [cleaner[d] EXCEPT ![n] = step]]
        BY <3>1, Zenon DEF OnlyCleaner
      <4> QED BY <3>1, <4>1, <4>2
    <3> QED BY <3>1, <3>2, <3>3, <3>4 DEF OnlyCleaner
  <2> QED BY <1>9, <2>1, <2>2, <2>3 DEF ReaperStep
<1>10. ASSUME NEW v \in Versions, PinSources(v) PROVE TypeOK'
  BY <1>10 DEF PinSources
<1> QED BY <1>1, <1>2, <1>3, <1>4, <1>5, <1>6, <1>7, <1>8, <1>9, <1>10 DEF Next, ApiStep

-----------------------------------------------------------------------------
(* IInv is inductive: one lemma for each program's steps.                   *)

\* A step that keeps links, jobs, generation status and requests keeps what
\* they say of each other.
LEMMA RowsKept ==
    ASSUME IInv, linkRows' = linkRows, jobStatus' = jobStatus, jobVersion' = jobVersion,
           genStatus' = genStatus, req' = req
    PROVE  (\A v \in Versions : LinkInv(v)') /\ ClaimInv' /\ DocumentStatusAgrees'
BY DEF IInv, LinkInv, ClaimInv, DocumentStatusAgrees, RecomputedStatus, linkRows

\* The pipeline only adds what the invariant asks of it, and takes vectors
\* back only on the way to an error.
LEMMA AiInv == ASSUME IInv, NEW d \in Dispatches, AiStep(d), TypeOK' PROVE IInv'
<1> USE DEF TypeOK, stored
<1>0. PICK step \in Pipeline : OnlyAi(d, step)
  BY DEF AiStep, AiFailsEarly, AiUpsert, AiUpsertFails, AiStore, AiStoreFails,
         AiDeadlineAfterStore, AiClean, AiDone, AiKilled, Pipeline
<1>1. /\ UNCHANGED <<linkRows, jobRows, genRows, pinned, goroutines, cleaner>>
      /\ \A e \in Dispatches : e # d =>
            ai'[e] = ai[e] /\ (e \in chunks' <=> e \in chunks) /\ (e \in vectors' <=> e \in vectors)
      /\ ai[d] \in {"running", "upserted", "stored", "cleaning"}
  <2>1. ai[d] \in {"running", "upserted", "stored", "cleaning"}
    BY DEF AiStep, AiFailsEarly, AiUpsert, AiUpsertFails, AiStore, AiStoreFails,
           AiDeadlineAfterStore, AiClean, AiDone, AiKilled
  <2>2. \A e \in Dispatches : e # d =>
            (e \in chunks' <=> e \in chunks) /\ (e \in vectors' <=> e \in vectors)
    BY DEF AiStep, AiFailsEarly, AiUpsert, AiUpsertFails, AiStore, AiStoreFails,
           AiDeadlineAfterStore, AiClean, AiDone, AiKilled
  <2> QED BY <1>0, <2>1, <2>2 DEF OnlyAi
<1>2. /\ ai[d] # "idle" /\ ai'[d] # "idle"
      /\ genStatus[d] = "STAGING" /\ ai'[d] \in {"upserted", "stored", "ok"} => d \in vectors'
      /\ genStatus[d] = "STAGING" /\ ai'[d] \in {"stored", "ok"} => d \in chunks'
      /\ d \in chunks' => d \in chunks \/ genStatus[d] = "STAGING"
  <2> USE DEF IInv, GenerationInv, OnlyAi
  <2>1. CASE AiFailsEarly(d) \/ AiUpsert(d) \/ AiUpsertFails(d)
    BY <2>1 DEF AiFailsEarly, AiUpsert, AiUpsertFails
  <2>2. CASE AiStore(d) \/ AiStoreFails(d) \/ AiDeadlineAfterStore(d)
    BY <2>2 DEF AiStore, AiStoreFails, AiDeadlineAfterStore
  <2>3. CASE AiClean(d) \/ AiDone(d) \/ AiKilled(d)
    BY <2>3 DEF AiClean, AiDone, AiKilled
  <2> QED BY <2>1, <2>2, <2>3 DEF AiStep
<1>3. \A e \in Dispatches : RunInv(e)'
  BY <1>1, <1>2 DEF IInv, RunInv, genRows, jobRows, goroutines
<1>4. \A e \in Dispatches : GenerationInv(e)'
  BY <1>1, <1>2 DEF IInv, GenerationInv, Published, genRows, jobRows, goroutines
<1>5. \A r \in Requests : JobInv(r)'
  BY <1>1 DEF IInv, JobInv, jobRows, goroutines
<1> QED BY <1>1, <1>3, <1>4, <1>5, RowsKept DEF IInv, jobRows, genRows, goroutines

\* The cleanup job works on FAILED generations only, and claiming one that is
\* STAGING makes it FAILED.
LEMMA ReaperInv == ASSUME IInv, NEW d \in Dispatches, ReaperStep(d), TypeOK' PROVE IInv'
<1> USE DEF TypeOK, stored, genRows
<1>1. CASE ReaperClaim(d)
  <2>1. /\ genStatus[d] \in {"STAGING", "FAILED"}
        /\ genStatus' = [genStatus EXCEPT ![d] = "FAILED"]
        /\ cleanup' = [cleanup EXCEPT ![d] = "CLAIMED"]
        /\ \A e \in Dispatches : e # d => cleaner'[e] = cleaner[e]
        /\ UNCHANGED <<linkRows, jobRows, pinned, goroutines, ai, stored>>
    BY <1>1 DEF ReaperClaim, Claimable, OnlyCleaner
  <2>2. \A e \in Dispatches : RunInv(e)'
    BY <2>1 DEF IInv, RunInv, jobRows, goroutines
  <2>3. \A e \in Dispatches : GenerationInv(e)'
    BY <2>1 DEF IInv, GenerationInv, Published, jobRows, goroutines
  <2>4. \A r \in Requests : JobInv(r)'
    BY <2>1 DEF IInv, JobInv, jobRows, goroutines
  <2>5. \A v \in Versions : LinkInv(v)'
    BY <2>1 DEF IInv, LinkInv, linkRows, jobRows, goroutines
  <2>6. ClaimInv' /\ DocumentStatusAgrees'
    BY <2>1 DEF IInv, ClaimInv, DocumentStatusAgrees, RecomputedStatus, linkRows, jobRows
  <2> QED BY <2>2, <2>3, <2>4, <2>5, <2>6 DEF IInv
<1>2. ASSUME /\ UNCHANGED <<linkRows, jobRows, genStatus, pinned, goroutines, ai>>
             /\ \A e \in Dispatches : GenerationInv(e)'
      PROVE  IInv'
  <2>1. \A e \in Dispatches : RunInv(e)'
    BY <1>2 DEF IInv, RunInv, jobRows, goroutines
  <2>2. \A r \in Requests : JobInv(r)'
    BY <1>2 DEF IInv, JobInv, jobRows, goroutines
  <2> QED BY <1>2, <2>1, <2>2, RowsKept DEF IInv, jobRows, goroutines
<1>3. CASE CleanupLeaseExpires(d)
  <2>1. \A e \in Dispatches : GenerationInv(e)'
    BY <1>3 DEF CleanupLeaseExpires, IInv, GenerationInv, Published, jobRows, goroutines
  <2> QED BY <1>2, <1>3, <2>1 DEF CleanupLeaseExpires
<1>4. ASSUME NEW n \in Attempts, ReaperWork(d, n) \/ ReaperGivesUp(d, n) PROVE IInv'
  <2>1. /\ cleaner[d][n] # "idle"
        /\ UNCHANGED <<linkRows, jobRows, genStatus, pinned, goroutines, ai>>
        /\ \A e \in Dispatches : e # d => /\ cleaner'[e] = cleaner[e] /\ cleanup'[e] = cleanup[e]
                                          /\ e \in chunks' <=> e \in chunks
                                          /\ e \in vectors' <=> e \in vectors
        /\ d \in chunks' => d \in chunks
        /\ cleanup'[d] = "COMPLETED" => cleanup[d] = "COMPLETED" \/ d \notin chunks'
    <3> USE DEF OnlyCleaner
    <3>1. CASE ReaperRenew(d, n) \/ ReaperFindsItLost(d, n) \/ ReaperDelete(d, n)
                 \/ ReaperDeleteFails(d, n) \/ ReaperCompleteFails(d, n) \/ ReaperGivesUp(d, n)
      BY <3>1 DEF ReaperRenew, ReaperFindsItLost, ReaperDelete, ReaperDeleteFails,
                  ReaperCompleteFails, ReaperGivesUp
    <3>2. CASE ReaperComplete(d, n)
      BY <3>2 DEF ReaperComplete
    <3>3. CASE ReaperMark(d, n)
      BY <3>3 DEF ReaperMark
    <3> QED BY <1>4, <3>1, <3>2, <3>3 DEF ReaperWork
  <2>2. genStatus[d] = "FAILED"
    BY <2>1 DEF IInv, GenerationInv
  <2>3. ASSUME NEW e \in Dispatches PROVE GenerationInv(e)'
    <3> GenerationInv(e)
      BY DEF IInv
    <3>1. CASE e = d
      BY <2>1, <2>2, <3>1 DEF GenerationInv, Published, jobRows, goroutines
    <3>2. CASE e # d
      BY <2>1, <3>2 DEF GenerationInv, Published, jobRows, goroutines
    <3> QED BY <3>1, <3>2
  <2> QED BY <1>2, <2>1, <2>3
<1> QED BY <1>1, <1>3, <1>4 DEF ReaperStep

\* Leases come and go without moving anything the invariant relates.
LEMMA LeaseInv ==
    ASSUME IInv, TypeOK', NEW r \in Requests, NEW lease \in {"live", "expired"},
           jobStatus[r] = "CLAIMED",
           jobLease' = [jobLease EXCEPT ![r] = lease],
           UNCHANGED <<linkRows, jobStatus, jobVersion, jobToken, genRows, stored, pinned,
                       goroutines, ai, cleaner>>
    PROVE  IInv'
<1> USE DEF TypeOK, genRows, stored, goroutines
<1>1. \A d \in Dispatches : RunInv(d)' /\ GenerationInv(d)'
  BY DEF IInv, RunInv, GenerationInv, Published
<1>2. \A q \in Requests : JobInv(q)'
  BY DEF IInv, JobInv
<1> QED BY <1>1, <1>2, RowsKept DEF IInv

\* A goroutine that only moves on, or is killed, keeps the invariant.
LEMMA GotoInv ==
    ASSUME IInv, TypeOK',
           UNCHANGED <<linkRows, jobRows, genRows, stored, pinned, req, ai, cleaner>>,
           \A d \in Dispatches :
              \/ pc'[d] = pc[d]
              \/ pc[d] # "idle" /\ pc'[d] \in {"failing", "done"}
              \/ pc[d] # "idle" /\ pc'[d] = "publishing" /\ ai[d] = "ok"
    PROVE  IInv'
<1> USE DEF jobRows, genRows, stored
<1>1. \A d \in Dispatches : RunInv(d)'
  BY DEF IInv, RunInv
<1>2. \A d \in Dispatches : GenerationInv(d)'
  BY DEF IInv, GenerationInv, Published, RunInv
<1>3. \A q \in Requests : JobInv(q)'
  BY DEF IInv, JobInv
<1> QED BY <1>1, <1>2, <1>3, RowsKept DEF IInv

\* Linking and unlinking move the link, its generations and the document
\* together.
LEMMA LinkStepInv ==
    ASSUME IInv, TypeOK', NEW v \in Versions, LinkDocument(v) \/ Unlink(v)
    PROVE  IInv'
<1> USE DEF TypeOK, stored, jobRows, goroutines
<1>1. CASE LinkDocument(v)
  <2>1. \A d \in Dispatches : RunInv(d)' /\ GenerationInv(d)'
    BY <1>1 DEF LinkDocument, IInv, RunInv, GenerationInv, Published, genRows
  <2>2. \A r \in Requests : JobInv(r)'
    BY <1>1 DEF LinkDocument, IInv, JobInv
  <2>3. ASSUME NEW w \in Versions PROVE LinkInv(w)'
    BY <1>1 DEF LinkDocument, Live, IInv, LinkInv, genRows
  <2>4. ClaimInv' /\ DocumentStatusAgrees'
    BY <1>1 DEF LinkDocument, IInv, ClaimInv, DocumentStatusAgrees
  <2> QED BY <2>1, <2>2, <2>3, <2>4 DEF IInv
<1>2. CASE Unlink(v)
  <2>1. \A d \in Dispatches : RunInv(d)' /\ GenerationInv(d)'
    BY <1>2 DEF Unlink, Superseded, IInv, RunInv, GenerationInv, Published
  <2>2. \A r \in Requests : JobInv(r)'
    BY <1>2 DEF Unlink, IInv, JobInv
  <2>3. ASSUME NEW w \in Versions PROVE LinkInv(w)'
    <3>1. \A d \in Dispatches : genStatus'[d] = "READY" <=>
             genStatus[d] = "READY" /\ ~(req[d] # None /\ jobVersion[req[d]] = v)
      BY <1>2 DEF Unlink, Superseded, DispatchesOf, VersionOf
    <3>2. /\ linkStatus' = linkStatus /\ linkStatus[v] # "PROCESSING"
          /\ linked' = [linked EXCEPT ![v] = "unlinked"]
          /\ active' = [active EXCEPT ![v] = None]
          /\ UNCHANGED <<jobRows, goroutines>>
      BY <1>2 DEF Unlink
    <3>3. CASE w = v
      BY <3>1, <3>2, <3>3, IndexAssumption DEF IInv, LinkInv
    <3>4. CASE w # v
      BY <3>1, <3>2, <3>4 DEF IInv, LinkInv
    <3> QED BY <3>3, <3>4
  <2>4. ClaimInv' /\ DocumentStatusAgrees'
    BY <1>2 DEF Unlink, IInv, ClaimInv, DocumentStatusAgrees
  <2> QED BY <2>1, <2>2, <2>3, <2>4 DEF IInv
<1> QED BY <1>1, <1>2

\* A claim closes the link's lapsed claims, opens one job and one run.
LEMMA ClaimStepInv ==
    ASSUME IInv, TypeOK', NEW r \in Requests, NEW v \in Versions, NEW kind \in JobKind,
           NEW d \in Dispatches, Claim(r, v, kind, d)
    PROVE  IInv'
<1> USE IndexAssumption DEF TypeOK, stored, genRows
<1>1. /\ jobStatus[r] = "none" /\ linked[v] = "live" /\ pc[d] = "idle"
      /\ UNCHANGED <<linked, active, genRows, stored, pinned, ai, cleaner>>
      /\ pc' = [pc EXCEPT ![d] = "claimed"] /\ req' = [req EXCEPT ![d] = r]
      /\ jobVersion' = [jobVersion EXCEPT ![r] = v]
      /\ jobToken' = [jobToken EXCEPT ![r] = d]
  BY DEF Claim, StartRun, Live
<1>2. /\ jobStatus'[r] = "CLAIMED" /\ jobLease'[r] = "live"
      /\ \A q \in Requests : q # r =>
            IF jobStatus[q] = "CLAIMED" /\ jobVersion[q] = v
            THEN jobStatus'[q] = "FAILED" /\ jobLease'[q] = "none"
            ELSE jobStatus'[q] = jobStatus[q] /\ jobLease'[q] = jobLease[q]
  BY DEF Claim, ClaimedJobs
<1>3. /\ \A w \in Versions : w # v => linkStatus'[w] = linkStatus[w]
      /\ \/ linkStatus'[v] = "PROCESSING" /\ linkStatus[v] # "READY"
         \/ linkStatus'[v] = linkStatus[v]
  BY DEF Claim, Allowed, JobKind
<1>4. /\ req[d] = None /\ genStatus[d] = "none"
      /\ \A e \in Dispatches : e # d /\ pc[e] # "idle" => req[e] # r /\ req[e] \in Requests
  BY <1>1 DEF IInv, RunInv
<1>5. \A e \in Dispatches : RunInv(e)'
  BY <1>1, <1>2, <1>4 DEF IInv, RunInv
<1>6. ASSUME NEW e \in Dispatches PROVE GenerationInv(e)'
  <2>1. CASE e = d
    BY <1>1, <1>2, <1>4, <2>1 DEF IInv, GenerationInv, Published, RunInv
  <2>2. CASE e # d
    BY <1>1, <1>2, <1>4, <2>2 DEF IInv, GenerationInv, Published, RunInv
  <2> QED BY <2>1, <2>2
<1>7. ASSUME NEW q \in Requests PROVE JobInv(q)'
  <2>1. CASE q = r
    BY <1>1, <1>2, <2>1 DEF IInv, JobInv
  <2>2. CASE q # r
    BY <1>1, <1>2, <1>4, <2>2 DEF IInv, JobInv
  <2> QED BY <2>1, <2>2
<1>8. ASSUME NEW w \in Versions PROVE LinkInv(w)'
  <2> DEFINE Serves(e) == req[e] # None /\ jobVersion[req[e]] = w /\ genStatus[e] = "READY"
  <2>1. \A e \in Dispatches : Serves(e)' <=> Serves(e)
    BY <1>1, <1>4 DEF IInv, RunInv
  <2>2. \A e \in Dispatches : active'[w] = e <=> Serves(e)'
    BY <1>1, <2>1 DEF IInv, LinkInv
  <2>3. linkStatus'[w] = "PROCESSING" =>
           linked'[w] = "live" /\ \E q \in Requests : jobVersion'[q] = w /\ jobStatus'[q] = "CLAIMED"
    <3>1. CASE w = v
      BY <1>1, <1>2, <3>1
    <3>2. CASE w # v
      <4>1. \A q \in Requests : jobVersion[q] = w /\ jobStatus[q] = "CLAIMED" =>
               jobVersion'[q] = w /\ jobStatus'[q] = "CLAIMED"
        BY <1>1, <1>2, <3>2
      <4>2. linkStatus[w] = "PROCESSING" => linked[w] = "live"
               /\ \E q \in Requests : jobVersion[q] = w /\ jobStatus[q] = "CLAIMED"
        BY DEF IInv, LinkInv
      <4> QED BY <1>1, <1>3, <3>2, <4>1, <4>2
    <3> QED BY <3>1, <3>2
  <2>4. /\ active'[w] # None => linked'[w] = "live" /\ linkStatus'[w] = "READY"
        /\ linked'[w] = "live" /\ linkStatus'[w] = "READY" => active'[w] # None
    BY <1>1, <1>3 DEF IInv, LinkInv
  <2> QED BY <2>2, <2>3, <2>4 DEF LinkInv
<1>9. ClaimInv'
  <2>1. \A q \in Requests : q # r /\ jobStatus'[q] = "CLAIMED" =>
           jobStatus[q] = "CLAIMED" /\ jobVersion'[q] = jobVersion[q] /\ jobVersion'[q] # v
    BY <1>1, <1>2
  <2> QED BY <1>1, <2>1 DEF IInv, ClaimInv
<1>10. DocumentStatusAgrees'
  <2>1. docStatus' = RecomputedStatus(linkStatus', linked')
    BY DEF Claim
  <2> QED BY <2>1 DEF DocumentStatusAgrees
<1> QED BY <1>5, <1>6, <1>7, <1>8, <1>9, <1>10 DEF IInv

\* A takeover moves the token of a CLAIMED job to a fresh run.
LEMMA ReclaimInv ==
    ASSUME IInv, TypeOK', NEW r \in Requests, NEW d \in Dispatches, Reclaim(r, d)
    PROVE  IInv'
<1> USE IndexAssumption DEF TypeOK, stored, genRows
<1>1. /\ jobStatus[r] = "CLAIMED" /\ pc[d] = "idle"
      /\ pc' = [pc EXCEPT ![d] = "claimed"] /\ req' = [req EXCEPT ![d] = r]
      /\ jobToken' = [jobToken EXCEPT ![r] = d]
      /\ jobLease' = [jobLease EXCEPT ![r] = "live"]
      /\ UNCHANGED <<linkRows, jobStatus, jobVersion, genRows, stored, pinned, ai, cleaner>>
  BY DEF Reclaim, StartRun
<1>2. /\ req[d] = None /\ genStatus[d] = "none"
      /\ \A e \in Dispatches : pc[e] # "idle" => req[e] \in Requests
  BY <1>1 DEF IInv, RunInv
<1>3. \A e \in Dispatches : RunInv(e)'
  BY <1>1, <1>2 DEF IInv, RunInv, JobInv
<1>4. ASSUME NEW e \in Dispatches PROVE GenerationInv(e)'
  <2>1. CASE e = d
    BY <1>1, <1>2, <2>1 DEF IInv, GenerationInv, Published
  <2>2. CASE e # d
    BY <1>1, <1>2, <2>2 DEF IInv, GenerationInv, Published, RunInv
  <2> QED BY <2>1, <2>2
<1>5. \A q \in Requests : JobInv(q)'
  BY <1>1, <1>2 DEF IInv, JobInv
<1>6. \A w \in Versions : LinkInv(w)'
  BY <1>1, <1>2 DEF IInv, LinkInv, linkRows
<1>7. ClaimInv' /\ DocumentStatusAgrees'
  BY <1>1 DEF IInv, ClaimInv, DocumentStatusAgrees, RecomputedStatus, linkRows
<1> QED BY <1>3, <1>4, <1>5, <1>6, <1>7 DEF IInv

\* Staging gives the run a generation, the slot gives it a pipeline.
LEMMA RunStartInv ==
    ASSUME IInv, TypeOK', NEW d \in Dispatches, Stage(d) \/ AcquireSlot(d)
    PROVE  IInv'
<1> USE DEF TypeOK, stored, jobRows
<1>1. CASE Stage(d)
  <2>1. /\ pc[d] = "claimed" /\ genStatus[d] = "none" /\ ai[d] = "idle"
        /\ genStatus' = [genStatus EXCEPT ![d] = "STAGING"]
        /\ pc' = [pc EXCEPT ![d] = "queued"]
        /\ UNCHANGED <<linkRows, jobRows, cleanup, attempts, cleanupLease, stored, pinned,
                       req, ai, cleaner>>
    BY <1>1 DEF Stage, Goto, IInv, RunInv
  <2>2. \A e \in Dispatches : RunInv(e)'
    BY <2>1 DEF IInv, RunInv
  <2>3. \A e \in Dispatches : GenerationInv(e)'
    BY <2>1 DEF IInv, GenerationInv, Published
  <2>4. \A q \in Requests : JobInv(q)'
    BY <2>1 DEF IInv, JobInv
  <2>5. \A w \in Versions : LinkInv(w)'
    BY <2>1 DEF IInv, LinkInv, linkRows
  <2>6. ClaimInv' /\ DocumentStatusAgrees'
    BY <2>1 DEF IInv, ClaimInv, DocumentStatusAgrees, RecomputedStatus, linkRows
  <2> QED BY <2>2, <2>3, <2>4, <2>5, <2>6 DEF IInv
<1>2. CASE AcquireSlot(d)
  <2> USE DEF genRows
  <2>1. /\ pc[d] = "queued" /\ genStatus[d] # "none" /\ ai[d] = "idle"
        /\ ai' = [ai EXCEPT ![d] = "running"]
        /\ pc' = [pc EXCEPT ![d] = "calling"]
        /\ UNCHANGED <<linkRows, jobRows, genRows, stored, pinned, req, cleaner>>
    BY <1>2 DEF AcquireSlot, Goto, IInv, RunInv
  <2>2. \A e \in Dispatches : RunInv(e)'
    BY <2>1 DEF IInv, RunInv
  <2>3. \A e \in Dispatches : GenerationInv(e)'
    BY <2>1 DEF IInv, GenerationInv, Published
  <2>4. \A q \in Requests : JobInv(q)'
    BY <2>1 DEF IInv, JobInv
  <2> QED BY <2>1, <2>2, <2>3, <2>4, RowsKept DEF IInv
<1> QED BY <1>1, <1>2

\* A finish that changes the rows holds the claim of its job, whose
\* generation nobody has published.
LEMMA FinishHolds ==
    ASSUME IInv, NEW d \in Dispatches, EndRun(d), HoldsClaim(d), NEW status \in JobStatus,
           CloseJob(d, status)
    PROVE  /\ req[d] \in Requests /\ VersionOf(d) \in Versions
           /\ jobStatus[req[d]] = "CLAIMED" /\ jobToken[req[d]] = d
           /\ ~Published(d)
           /\ jobStatus' = [jobStatus EXCEPT ![req[d]] = status]
           /\ jobLease' = [jobLease EXCEPT ![req[d]] = "none"]
           /\ UNCHANGED <<jobVersion, jobToken, cleanup, chunks, vectors, pinned, req, ai, cleaner>>
           /\ pc[d] # "idle" /\ pc' = [pc EXCEPT ![d] = "done"]
           /\ \A e \in Dispatches : Published(e) => req[e] # req[d]
<1> USE IndexAssumption DEF IInv, TypeOK
<1>1. /\ pc[d] \in {"publishing", "failing"} /\ pc' = [pc EXCEPT ![d] = "done"]
      /\ UNCHANGED <<jobVersion, jobToken, cleanup, chunks, vectors, pinned, req, ai, cleaner>>
      /\ jobStatus' = [jobStatus EXCEPT ![req[d]] = status]
      /\ jobLease' = [jobLease EXCEPT ![req[d]] = "none"]
      /\ jobStatus[req[d]] = "CLAIMED" /\ jobToken[req[d]] = d
  BY DEF EndRun, Goto, stored, CloseJob, HoldsClaim
<1>2. req[d] \in Requests /\ VersionOf(d) \in Versions
  BY <1>1 DEF RunInv, VersionOf
<1>3. \A e \in Dispatches : Published(e) => jobStatus[req[e]] = "SUCCEEDED"
  BY DEF GenerationInv
<1>4. \A e \in Dispatches : Published(e) => req[e] # req[d]
  BY <1>1, <1>3
<1> QED BY <1>1, <1>2, <1>4

\* A finish that fails its job fails its generation too, and leaves the link
\* with a status that agrees with what it serves.
LEMMA FinishFailsInv ==
    ASSUME IInv, TypeOK', NEW d \in Dispatches, FinishUnlinked(d) \/ FinishFailed(d)
    PROVE  IInv'
<1> USE IndexAssumption DEF TypeOK
<1> TypeOK
  BY DEF IInv
<1> DEFINE r == req[d]
           v == VersionOf(d)
<1>1. /\ r \in Requests /\ v \in Versions
      /\ jobStatus[r] = "CLAIMED" /\ jobToken[r] = d
      /\ jobStatus' = [jobStatus EXCEPT ![r] = "FAILED"]
      /\ jobLease' = [jobLease EXCEPT ![r] = "none"]
      /\ UNCHANGED <<jobVersion, jobToken, cleanup, chunks, vectors, pinned, req, ai, cleaner>>
      /\ pc[d] # "idle" /\ pc' = [pc EXCEPT ![d] = "done"]
      /\ \A e \in Dispatches : Published(e) => req[e] # r
  <2>1. EndRun(d) /\ HoldsClaim(d) /\ CloseJob(d, "FAILED") /\ "FAILED" \in JobStatus
    BY DEF FinishUnlinked, FinishFailed, HoldsLiveClaim, JobStatus
  <2> QED BY <2>1, FinishHolds
<1>2. /\ \A e \in Dispatches : e # d => genStatus'[e] = genStatus[e]
      /\ genStatus'[d] = genStatus[d] \/ genStatus'[d] = "FAILED"
      /\ \/ genStatus[d] \notin {"none", "READY"} /\ genStatus'[d] \notin {"none", "READY"}
         \/ genStatus'[d] = genStatus[d]
  BY DEF FinishUnlinked, FinishFailed, FailGeneration
<1>3. /\ \A w \in Versions : w # v => linkStatus'[w] = linkStatus[w]
      /\ linked' = linked /\ active' = active
      /\ \/ linkStatus'[v] = linkStatus[v] /\ linked[v] # "live"
         \/ linkStatus'[v] = "FAILED" /\ linked[v] = "live" /\ active[v] = None
         \/ linkStatus'[v] = "READY" /\ linked[v] = "live" /\ active[v] # None
      /\ docStatus' = RecomputedStatus(linkStatus', linked')
  <2>1. CASE FinishUnlinked(d)
    BY <2>1 DEF FinishUnlinked, linkRows, Live, IInv, DocumentStatusAgrees
  <2>2. CASE FinishFailed(d)
    BY <1>1, <2>2 DEF FinishFailed, Live
  <2> QED BY <2>1, <2>2
<1> HIDE DEF r, v
<1>4. v = jobVersion[r] /\ r = req[d]
  BY DEF r, v, VersionOf
<1>5. \A e \in Dispatches : RunInv(e)'
  <2>1. pc[d] \notin {"idle", "claimed", "queued"}
    BY DEF FinishUnlinked, FinishFailed, EndRun
  <2> QED BY <1>1, <1>2, <1>4, <2>1 DEF IInv, RunInv
<1>6. ASSUME NEW e \in Dispatches PROVE GenerationInv(e)'
  <2>1. CASE e = d
    BY <1>1, <1>2, <1>4, <2>1 DEF IInv, GenerationInv, Published
  <2>2. CASE e # d
    BY <1>1, <1>2, <1>4, <2>2 DEF IInv, GenerationInv, Published, RunInv
  <2> QED BY <2>1, <2>2
<1>7. \A q \in Requests : JobInv(q)'
  BY <1>1 DEF IInv, JobInv
<1>8. ASSUME NEW w \in Versions PROVE LinkInv(w)'
  <2>1. LinkInv(w)
    BY DEF IInv
  <2>2. \A e \in Dispatches : active'[w] = e <=>
           req'[e] # None /\ jobVersion'[req'[e]] = w /\ genStatus'[e] = "READY"
    BY <1>1, <1>2, <1>3, <2>1 DEF LinkInv
  <2>3. CASE w = v
    BY <1>3, <2>1, <2>2, <2>3 DEF LinkInv
  <2>4. CASE w # v
    <3>1. \A q \in Requests : jobVersion[q] = w => jobStatus'[q] = jobStatus[q]
      BY <1>1, <1>4, <2>4
    <3> QED BY <1>1, <1>3, <2>1, <2>2, <2>4, <3>1 DEF LinkInv
  <2> QED BY <2>3, <2>4
<1>9. ClaimInv'
  BY <1>1 DEF IInv, ClaimInv
<1>10. DocumentStatusAgrees'
  BY <1>3 DEF DocumentStatusAgrees
<1> QED BY <1>5, <1>6, <1>7, <1>8, <1>9, <1>10 DEF IInv

\* Publishing makes the generation the link's only READY one, and the writes
\* it stands for are all there.
LEMMA FinishReadyInv ==
    ASSUME IInv, TypeOK', NEW d \in Dispatches, FinishReady(d)
    PROVE  IInv'
<1> USE IndexAssumption DEF TypeOK
<1> TypeOK
  BY DEF IInv
<1> DEFINE r == req[d]
           v == VersionOf(d)
<1>1. /\ r \in Requests /\ v \in Versions
      /\ jobStatus[r] = "CLAIMED" /\ jobToken[r] = d
      /\ jobStatus' = [jobStatus EXCEPT ![r] = "SUCCEEDED"]
      /\ jobLease' = [jobLease EXCEPT ![r] = "none"]
      /\ UNCHANGED <<jobVersion, jobToken, cleanup, chunks, vectors, pinned, req, ai, cleaner>>
      /\ pc[d] # "idle" /\ pc' = [pc EXCEPT ![d] = "done"]
      /\ \A e \in Dispatches : Published(e) => req[e] # r
  <2>1. EndRun(d) /\ HoldsClaim(d) /\ CloseJob(d, "SUCCEEDED") /\ "SUCCEEDED" \in JobStatus
    BY DEF FinishReady, HoldsLiveClaim, JobStatus
  <2> QED BY <2>1, FinishHolds
<1>2. /\ pc[d] = "publishing" /\ ai[d] = "ok" /\ genStatus[d] = "STAGING"
      /\ d \in chunks /\ d \in vectors /\ cleanup[d] = "PENDING" /\ linked[v] = "live"
  BY DEF FinishReady, Publishable, GenerationMatches, Live, IInv, RunInv, GenerationInv
<1>3. /\ genStatus'[d] = "READY"
      /\ \A e \in Dispatches : e # d =>
            genStatus'[e] = IF req[e] # None /\ jobVersion[req[e]] = v /\ genStatus[e] = "READY"
                            THEN "SUPERSEDED" ELSE genStatus[e]
  BY DEF FinishReady, Superseded, DispatchesOf, VersionOf
<1>4. /\ linkStatus' = [linkStatus EXCEPT ![v] = "READY"]
      /\ active' = [active EXCEPT ![v] = d]
      /\ linked' = linked
      /\ docStatus' = RecomputedStatus(linkStatus', linked')
  BY DEF FinishReady
<1> HIDE DEF r, v
<1>5. v = jobVersion[r] /\ r = req[d]
  BY DEF r, v, VersionOf
<1>6. \A e \in Dispatches : RunInv(e)'
  BY <1>1, <1>2, <1>3, <1>5 DEF IInv, RunInv
<1>7. ASSUME NEW e \in Dispatches PROVE GenerationInv(e)'
  <2>1. CASE e = d
    <3>1. \A n \in Attempts : cleaner[d][n] = "idle"
      BY <1>2 DEF IInv, GenerationInv
    <3>2. jobStatus'[req'[d]] = "SUCCEEDED" /\ jobToken'[req'[d]] = d
      BY <1>1, <1>5
    <3> QED BY <1>1, <1>2, <1>3, <2>1, <3>1, <3>2 DEF GenerationInv, Published
  <2>2. CASE e # d
    BY <1>1, <1>2, <1>3, <1>5, <2>2 DEF IInv, GenerationInv, Published, RunInv
  <2> QED BY <2>1, <2>2
<1>8. \A q \in Requests : JobInv(q)'
  BY <1>1 DEF IInv, JobInv
<1>9. ASSUME NEW w \in Versions PROVE LinkInv(w)'
  <2>1. LinkInv(w)
    BY DEF IInv
  <2>2. r # None /\ d # None
    BY <1>1
  <2>3. CASE w = v
    <3>1. \A e \in Dispatches : active'[w] = e <=>
             req'[e] # None /\ jobVersion'[req'[e]] = w /\ genStatus'[e] = "READY"
      BY <1>1, <1>3, <1>4, <1>5, <2>2, <2>3
    <3> QED BY <1>2, <1>4, <2>2, <2>3, <3>1 DEF LinkInv
  <2>4. CASE w # v
    <3>1. \A e \in Dispatches : active'[w] = e <=>
             req'[e] # None /\ jobVersion'[req'[e]] = w /\ genStatus'[e] = "READY"
      BY <1>1, <1>3, <1>4, <1>5, <2>1, <2>4 DEF LinkInv
    <3>2. \A q \in Requests : jobVersion[q] = w => jobStatus'[q] = jobStatus[q]
      BY <1>1, <1>5, <2>4
    <3> QED BY <1>1, <1>4, <2>1, <2>4, <3>1, <3>2 DEF LinkInv
  <2> QED BY <2>3, <2>4
<1>10. ClaimInv'
  BY <1>1 DEF IInv, ClaimInv
<1>11. DocumentStatusAgrees'
  BY <1>4 DEF DocumentStatusAgrees
<1> QED BY <1>6, <1>7, <1>8, <1>9, <1>10, <1>11 DEF IInv

\* A session pins what is active, which is published.
LEMMA PinInv ==
    ASSUME IInv, TypeOK', NEW v \in Versions, PinSources(v)
    PROVE  IInv'
<1> USE IndexAssumption DEF TypeOK, jobRows, genRows, stored, goroutines
<1> TypeOK
  BY DEF IInv
<1>1. /\ active[v] \in Dispatches
      /\ pinned' = pinned \cup {active[v]}
      /\ UNCHANGED <<linkRows, jobRows, genRows, stored, goroutines, ai, cleaner>>
  BY DEF PinSources
<1>2. genStatus[active[v]] = "READY"
  BY <1>1 DEF IInv, LinkInv
<1>3. \A d \in Dispatches : RunInv(d)' /\ GenerationInv(d)'
  BY <1>1, <1>2 DEF IInv, RunInv, GenerationInv, Published
<1>4. \A q \in Requests : JobInv(q)'
  BY <1>1 DEF IInv, JobInv
<1> QED BY <1>1, <1>3, <1>4, RowsKept DEF IInv

\* Every step of a goroutine keeps the invariant.
LEMMA RunStepInv ==
    ASSUME IInv, TypeOK', NEW d \in Dispatches, RunStep(d)
    PROVE  IInv'
<1> TypeOK
  BY DEF IInv
<1>1. ASSUME StageFails(d) \/ HeartbeatFindsItLost(d) \/ WorkerReplies(d) \/ WorkerCallFails(d)
             \/ FinishRejected(d) \/ FinishErrors(d)
      PROVE  IInv'
  <2>1. UNCHANGED <<linkRows, jobRows, genRows, stored, pinned, req, ai, cleaner>>
    BY <1>1 DEF StageFails, HeartbeatFindsItLost, WorkerReplies, WorkerCallFails,
                FinishRejected, FinishErrors, EndRun, Goto, genRows
  <2>2. /\ pc[d] # "idle"
        /\ \/ pc' = [pc EXCEPT ![d] = "failing"]
           \/ pc' = [pc EXCEPT ![d] = "done"]
           \/ pc' = [pc EXCEPT ![d] = "publishing"] /\ ai[d] = "ok"
    BY <1>1 DEF StageFails, HeartbeatFindsItLost, WorkerReplies, WorkerCallFails,
                FinishRejected, FinishErrors, EndRun, Goto
  <2>3. \A e \in Dispatches : \/ pc'[e] = pc[e]
                              \/ pc[e] # "idle" /\ pc'[e] \in {"failing", "done"}
                              \/ pc[e] # "idle" /\ pc'[e] = "publishing" /\ ai[e] = "ok"
    BY <2>2 DEF TypeOK
  <2> QED BY <2>1, <2>3, GotoInv
<1> QED BY <1>1, RunStartInv, FinishFailsInv, FinishReadyInv DEF RunStep, Finish

\* The invariant is inductive.
LEMMA InvStep == ASSUME IInv, [Next]_vars PROVE IInv'
<1> TypeOK /\ TypeOK'
  BY TypeStep DEF IInv
<1>1. CASE UNCHANGED vars
  <2> USE <1>1 DEF vars
  <2>1. \A d \in Dispatches : RunInv(d)' /\ GenerationInv(d)'
    BY DEF IInv, RunInv, GenerationInv, Published
  <2>2. \A q \in Requests : JobInv(q)'
    BY DEF IInv, JobInv
  <2> QED BY <2>1, <2>2, RowsKept DEF IInv, linkRows
<1>2. ASSUME NEW r \in Requests, LeaseExpires(r) PROVE IInv'
  BY <1>2, LeaseInv DEF LeaseExpires
<1>3. ASSUME NEW d \in Dispatches, HeartbeatExtends(d) PROVE IInv'
  <2>1. req[d] \in Requests
    BY <1>3 DEF HeartbeatExtends, Heartbeats, IInv, RunInv, TypeOK
  <2> QED BY <1>3, <2>1, LeaseInv DEF HeartbeatExtends, HoldsClaim
<1>4. CASE CrashApi
  <2>1. \A d \in Dispatches : \/ pc'[d] = pc[d]
                              \/ pc[d] # "idle" /\ pc'[d] \in {"failing", "done"}
    BY <1>4 DEF CrashApi, Running
  <2> QED BY <1>4, <2>1, GotoInv DEF CrashApi
<1>5. ApiStep => IInv'
  BY <1>2, <1>3, <1>4, LinkStepInv, ClaimStepInv, ReclaimInv, RunStepInv DEF ApiStep
<1> QED BY <1>1, <1>5, AiInv, ReaperInv, PinInv DEF Next

\* The empty database satisfies the invariant.
LEMMA InitInv == Init => IInv
<1> SUFFICES ASSUME Init PROVE IInv
  OBVIOUS
<1> USE IndexAssumption DEF Init
<1>1. TypeOK
  BY DEF TypeOK, IndexStatus, JobStatus, GenerationStatus, CleanupStatus, Lease, Attempts,
         RunPc, Pipeline, Cleaner
<1>2. \A d \in Dispatches : RunInv(d) /\ GenerationInv(d)
  BY DEF RunInv, GenerationInv, Published
<1>3. \A r \in Requests : JobInv(r)
  BY DEF JobInv
<1>4. \A v \in Versions : LinkInv(v)
  BY DEF LinkInv
<1>5. ClaimInv /\ DocumentStatusAgrees
  BY DEF ClaimInv, DocumentStatusAgrees, RecomputedStatus
<1> QED BY <1>1, <1>2, <1>3, <1>4, <1>5 DEF IInv

-----------------------------------------------------------------------------
(* The theorems.                                                            *)

\* Every reachable state satisfies the inductive invariant.
THEOREM Invariance == Spec => []IInv
<1>1. Init => IInv
  BY InitInv
<1>2. IInv /\ [Next]_vars => IInv'
  BY InvStep
<1> QED BY <1>1, <1>2, PTL DEF Spec

\* Every row and every program counter keeps to its values.
THEOREM TypeCorrect == Spec => []TypeOK
<1>1. IInv => TypeOK
  BY DEF IInv
<1> QED BY <1>1, Invariance, PTL

\* A live link is READY exactly when it has an active generation, and that
\* one is the only READY generation of the link.
THEOREM ActiveGeneration == Spec => []ActiveIsTheReadyGeneration
<1>1. ASSUME IInv PROVE ActiveIsTheReadyGeneration
  <2>1. ASSUME NEW v \in Versions
        PROVE  /\ Live(v) => (linkStatus[v] = "READY" <=> active[v] # None)
               /\ {d \in DispatchesOf(v) : genStatus[d] = "READY"} = {active[v]} \ {None}
    <3>1. LinkInv(v) /\ active[v] \in Dispatches \cup {None}
      BY <1>1 DEF IInv, TypeOK
    <3> QED BY <3>1, IndexAssumption DEF LinkInv, Live, DispatchesOf, VersionOf
  <2> QED BY <2>1 DEF ActiveIsTheReadyGeneration
<1> QED BY <1>1, Invariance, PTL

\* What was published keeps its chunks and vectors and is never claimed for
\* cleanup.
THEOREM PublishedData == Spec => []PublishedDataIntact
<1>1. IInv => PublishedDataIntact
  BY DEF IInv, GenerationInv, Published, PublishedDataIntact
<1> QED BY <1>1, Invariance, PTL

\* What a chat session pinned stays published and readable.
THEOREM PinnedData == Spec => []PinnedStaysRetrievable
<1>1. IInv => PinnedStaysRetrievable
  BY DEF IInv, TypeOK, GenerationInv, Published, PinnedStaysRetrievable
<1> QED BY <1>1, Invariance, PTL

\* A link in PROCESSING is live and has a CLAIMED job.
THEOREM ProcessingJob == Spec => []ProcessingHasItsJob
<1>1. IInv => ProcessingHasItsJob
  BY DEF IInv, LinkInv, ProcessingHasItsJob, Live, ClaimedJobs
<1> QED BY <1>1, Invariance, PTL

\* A link has at most one CLAIMED job, without the unique index.
THEOREM SingleClaim == Spec => []OneClaimPerLink
<1>1. ASSUME IInv PROVE OneClaimPerLink
  <2>1. ASSUME NEW v \in Versions PROVE Cardinality(ClaimedJobs(v)) <= 1
    <3>1. CASE ClaimedJobs(v) = {}
      BY <3>1, FS_EmptySet
    <3>2. ASSUME NEW r \in ClaimedJobs(v) PROVE Cardinality(ClaimedJobs(v)) <= 1
      <4>1. ClaimedJobs(v) = {r}
        BY <1>1, <3>2 DEF IInv, ClaimInv, ClaimedJobs
      <4> QED BY <4>1, FS_Singleton
    <3> QED BY <3>1, <3>2
  <2> QED BY <2>1 DEF OneClaimPerLink
<1> QED BY <1>1, Invariance, PTL

\* processing_status always agrees with the links.
THEOREM DocumentStatus == Spec => []DocumentStatusAgrees
<1>1. IInv => DocumentStatusAgrees
  BY DEF IInv
<1> QED BY <1>1, Invariance, PTL

\* A READY document has a live link, and each of them serves whole data.
THEOREM ReadyDocument == Spec => []ReadyDocumentIsServed
<1>1. ASSUME IInv, docStatus = "READY"
      PROVE  /\ \E v \in Versions : Live(v)
             /\ \A v \in Versions : Live(v) => active[v] \in chunks \cap vectors
  <2>1. {linkStatus[v] : v \in {w \in Versions : linked[w] = "live"}} = {"READY"}
    BY <1>1 DEF IInv, DocumentStatusAgrees, RecomputedStatus
  <2>2. \E v \in Versions : Live(v)
    BY <2>1 DEF Live
  <2>3. ASSUME NEW v \in Versions, Live(v) PROVE active[v] \in chunks \cap vectors
    <3>1. linkStatus[v] = "READY"
      BY <2>1, <2>3 DEF Live
    <3>2. active[v] \in Dispatches /\ genStatus[active[v]] = "READY"
      BY <1>1, <2>3, <3>1 DEF IInv, LinkInv, Live, TypeOK
    <3> QED BY <1>1, <3>2 DEF IInv, GenerationInv, Published
  <2> QED BY <2>2, <2>3
<1> QED BY <1>1, Invariance, PTL DEF ReadyDocumentIsServed

\* Job and generation never disagree on what was published.
THEOREM JobAndGeneration == Spec => []JobMatchesGeneration
<1>1. IInv => JobMatchesGeneration
  BY DEF IInv, RunInv, GenerationInv, JobMatchesGeneration
<1> QED BY <1>1, Invariance, PTL

\* A cleanup recorded as COMPLETED is final.
THEOREM CleanedGone == Spec => []CleanedIsGone
<1>1. IInv => CleanedIsGone
  BY DEF IInv, GenerationInv, CleanedIsGone
<1> QED BY <1>1, Invariance, PTL

-----------------------------------------------------------------------------
(* What one step may do.                                                    *)

\* Only a finish, a link, an unlink and a pin change what readers see.
LEMMA StepEffect ==
    ASSUME IInv, [Next]_vars,
           \A v \in Versions : ~LinkDocument(v) /\ ~Unlink(v) /\ ~PinSources(v),
           \A d \in Dispatches : ~FinishReady(d)
    PROVE  /\ active' = active /\ pinned' = pinned
           /\ \A d \in Dispatches :
                \/ genStatus'[d] = genStatus[d]
                \/ genStatus[d] \in {"none", "STAGING", "FAILED"}
                   /\ genStatus'[d] \in {"STAGING", "FAILED"}
<1> DEFINE Quiet == /\ active' = active /\ pinned' = pinned
                    /\ \A d \in Dispatches :
                         \/ genStatus'[d] = genStatus[d]
                         \/ genStatus[d] \in {"none", "STAGING", "FAILED"}
                            /\ genStatus'[d] \in {"STAGING", "FAILED"}
<1> SUFFICES Quiet
  OBVIOUS
<1> USE DEF linkRows, genRows
<1> TypeOK
  BY DEF IInv
<1>1. CASE UNCHANGED vars
  BY <1>1 DEF vars
<1>2. ASSUME NEW r \in Requests, NEW v \in Versions, NEW kind \in JobKind,
             NEW d \in Dispatches, Claim(r, v, kind, d)
      PROVE  Quiet
  BY <1>2 DEF Claim
<1>3. ASSUME NEW r \in Requests, NEW d \in Dispatches, Reclaim(r, d) PROVE Quiet
  BY <1>3 DEF Reclaim
<1>4. ASSUME NEW r \in Requests, LeaseExpires(r) PROVE Quiet
  BY <1>4 DEF LeaseExpires
<1>5. ASSUME NEW d \in Dispatches, RunStep(d) PROVE Quiet
  <2>1. CASE Stage(d)
    BY <2>1 DEF Stage, IInv, RunInv, TypeOK
  <2>2. CASE StageFails(d) \/ AcquireSlot(d) \/ HeartbeatFindsItLost(d) \/ WorkerReplies(d)
               \/ WorkerCallFails(d) \/ FinishRejected(d) \/ FinishErrors(d)
    BY <2>2 DEF StageFails, AcquireSlot, HeartbeatFindsItLost, WorkerReplies, WorkerCallFails,
                FinishRejected, FinishErrors, EndRun
  <2>3. CASE FinishUnlinked(d)
    BY <2>3 DEF FinishUnlinked, EndRun, FailGeneration, TypeOK
  <2>4. CASE FinishFailed(d)
    BY <2>4 DEF FinishFailed, EndRun, FailGeneration, TypeOK
  <2> QED BY <1>5, <2>1, <2>2, <2>3, <2>4 DEF RunStep, Finish
<1>6. ASSUME NEW d \in Dispatches, HeartbeatExtends(d) PROVE Quiet
  BY <1>6 DEF HeartbeatExtends
<1>7. CASE CrashApi
  BY <1>7 DEF CrashApi
<1>8. ASSUME NEW d \in Dispatches, AiStep(d) PROVE Quiet
  <2>1. UNCHANGED <<linkRows, genRows, pinned>>
    BY <1>8 DEF AiStep, AiFailsEarly, AiUpsert, AiUpsertFails, AiStore, AiStoreFails,
                AiDeadlineAfterStore, AiClean, AiDone, AiKilled, OnlyAi
  <2> QED BY <2>1
<1>9. ASSUME NEW d \in Dispatches, ReaperStep(d) PROVE Quiet
  <2>1. UNCHANGED <<active, pinned>>
    BY <1>9 DEF ReaperStep, ReaperClaim, CleanupLeaseExpires, ReaperWork, ReaperRenew,
                ReaperFindsItLost, ReaperDelete, ReaperDeleteFails, ReaperComplete,
                ReaperCompleteFails, ReaperMark, ReaperGivesUp, OnlyCleaner
  <2>2. genStatus' = genStatus \/ ReaperClaim(d)
    BY <1>9 DEF ReaperStep, CleanupLeaseExpires, ReaperWork, ReaperRenew,
                ReaperFindsItLost, ReaperDelete, ReaperDeleteFails, ReaperComplete,
                ReaperCompleteFails, ReaperMark, ReaperGivesUp
  <2>3. CASE ReaperClaim(d)
    BY <2>1, <2>3 DEF ReaperClaim, Claimable, TypeOK
  <2> QED BY <2>1, <2>2, <2>3
<1> QED BY <1>1, <1>2, <1>3, <1>4, <1>5, <1>6, <1>7, <1>8, <1>9 DEF Next, ApiStep

\* A version that serves a generation goes on serving a whole one until it is
\* unlinked.
THEOREM ServingContinues == Spec => ServingSurvives
<1> DEFINE A == \A v \in Versions :
                   active[v] # None /\ linked'[v] = "live" =>
                       /\ linkStatus'[v] = "READY"
                       /\ active'[v] \in chunks' \cap vectors'
<1>1. ASSUME IInv, [Next]_vars PROVE A
  <2> IInv' /\ TypeOK /\ TypeOK'
    BY <1>1, InvStep DEF IInv
  <2> SUFFICES ASSUME NEW v \in Versions, active[v] # None, linked'[v] = "live"
               PROVE  linkStatus'[v] = "READY" /\ active'[v] \in chunks' \cap vectors'
    OBVIOUS
  <2>1. active'[v] # None
    <3>1. ASSUME NEW w \in Versions, LinkDocument(w) \/ Unlink(w) \/ PinSources(w)
          PROVE  active'[v] # None
      <4>1. linked[v] = "live"
        BY <1>1 DEF IInv, LinkInv
      <4> QED BY <3>1, <4>1 DEF LinkDocument, Unlink, PinSources, Live, linkRows, TypeOK
    <3>2. ASSUME NEW d \in Dispatches, FinishReady(d) PROVE active'[v] # None
      BY <3>2, IndexAssumption DEF FinishReady, TypeOK
    <3> QED BY <1>1, <3>1, <3>2, StepEffect
  <2>2. linkStatus'[v] = "READY" /\ active'[v] \in Dispatches /\ genStatus'[active'[v]] = "READY"
    BY <2>1 DEF IInv, LinkInv, TypeOK
  <2>3. active'[v] \in chunks' /\ active'[v] \in vectors'
    BY <2>2 DEF IInv, GenerationInv, Published
  <2> QED BY <2>2, <2>3
<1>2. IInv /\ [Next]_vars => [A]_vars
  BY <1>1
<1> QED BY <1>2, Invariance, PTL DEF Spec, ServingSurvives

\* A job that ended stays as it ended.
THEOREM TerminalJobs == Spec => TerminalJobIsFinal
<1> DEFINE A == \A r \in Requests : jobStatus[r] \in {"SUCCEEDED", "FAILED"} =>
                   /\ jobStatus'[r] = jobStatus[r]
                   /\ jobToken'[r] = jobToken[r]
                   /\ jobLease'[r] = jobLease[r]
<1>1. ASSUME IInv, [Next]_vars PROVE A
  <2> TypeOK
    BY <1>1 DEF IInv
  <2>1. ASSUME UNCHANGED jobRows PROVE A
    BY <2>1 DEF jobRows
  <2>2. CASE UNCHANGED vars
    BY <2>2 DEF vars
  <2>3. ASSUME NEW r \in Requests, NEW v \in Versions, NEW kind \in JobKind,
               NEW d \in Dispatches, Claim(r, v, kind, d)
        PROVE  A
    BY <2>3 DEF Claim, ClaimedJobs, TypeOK
  <2>4. ASSUME NEW r \in Requests, NEW d \in Dispatches, Reclaim(r, d) PROVE A
    BY <2>4 DEF Reclaim, TypeOK
  <2>5. ASSUME NEW r \in Requests, LeaseExpires(r) PROVE A
    BY <2>5 DEF LeaseExpires, TypeOK
  <2>6. ASSUME NEW d \in Dispatches, HeartbeatExtends(d) PROVE A
    BY <2>6 DEF HeartbeatExtends, HoldsClaim, TypeOK
  <2>7. ASSUME NEW d \in Dispatches, RunStep(d) PROVE A
    <3>1. ASSUME NEW status \in JobStatus, HoldsClaim(d), CloseJob(d, status) PROVE A
      BY <3>1 DEF HoldsClaim, CloseJob, TypeOK
    <3>2. CASE FinishUnlinked(d) \/ FinishReady(d) \/ FinishFailed(d)
      BY <3>1, <3>2 DEF FinishUnlinked, FinishReady, FinishFailed, HoldsLiveClaim, JobStatus
    <3>3. CASE UNCHANGED jobRows
      BY <2>1, <3>3
    <3> QED BY <2>7, <3>2, <3>3 DEF RunStep, Finish, Stage, StageFails, AcquireSlot,
               HeartbeatFindsItLost, WorkerReplies, WorkerCallFails, FinishRejected, FinishErrors
  <2>8. ApiStep => A
    BY <2>1, <2>3, <2>4, <2>5, <2>6, <2>7 DEF ApiStep, CrashApi, LinkDocument, Unlink
  <2>9. ASSUME NEW d \in Dispatches, AiStep(d) \/ ReaperStep(d) PROVE A
    <3>1. UNCHANGED jobRows
      BY <2>9 DEF AiStep, AiFailsEarly, AiUpsert, AiUpsertFails, AiStore, AiStoreFails,
                  AiDeadlineAfterStore, AiClean, AiDone, AiKilled, OnlyAi, ReaperStep,
                  ReaperClaim, CleanupLeaseExpires, ReaperWork, ReaperRenew, ReaperFindsItLost,
                  ReaperDelete, ReaperDeleteFails, ReaperComplete, ReaperCompleteFails,
                  ReaperMark, ReaperGivesUp, OnlyCleaner
    <3> QED BY <2>1, <3>1
  <2> QED BY <1>1, <2>1, <2>2, <2>8, <2>9 DEF Next, PinSources
<1>2. IInv /\ [Next]_vars => [A]_vars
  BY <1>1
<1> QED BY <1>2, Invariance, PTL DEF Spec, TerminalJobIsFinal

-----------------------------------------------------------------------------
(* What readers are promised.                                               *)

\* The index system implements SourceServing: readers see whole publications,
\* withdrawals and pins, and nothing else.
THEOREM Refinement == Spec => ImplementsServing
<1> DEFINE Retained == {d \in Dispatches : Published(d) /\ d \in chunks /\ d \in vectors}
<1>1. Init => Serving!Init
  BY DEF Init, Serving!Init, Published
<1>2. ASSUME IInv, [Next]_vars PROVE [Serving!Next]_Serving!svars
  <2> IInv' /\ TypeOK /\ TypeOK'
    BY <1>2, InvStep DEF IInv
  <2>1. Retained = {d \in Dispatches : Published(d)}
    BY <1>2 DEF IInv, GenerationInv, Published
  <2>2. Retained' = {d \in Dispatches : Published(d)'}
    BY DEF IInv, GenerationInv, Published
  <2> HIDE DEF Retained
  <2>3. ASSUME NEW v \in Versions, LinkDocument(v) \/ Unlink(v) PROVE Serving!Withdraw(v)
    <3>1. /\ active' = [active EXCEPT ![v] = None] /\ pinned' = pinned
          /\ \A d \in Dispatches : Published(d)' <=> Published(d)
      BY <2>3 DEF LinkDocument, Unlink, Superseded, Published, genRows, TypeOK
    <3>2. Retained' = Retained
      BY <2>1, <2>2, <3>1
    <3> QED BY <3>1, <3>2 DEF Serving!Withdraw, Retained
  <2>4. ASSUME NEW v \in Versions, PinSources(v) PROVE Serving!Pin(v)
    <3>1. /\ active[v] # None /\ pinned' = pinned \cup {active[v]} /\ active' = active
          /\ \A d \in Dispatches : Published(d)' <=> Published(d)
      BY <2>4 DEF PinSources, Published, genRows, linkRows
    <3>2. Retained' = Retained
      BY <2>1, <2>2, <3>1
    <3> QED BY <3>1, <3>2 DEF Serving!Pin, Retained
  <2>5. ASSUME NEW d \in Dispatches, FinishReady(d) PROVE Serving!Publish(VersionOf(d), d)
    <3>1. /\ active' = [active EXCEPT ![VersionOf(d)] = d] /\ pinned' = pinned
          /\ ~Published(d)
          /\ \A e \in Dispatches : Published(e)' <=> Published(e) \/ e = d
      BY <2>5 DEF FinishReady, EndRun, Publishable, GenerationMatches, Superseded, Published, TypeOK
    <3>2. d \notin Retained /\ Retained' = Retained \cup {d}
      BY <2>1, <2>2, <3>1
    <3> QED BY <3>1, <3>2 DEF Serving!Publish, Retained
  <2>6. ASSUME NEW d \in Dispatches, FinishReady(d) PROVE VersionOf(d) \in Versions
    BY <1>2, <2>6, FinishHolds DEF FinishReady, HoldsLiveClaim, JobStatus
  <2>7. CASE /\ \A v \in Versions : ~LinkDocument(v) /\ ~Unlink(v) /\ ~PinSources(v)
             /\ \A d \in Dispatches : ~FinishReady(d)
    <3>1. /\ active' = active /\ pinned' = pinned
          /\ \A d \in Dispatches : Published(d)' <=> Published(d)
      BY <1>2, <2>7, StepEffect DEF Published
    <3>2. Retained' = Retained
      BY <2>1, <2>2, <3>1
    <3> QED BY <3>1, <3>2 DEF Serving!svars, Retained
  <2> QED BY <2>3, <2>4, <2>5, <2>6, <2>7 DEF Serving!Next
<1> QED BY <1>1, <1>2, Invariance, PTL DEF Spec, ImplementsServing, Serving!Spec

=============================================================================
