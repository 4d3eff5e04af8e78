--------------------------- MODULE IndexPipeline ---------------------------
(***************************************************************************)
(* The AI service's side of an index job: the write stage of run_pipeline. *)
(* Everything before the upsert (download, OCR, chunking, embedding) only  *)
(* reads, apart from progress columns no other program decides on.  The    *)
(* process may be killed between any two steps: its request was dropped,   *)
(* its deadline passed or the host went down.                              *)
(***************************************************************************)
EXTENDS IndexStore

OnlyAi(d, step) ==
    /\ ai' = [ai EXCEPT ![d] = step]
    /\ UNCHANGED <<linkRows, jobRows, genRows, pinned, goroutines, cleaner>>

\* A failure before anything is written: nothing to take back.  A progress
\* report that finds the claim gone is one of them.
AiFailsEarly(d) ==
    /\ ai[d] = "running"
    /\ OnlyAi(d, "error")
    /\ UNCHANGED stored

\* vectors.upsert wrote every point of the generation.
AiUpsert(d) ==
    /\ ai[d] = "running"
    /\ vectors' = vectors \cup {d}
    /\ OnlyAi(d, "upserted")
    /\ UNCHANGED chunks

\* Mutant: the number of points written is not compared with the chunks.
AiUpsertUncounted(d) ==
    /\ ai[d] = "running"
    /\ vectors' \in {vectors, vectors \cup {d}}
    /\ OnlyAi(d, "upserted")
    /\ UNCHANGED chunks

\* vectors.upsert failed or answered with another count; points may be there.
AiUpsertFails(d) ==
    /\ ai[d] = "running"
    /\ vectors' \in {vectors, vectors \cup {d}}
    /\ OnlyAi(d, "cleaning")
    /\ UNCHANGED chunks

\* Mutant: the generation row is not asked whether it is still STAGING.
AiStoreUnchecked(d) ==
    /\ ai[d] = "upserted"
    /\ chunks' = chunks \cup {d}
    /\ OnlyAi(d, "stored")
    /\ UNCHANGED vectors

\* PostgresChunks.replace: the generation row must still be STAGING; the old
\* chunks are deleted and the new ones inserted in the same transaction.
AiStore(d) ==
    /\ ai[d] = "upserted"
    /\ genStatus[d] = "STAGING"
    /\ chunks' = chunks \cup {d}
    /\ OnlyAi(d, "stored")
    /\ UNCHANGED vectors

\* replace rolled back: claim_rejected, a database error or the deadline.
AiStoreFails(d) ==
    /\ ai[d] = "upserted"
    /\ OnlyAi(d, "cleaning")
    /\ UNCHANGED stored

\* Mutant: the deadline is checked once more after the reply.
AiDeadlineAfterReply(d) ==
    /\ ai[d] \in {"stored", "ok"}
    /\ OnlyAi(d, "cleaning")
    /\ UNCHANGED stored

\* The deadline check after replace fails although its commit went through.
AiDeadlineAfterStore(d) ==
    /\ ai[d] = "stored"
    /\ OnlyAi(d, "cleaning")
    /\ UNCHANGED stored

\* delete_generation is tried once; its failure is only logged.
AiClean(d) ==
    /\ ai[d] = "cleaning"
    /\ vectors' \in {vectors, vectors \ {d}}
    /\ OnlyAi(d, "error")
    /\ UNCHANGED chunks

AiDone(d) ==
    /\ ai[d] = "stored"
    /\ OnlyAi(d, "ok")
    /\ UNCHANGED stored

\* What the API sees of a killed process is a failed call.
AiKilled(d) ==
    /\ ai[d] \in {"running", "upserted", "stored", "cleaning"}
    /\ OnlyAi(d, "error")
    /\ UNCHANGED stored

AiStep(d) ==
    \/ AiFailsEarly(d) \/ AiUpsert(d) \/ AiUpsertFails(d) \/ AiStore(d)
    \/ AiStoreFails(d) \/ AiDeadlineAfterStore(d) \/ AiClean(d) \/ AiDone(d)
    \/ AiKilled(d)

=============================================================================
