---------------------------- MODULE DraftLedger ----------------------------
(***************************************************************************)
(* What a drafting job promises the administrator who asked for it: while  *)
(* it is open its batches get their results, each once and for good; the   *)
(* progress shown is the number of results there are; the draft is made    *)
(* once, from a result of every batch; the job ends well only with its     *)
(* draft, and a job that failed opens again with the results it had.       *)
(***************************************************************************)
EXTENDS Naturals

CONSTANTS Batches, Drafters, None

VARIABLES
    status,    \* of the job
    results,   \* who drafted each batch, or None
    progress,  \* the number of drafted batches the job shows
    draft      \* the results the draft was made from, or None

lvars == <<status, results, progress, draft>>

Init ==
    /\ status = "open"
    /\ results = [b \in Batches |-> None]
    /\ progress = 0
    /\ draft = None

DraftBatch(b, o) ==
    /\ status = "open"
    /\ results[b] = None
    /\ results' = [results EXCEPT ![b] = o]
    /\ progress' = progress + 1
    /\ UNCHANGED <<status, draft>>

\* An owner that does not know yet that the job has ended may do it too.
MakeDraft ==
    /\ draft = None
    /\ \A b \in Batches : results[b] # None
    /\ draft' = results
    /\ UNCHANGED <<status, results, progress>>

End(outcome) ==
    /\ status = "open"
    /\ outcome = "succeeded" => draft # None
    /\ status' = outcome
    /\ UNCHANGED <<results, progress, draft>>

Reopen ==
    /\ status = "failed"
    /\ status' = "open"
    /\ UNCHANGED <<results, progress, draft>>

Next ==
    \/ \E b \in Batches, o \in Drafters : DraftBatch(b, o)
    \/ MakeDraft
    \/ \E outcome \in {"succeeded", "failed"} : End(outcome)
    \/ Reopen

Spec == Init /\ [][Next]_lvars
=============================================================================
