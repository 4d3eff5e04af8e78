--------------------------- MODULE MCIndexSystem ---------------------------
(* Instances of IndexSystem for TLC.                                        *)
EXTENDS IndexInvariant, TLC

\* Tokens and request ids are drawn fresh and never compared but for equality,
\* and the versions of a document are alike.
Symmetry == Permutations(Dispatches) \cup Permutations(Requests) \cup Permutations(Versions)

\* The system while the cleanup job is not scheduled (its timer is optional):
\* room for more claims in the same number of states.
NextNoCleanup ==
    \/ ApiStep
    \/ \E d \in Dispatches : AiStep(d)
    \/ \E v \in Versions : PinSources(v)

SpecNoCleanup == Init /\ [][NextNoCleanup]_vars

FairSpecNoCleanup ==
    /\ SpecNoCleanup
    /\ \A d \in Dispatches : WF_vars(RunStep(d)) /\ WF_vars(AiStep(d))
    /\ \A r \in Requests : WF_vars(AbandonedLeaseExpires(r))

=============================================================================
