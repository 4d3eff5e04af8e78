------------------------- MODULE MCDraftActivation -------------------------
(* DraftActivation on small sets for TLC.                                   *)
EXTENDS DraftActivation, TLC

\* Versions, drafts and calls are interchangeable.
Symmetry == Permutations(Versions) \cup Permutations(Drafts) \cup Permutations(Calls)
=============================================================================
