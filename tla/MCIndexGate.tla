---------------------------- MODULE MCIndexGate ----------------------------
(* The instance of IndexGate for TLC.                                       *)
EXTENDS IndexGate, TLC

\* Slots are alike, and calls are compared for equality only.
Symmetry == Permutations(Slots) \cup Permutations(Calls)

=============================================================================
