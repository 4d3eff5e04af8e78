---------------------------- MODULE MCChatTurn ----------------------------
(* Instances of ChatTurn for TLC.                                           *)
EXTENDS ChatTurn, TLC

\* Attempts, request ids, messages and procedures are compared for equality only.
Symmetry ==
    Permutations(Attempts) \cup Permutations(Requests) \cup
    Permutations(Payloads) \cup Permutations(Procedures)

=============================================================================
