---------------------------- MODULE MCDraftJobs ----------------------------
(* DraftJobs on small sets for TLC.                                         *)
EXTENDS DraftJobs
=============================================================================
