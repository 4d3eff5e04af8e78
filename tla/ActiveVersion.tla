--------------------------- MODULE ActiveVersion ---------------------------
(***************************************************************************)
(* What activation promises the citizens of a commune: a procedure is      *)
(* answered from at most one version at a time, a version that was         *)
(* replaced never comes back, and once there is an active version there    *)
(* is always one.                                                          *)
(***************************************************************************)
CONSTANTS
    Versions,  \* versions of one procedure
    None       \* no version is active yet

VARIABLES
    current,   \* the version the procedure is answered from
    past       \* the versions it was answered from before

vars == <<current, past>>

Init == current = None /\ past = {}

\* A version takes the place of the current one.
Replace(v) ==
    /\ v \notin past \cup {current}
    /\ current' = v
    /\ past' = past \cup ({current} \ {None})

Next == \E v \in Versions : Replace(v)

Spec == Init /\ [][Next]_vars
=============================================================================
