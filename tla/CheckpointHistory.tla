------------------------- MODULE CheckpointHistory -------------------------
(***************************************************************************)
(* What the durable copy of a training run promises: one set of            *)
(* checkpoints is advertised at a time; a checkpoint that stays advertised *)
(* keeps its bytes; the newest one is never older than the newest one      *)
(* advertised before; the run is reported finished with a best checkpoint  *)
(* that is advertised then; and a finished run goes no further, so that    *)
(* its newest checkpoint stays, whatever else is advertised later.         *)
(***************************************************************************)
EXTENDS Integers

CONSTANTS Steps, Contents, None

VARIABLES
    advertised,  \* the content of each step's advertised checkpoint, or None
    finished     \* the best checkpoint last reported of the finished run, or None

hvars == <<advertised, finished>>

Shown(f) == {s \in Steps : f[s] # None}

Init == advertised = [s \in Steps |-> None] /\ finished = None

Advertise ==
    /\ advertised' \in [Steps -> Contents \cup {None}]
    /\ Shown(advertised') # {}
    /\ \A s \in Shown(advertised) : \E t \in Shown(advertised') : s <= t
    /\ \A s \in Shown(advertised) \cap Shown(advertised') : advertised'[s] = advertised[s]
    /\ finished # None =>
           \A s \in Shown(advertised') : \E t \in Shown(advertised) : s <= t
    /\ UNCHANGED finished

Finish ==
    /\ finished' \in Shown(advertised)
    /\ UNCHANGED advertised

Next == Advertise \/ Finish

Spec == Init /\ [][Next]_hvars

=============================================================================
