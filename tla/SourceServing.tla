--------------------------- MODULE SourceServing ---------------------------
(***************************************************************************)
(* What the index system promises to the answers built on a document: each *)
(* procedure version serves at most one generation of it, a generation is  *)
(* published once and whole, serving stops only when the source is         *)
(* withdrawn, and what was ever published stays readable, so a chat        *)
(* session that pinned it can go on quoting it.                            *)
(***************************************************************************)
CONSTANTS Versions, Generations, None

VARIABLES
    serving,    \* the generation each version serves, or None
    retained,   \* the generations whose text and vectors are readable
    pins        \* the generations chat sessions refer to

svars == <<serving, retained, pins>>

Init ==
    /\ serving = [v \in Versions |-> None]
    /\ retained = {}
    /\ pins = {}

\* A new generation becomes readable and replaces what the version served.
Publish(v, g) ==
    /\ g \notin retained
    /\ retained' = retained \cup {g}
    /\ serving' = [serving EXCEPT ![v] = g]
    /\ UNCHANGED pins

Withdraw(v) ==
    /\ serving' = [serving EXCEPT ![v] = None]
    /\ UNCHANGED <<retained, pins>>

\* A session pins what is served now.
Pin(v) ==
    /\ serving[v] # None
    /\ pins' = pins \cup {serving[v]}
    /\ UNCHANGED <<serving, retained>>

Next ==
    \/ \E v \in Versions, g \in Generations : Publish(v, g)
    \/ \E v \in Versions : Withdraw(v) \/ Pin(v)

Spec == Init /\ [][Next]_svars

=============================================================================
