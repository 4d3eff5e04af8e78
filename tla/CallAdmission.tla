--------------------------- MODULE CallAdmission ---------------------------
(***************************************************************************)
(* What the gate promises those who call the pipeline: a slot works for    *)
(* one call at a time, with one worker; a call is answered with its own    *)
(* answer or not at all, and then leaves its slot; the calls in flight are *)
(* counted right; while the gate is open no worker is taken from a call    *)
(* that is in, and a worker comes only to a slot from which the one before *)
(* is known to be gone; once closed no worker comes any more, and the gate *)
(* is cleanly shut only when none is left.                                 *)
(***************************************************************************)
EXTENDS Naturals

CONSTANTS Slots, Calls, None

VARIABLES
    worker,    \* in each slot: live, dead or out of control, none
    place,     \* the slot each call is in, or None
    fate,      \* of each call: undecided, answered or lost
    answer,    \* what each call was answered: the answer to which call
    inFlight,  \* the number of calls the gate says are in
    shut       \* open, closed, clean

avars == <<worker, place, fate, answer, inFlight, shut>>

Init ==
    /\ worker = [s \in Slots |-> "live"]
    /\ place = [c \in Calls |-> None]
    /\ fate = [c \in Calls |-> "undecided"]
    /\ answer = [c \in Calls |-> None]
    /\ inFlight = 0
    /\ shut = "open"

Empty(s) == \A c \in Calls : place[c] # s

-----------------------------------------------------------------------------
(* Calls.                                                                   *)

Admit(c, s) ==
    /\ fate[c] = "undecided" /\ place[c] = None
    /\ Empty(s) /\ worker[s] = "live"
    /\ place' = [place EXCEPT ![c] = s]
    /\ inFlight' = inFlight + 1
    /\ UNCHANGED <<worker, fate, answer, shut>>

Refuse(c) ==
    /\ fate[c] = "undecided" /\ place[c] = None
    /\ fate' = [fate EXCEPT ![c] = "lost"]
    /\ UNCHANGED <<worker, place, answer, inFlight, shut>>

Leaves(c, end) ==
    /\ fate[c] = "undecided" /\ place[c] # None
    /\ place' = [place EXCEPT ![c] = None]
    /\ fate' = [fate EXCEPT ![c] = end]
    /\ inFlight' = inFlight - 1
    /\ UNCHANGED <<worker, shut>>

Answer(c) ==
    /\ Leaves(c, "answered")
    /\ answer' = [answer EXCEPT ![c] = c]

\* Its time is over, its client or its worker gone, or the gate is closing.
Lose(c) == Leaves(c, "lost") /\ UNCHANGED answer

\* A call that the closing gate takes the worker from is lost where it is.
Strand(c) ==
    /\ fate[c] = "undecided" /\ place[c] # None
    /\ shut # "open"
    /\ fate' = [fate EXCEPT ![c] = "lost"]
    /\ UNCHANGED <<worker, place, answer, inFlight, shut>>

-----------------------------------------------------------------------------
(* Workers.                                                                 *)

\* It dies, or is killed and nobody knows whether it is gone.
WorkerFails(s) ==
    /\ worker[s] = "live"
    /\ worker' = [worker EXCEPT ![s] = "dead"]
    /\ UNCHANGED <<place, fate, answer, inFlight, shut>>

WorkerGone(s) ==
    /\ worker[s] # "none"
    /\ Empty(s) \/ shut # "open"
    /\ worker' = [worker EXCEPT ![s] = "none"]
    /\ UNCHANGED <<place, fate, answer, inFlight, shut>>

WorkerComes(s) ==
    /\ shut = "open"
    /\ Empty(s) /\ worker[s] = "none"
    /\ worker' = [worker EXCEPT ![s] = "live"]
    /\ UNCHANGED <<place, fate, answer, inFlight, shut>>

-----------------------------------------------------------------------------

Close ==
    /\ shut = "open"
    /\ shut' = "closed"
    /\ UNCHANGED <<worker, place, fate, answer, inFlight>>

ShutCleanly ==
    /\ shut = "closed"
    /\ \A s \in Slots : worker[s] = "none"
    /\ shut' = "clean"
    /\ UNCHANGED <<worker, place, fate, answer, inFlight>>

Next ==
    \/ \E c \in Calls : Refuse(c) \/ Answer(c) \/ Lose(c) \/ Strand(c)
    \/ \E c \in Calls, s \in Slots : Admit(c, s)
    \/ \E s \in Slots : WorkerFails(s) \/ WorkerGone(s) \/ WorkerComes(s)
    \/ Close
    \/ ShutCleanly

Spec == Init /\ [][Next]_avars
=============================================================================
