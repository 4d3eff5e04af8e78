----------------------------- MODULE IndexGate -----------------------------
(***************************************************************************)
(* The gate of the AI service to its pipeline workers (indexing/           *)
(* supervisor.py, class IndexGate): a pool of slots, each with one worker  *)
(* process, used by request threads and watched by a monitor thread.  A    *)
(* call that is given up costs its worker: the process tree is killed and  *)
(* a recovery thread puts a new worker in the slot.                        *)
(*                                                                         *)
(* What happens under the gate's lock is one step.  What does not (a kill, *)
(* a spawn, the wait for a worker to be ready, a read of _closed) is a     *)
(* step of its own between them.  The model starts after start(), which    *)
(* runs before the service takes requests.                                 *)
(***************************************************************************)
EXTENDS Integers, FiniteSets

CONSTANTS
    Slots,    \* the slots of the gate (limit)
    Calls,    \* the calls made of it, each once
    None

ASSUME GateAssumption ==
    /\ IsFiniteSet(Slots) /\ Slots # {}
    /\ None \notin Calls \cup Slots

VARIABLES
    slot,     \* the _Slot objects
    pipe,     \* per slot: the call its worker is at, and the call whose reply waits to be read
    recovery, \* per slot: where its recovery thread, or whoever is about to start it, stands
    call,     \* per call: its thread and its CallHandle
    gate,     \* status, _closed, _pending
    down      \* the shutdown: its phase, the slots it has yet to visit, its dirty flag

vars == <<slot, pipe, recovery, call, gate, down>>

(* A worker process that may or may not be gone, because its tree could not *)
(* be confirmed gone, is "stuck".                                           *)
Procs == {"none", "booting", "up", "dead", "stuck"}

Threads == {"started", "clear", "spawned", "up"}

MaybeCall == Calls \cup {None}

TypeOK ==
    /\ slot \in [Slots -> [proc : Procs, conn : BOOLEAN, ready : BOOLEAN, busy : BOOLEAN,
                           recovering : BOOLEAN, stopping : BOOLEAN, failures : 0 .. 1]]
    /\ pipe \in [Slots -> [job : MaybeCall, reply : MaybeCall]]
    /\ recovery \in [Slots -> Threads \cup {"none", "owed", "sealing"}]
    /\ call \in [Calls -> [pc : {"idle", "taken", "sending", "waiting", "received", "ended"},
                           slot : Slots \cup {None}, got : MaybeCall, answered : BOOLEAN,
                           cancelled : BOOLEAN, finished : BOOLEAN,
                           stop : {"no", "killing", "clean", "unclean", "recover", "done"}]]
    /\ gate \in [status : {"ready", "recovering", "terminating", "failed", "stopped"},
                 closed : BOOLEAN, pending : 0 .. Cardinality(Slots)]
    /\ down \in [phase : {"no", "first", "second", "clean", "dirty"},
                 left : SUBSET Slots, dirty : BOOLEAN]

Init ==
    /\ slot = [s \in Slots |-> [proc |-> "up", conn |-> TRUE, ready |-> TRUE, busy |-> FALSE,
                                recovering |-> FALSE, stopping |-> FALSE, failures |-> 0]]
    /\ pipe = [s \in Slots |-> [job |-> None, reply |-> None]]
    /\ recovery = [s \in Slots |-> "none"]
    /\ call = [c \in Calls |-> [pc |-> "idle", slot |-> None, got |-> None, answered |-> FALSE,
                                cancelled |-> FALSE, finished |-> FALSE, stop |-> "no"]]
    /\ gate = [status |-> "ready", closed |-> FALSE, pending |-> 0]
    /\ down = [phase |-> "no", left |-> {}, dirty |-> FALSE]

Alive(s) == slot[s].proc \in {"booting", "up"}

-----------------------------------------------------------------------------
(* Kills and the status.                                                    *)

\* _kill_tree: the pipe is closed, and the tree is gone, or not confirmed gone.
Killed(s, gone) ==
    /\ slot[s].proc = "none" => gone
    /\ slot' = [slot EXCEPT ![s].proc = IF gone THEN "none" ELSE "stuck",
                            ![s].conn = FALSE,
                            ![s].ready = FALSE]
    /\ pipe' = [pipe EXCEPT ![s] = [job |-> None, reply |-> None]]

StatusUnlessClosed(status) == IF gate.closed THEN gate ELSE [gate EXCEPT !.status = status]

\* _fail_slot, after a kill.
KilledAndFailed(s, gone) ==
    /\ slot[s].proc = "none" => gone
    /\ slot' = [slot EXCEPT ![s].proc = IF gone THEN "none" ELSE "stuck",
                            ![s].conn = FALSE,
                            ![s].ready = FALSE,
                            ![s].recovering = FALSE]
    /\ pipe' = [pipe EXCEPT ![s] = [job |-> None, reply |-> None]]
    /\ recovery' = [recovery EXCEPT ![s] = "none"]
    /\ UNCHANGED <<call, down>>

\* Mutant: a recovery makes the gate ready whatever the other slots are.
SettledByOne(now) == "ready"

\* _settle_status_locked.
Settled(now) ==
    IF \E s \in Slots : now[s].recovering \/ now[s].stopping THEN "recovering"
    ELSE IF \A s \in Slots : now[s].ready THEN "ready"
    ELSE "failed"

-----------------------------------------------------------------------------
(* A request thread: submit, then wait.                                     *)

Goto(c, pc) == call' = [call EXCEPT ![c].pc = pc]

Free(s) == slot[s].ready /\ ~slot[s].busy /\ Alive(s)

\* ensure_started, then _checkout.  The call may have found the gate open
\* and be served after it was closed: _checkout looks at _closed only when
\* no slot is free.
Checkout(c, s) ==
    /\ call[c].pc = "idle"
    /\ Free(s)
    /\ slot' = [slot EXCEPT ![s].busy = TRUE]
    /\ gate' = [gate EXCEPT !.pending = @ + 1]
    /\ call' = [call EXCEPT ![c].pc = "taken", ![c].slot = s]
    /\ UNCHANGED <<pipe, recovery, down>>

\* pipeline_busy: the gate is closed, every slot is at work, or the time for
\* a free one is over.
CheckoutFails(c) ==
    /\ call[c].pc = "idle"
    /\ gate.closed \/ ~ \E s \in Slots : Free(s)
    /\ Goto(c, "ended")
    /\ UNCHANGED <<slot, pipe, recovery, gate, down>>

\* The CallHandle, which a shutdown finds as slot.handle.
MakeHandle(c) ==
    /\ call[c].pc = "taken"
    /\ Goto(c, "sending")
    /\ UNCHANGED <<slot, pipe, recovery, gate, down>>

Send(c) ==
    /\ call[c].pc = "sending"
    /\ slot[call[c].slot].conn
    /\ Alive(call[c].slot)
    /\ pipe' = [pipe EXCEPT ![call[c].slot].job = c]
    /\ Goto(c, "waiting")
    /\ UNCHANGED <<slot, recovery, gate, down>>

\* A shutdown has closed the pipe: slot.conn is None, and what that raises
\* is none of the errors submit takes for a lost worker.
SendFindsNoPipe(c) ==
    /\ call[c].pc = "sending"
    /\ ~slot[call[c].slot].conn
    /\ Goto(c, "ended")
    /\ UNCHANGED <<slot, pipe, recovery, gate, down>>

\* Mutant: the call is taken off the count without a look at its slot.
CancelCountsTwice(c) ==
    LET s == call[c].slot IN
    /\ ~call[c].finished
    /\ slot' = [slot EXCEPT ![s].busy = FALSE, ![s].ready = FALSE, ![s].stopping = TRUE]
    /\ gate' = [gate EXCEPT !.status = IF gate.closed THEN @ ELSE "recovering",
                            !.pending = IF @ > 0 THEN @ - 1 ELSE @]

\* The locked part of cancel: whoever comes first owns the kill.
Cancels(c) ==
    LET s == call[c].slot IN
    /\ ~call[c].finished /\ ~call[c].cancelled
    /\ slot' = [slot EXCEPT ![s].busy = FALSE, ![s].ready = FALSE, ![s].stopping = TRUE]
    /\ gate' = [gate EXCEPT !.status = IF gate.closed THEN @ ELSE "recovering",
                            !.pending = IF slot[s].busy /\ @ > 0 THEN @ - 1 ELSE @]

CancelsAndGoes(c, pc) ==
    /\ Cancels(c)
    /\ call' = [call EXCEPT ![c].pc = pc, ![c].cancelled = TRUE, ![c].stop = "killing"]
    /\ UNCHANGED <<pipe, recovery, down>>

\* The pipe of a worker that died breaks.
SendFails(c) ==
    /\ call[c].pc = "sending"
    /\ slot[call[c].slot].conn
    /\ ~Alive(call[c].slot)
    /\ CancelsAndGoes(c, "ended")

\* wait: the time is over, the gate is closed, or the pipe broke.
WaitGivesUp(c) ==
    /\ call[c].pc = "waiting"
    /\ CancelsAndGoes(c, "ended")

\* Somebody else cancelled the call.
WaitIsCancelled(c) ==
    /\ call[c].cancelled
    /\ \/ call[c].pc = "waiting"
       \/ call[c].pc = "sending" /\ slot[call[c].slot].conn /\ ~Alive(call[c].slot)
    /\ Goto(c, "ended")
    /\ UNCHANGED <<slot, pipe, recovery, gate, down>>

\* A reply is there.  Cancellation and shutdown were looked for earlier, so
\* either may have happened since.
Receive(c) ==
    LET s == call[c].slot IN
    /\ call[c].pc = "waiting"
    /\ slot[s].conn
    /\ pipe[s].reply # None
    /\ pipe' = [pipe EXCEPT ![s].reply = None]
    /\ call' = [call EXCEPT ![c].pc = "received", ![c].got = pipe[s].reply]
    /\ UNCHANGED <<slot, recovery, gate, down>>

\* Mutant: the reply counts although the call was cancelled meanwhile.
FinishAnyway(c) ==
    LET s == call[c].slot IN
    /\ call[c].pc = "received"
    /\ slot' = [slot EXCEPT ![s].busy = FALSE]
    /\ gate' = [gate EXCEPT !.pending = IF slot[s].busy /\ @ > 0 THEN @ - 1 ELSE @]
    /\ call' = [call EXCEPT ![c].pc = "ended", ![c].finished = TRUE, ![c].answered = TRUE]
    /\ UNCHANGED <<pipe, recovery, down>>

Finish(c) ==
    LET s == call[c].slot IN
    /\ call[c].pc = "received"
    /\ ~call[c].cancelled
    /\ slot' = [slot EXCEPT ![s].busy = FALSE]
    /\ gate' = [gate EXCEPT !.pending = IF slot[s].busy /\ @ > 0 THEN @ - 1 ELSE @]
    /\ call' = [call EXCEPT ![c].pc = "ended", ![c].finished = TRUE, ![c].answered = TRUE]
    /\ UNCHANGED <<pipe, recovery, down>>

FinishTooLate(c) ==
    /\ call[c].pc = "received"
    /\ call[c].cancelled
    /\ Goto(c, "ended")
    /\ UNCHANGED <<slot, pipe, recovery, gate, down>>

\* The client is gone: main.py cancels the handle from another thread.
Disconnect(c) ==
    /\ call[c].pc \in {"waiting", "received"}
    /\ CancelsAndGoes(c, call[c].pc)

-----------------------------------------------------------------------------
(* The rest of cancel, in the thread that owns the kill.                    *)

CancelKills(c, gone) ==
    /\ call[c].stop = "killing"
    /\ Killed(call[c].slot, gone)
    /\ call' = [call EXCEPT ![c].stop = IF gone THEN "clean" ELSE "unclean"]
    /\ UNCHANGED <<recovery, gate, down>>

CancelEndsClosed(c) ==
    /\ call[c].stop \in {"clean", "unclean"}
    /\ gate.closed
    /\ slot' = [slot EXCEPT ![call[c].slot].stopping = FALSE]
    /\ call' = [call EXCEPT ![c].stop = "done"]
    /\ UNCHANGED <<pipe, recovery, gate, down>>

CancelDecides(c) ==
    /\ call[c].stop = "clean"
    /\ ~gate.closed
    /\ call' = [call EXCEPT ![c].stop = "recover"]
    /\ UNCHANGED <<slot, pipe, recovery, gate, down>>

\* Mutant: a slot that could not be cleaned goes on counting as being stopped.
CancelFailsStopping(c) ==
    /\ call[c].stop = "unclean"
    /\ ~gate.closed
    /\ slot' = [slot EXCEPT ![call[c].slot].ready = FALSE, ![call[c].slot].recovering = FALSE]
    /\ gate' = [gate EXCEPT !.status = "failed"]
    /\ call' = [call EXCEPT ![c].stop = "done"]
    /\ UNCHANGED <<pipe, recovery, down>>

CancelFails(c) ==
    /\ call[c].stop = "unclean"
    /\ ~gate.closed
    /\ slot' = [slot EXCEPT ![call[c].slot].ready = FALSE, ![call[c].slot].recovering = FALSE,
                            ![call[c].slot].stopping = FALSE]
    /\ gate' = [gate EXCEPT !.status = "failed"]
    /\ call' = [call EXCEPT ![c].stop = "done"]
    /\ UNCHANGED <<pipe, recovery, down>>

\* _begin_recovery, with its own look at _closed.
BeginRecovery(c) ==
    LET s == call[c].slot
        begins == ~gate.closed /\ ~slot[s].recovering
    IN
    /\ call[c].stop = "recover"
    /\ slot' = [slot EXCEPT ![s].stopping = FALSE, ![s].recovering = @ \/ begins]
    /\ recovery' = IF begins THEN [recovery EXCEPT ![s] = "owed"] ELSE recovery
    /\ gate' = IF gate.closed THEN [gate EXCEPT !.status = "stopped"]
               ELSE IF begins /\ \A o \in Slots \ {s} : ~slot[o].ready
               THEN [gate EXCEPT !.status = "recovering"]
               ELSE gate
    /\ call' = [call EXCEPT ![c].stop = "done"]
    /\ UNCHANGED <<pipe, down>>

CancelStep(c) ==
    \/ \E gone \in BOOLEAN : CancelKills(c, gone)
    \/ CancelEndsClosed(c) \/ CancelDecides(c) \/ CancelFails(c) \/ BeginRecovery(c)

-----------------------------------------------------------------------------
(* The monitor, and the sweep each checkout starts with.                    *)

\* _claim_dead: the first death of an idle worker is recovered from.
ClaimDead(s) ==
    /\ ~gate.closed
    /\ ~slot[s].recovering /\ ~slot[s].busy /\ slot[s].ready
    /\ slot[s].proc = "dead"
    /\ IF slot[s].failures >= 1
       THEN /\ slot' = [slot EXCEPT ![s].ready = FALSE]
            /\ recovery' = [recovery EXCEPT ![s] = "sealing"]
            /\ gate' = [gate EXCEPT !.status = "failed"]
       ELSE /\ slot' = [slot EXCEPT ![s].ready = FALSE, ![s].recovering = TRUE,
                                    ![s].failures = @ + 1]
            /\ recovery' = [recovery EXCEPT ![s] = "owed"]
            /\ gate' = [gate EXCEPT !.status = "recovering"]
    /\ UNCHANGED <<pipe, call, down>>

Seal(s, gone) ==
    /\ recovery[s] = "sealing"
    /\ gate' = StatusUnlessClosed("failed")
    /\ KilledAndFailed(s, gone)

-----------------------------------------------------------------------------
(* A recovery thread.                                                       *)

\* _launch_recovery, under the lock the shutdown publishes _closed under.
Launch(s) ==
    /\ recovery[s] = "owed"
    /\ recovery' = [recovery EXCEPT ![s] = IF gate.closed THEN "none" ELSE "started"]
    /\ UNCHANGED <<slot, pipe, call, gate, down>>

\* _recover_slot finds the gate closed and returns, the slot still recovering.
RecoveryFindsClosed(s) ==
    /\ recovery[s] \in {"started", "clear"}
    /\ gate.closed
    /\ recovery' = [recovery EXCEPT ![s] = "none"]
    /\ UNCHANGED <<slot, pipe, call, gate, down>>

\* Mutant: the next worker comes whether or not the one before is gone.
RecoveryClearsAnyway(s) ==
    /\ recovery[s] = "started"
    /\ ~gate.closed
    /\ \E gone \in BOOLEAN : Killed(s, gone)
    /\ recovery' = [recovery EXCEPT ![s] = "clear"]
    /\ UNCHANGED <<call, gate, down>>

\* What the dead worker left of its group is killed first.
RecoveryClears(s) ==
    /\ recovery[s] = "started"
    /\ ~gate.closed
    /\ Killed(s, TRUE)
    /\ recovery' = [recovery EXCEPT ![s] = "clear"]
    /\ UNCHANGED <<call, gate, down>>

RecoveryCannotClear(s) ==
    /\ recovery[s] = "started"
    /\ ~gate.closed
    /\ slot[s].proc # "none"
    /\ gate' = StatusUnlessClosed("failed")
    /\ KilledAndFailed(s, FALSE)

\* _commit_spawn, under the lock.
Spawn(s) ==
    /\ recovery[s] = "clear"
    /\ ~gate.closed
    /\ slot' = [slot EXCEPT ![s].proc = "booting", ![s].conn = TRUE, ![s].ready = FALSE]
    /\ pipe' = [pipe EXCEPT ![s] = [job |-> None, reply |-> None]]
    /\ recovery' = [recovery EXCEPT ![s] = "spawned"]
    /\ UNCHANGED <<call, gate, down>>

\* The process cannot be started, or the gate is closed.
SpawnFails(s) ==
    /\ recovery[s] = "clear"
    /\ slot' = [slot EXCEPT ![s].ready = FALSE, ![s].recovering = FALSE]
    /\ recovery' = [recovery EXCEPT ![s] = "none"]
    /\ gate' = StatusUnlessClosed("failed")
    /\ UNCHANGED <<pipe, call, down>>

\* The worker says it is ready, and ready is set before the lock is taken:
\* from here on a checkout may take the slot.
Boots(s) ==
    /\ recovery[s] = "spawned"
    /\ slot[s].proc = "booting"
    /\ slot' = [slot EXCEPT ![s].proc = "up", ![s].ready = TRUE]
    /\ recovery' = [recovery EXCEPT ![s] = "up"]
    /\ UNCHANGED <<pipe, call, gate, down>>

\* No word from the worker in time, or it died, or the gate was closed.
BootFails(s, gone) ==
    /\ recovery[s] = "spawned"
    /\ gate' = IF gone THEN StatusUnlessClosed("failed") ELSE [gate EXCEPT !.status = "failed"]
    /\ KilledAndFailed(s, gone)

Settle(s) ==
    /\ recovery[s] = "up"
    /\ slot' = [slot EXCEPT ![s].recovering = FALSE]
    /\ gate' = StatusUnlessClosed(Settled(slot'))
    /\ recovery' = [recovery EXCEPT ![s] = "none"]
    /\ UNCHANGED <<pipe, call, down>>

RecoveryStep(s) ==
    \/ \E gone \in BOOLEAN : Seal(s, gone) \/ BootFails(s, gone)
    \/ Launch(s) \/ RecoveryFindsClosed(s) \/ RecoveryClears(s) \/ RecoveryCannotClear(s)
    \/ Spawn(s) \/ SpawnFails(s) \/ Boots(s) \/ Settle(s)

-----------------------------------------------------------------------------
(* A worker process (slot_main).                                            *)

WorkerReplies(s) ==
    /\ slot[s].proc = "up"
    /\ pipe[s].job # None
    /\ pipe' = [pipe EXCEPT ![s] = [job |-> None, reply |-> pipe[s].job]]
    /\ UNCHANGED <<slot, recovery, call, gate, down>>

WorkerDies(s) ==
    /\ Alive(s)
    /\ slot' = [slot EXCEPT ![s].proc = "dead"]
    /\ pipe' = [pipe EXCEPT ![s].job = None]
    /\ UNCHANGED <<recovery, call, gate, down>>

-----------------------------------------------------------------------------
(* shutdown, once, when the service stops.                                  *)

Close ==
    /\ down.phase = "no"
    /\ gate' = [gate EXCEPT !.closed = TRUE, !.status = IF @ \in {"stopped", "failed"} THEN @ ELSE "terminating"]
    /\ down' = [down EXCEPT !.phase = "first", !.left = Slots]
    /\ UNCHANGED <<slot, pipe, recovery, call>>

\* The handle in the slot, when its call is neither finished nor cancelled.
LiveHandles(s) ==
    {c \in Calls : /\ call[c].slot = s
                   /\ call[c].pc \in {"sending", "waiting", "received"}
                   /\ ~call[c].cancelled}

FirstPassCancels(s) ==
    /\ down.phase = "first" /\ s \in down.left
    /\ \E c \in LiveHandles(s) :
           /\ Cancels(c)
           /\ call' = [call EXCEPT ![c].cancelled = TRUE, ![c].stop = "killing"]
    /\ down' = [down EXCEPT !.left = @ \ {s}]
    /\ UNCHANGED <<pipe, recovery>>

FirstPassKills(s, gone) ==
    /\ down.phase = "first" /\ s \in down.left
    /\ LiveHandles(s) = {}
    /\ Killed(s, gone)
    /\ down' = [down EXCEPT !.left = @ \ {s}]
    /\ UNCHANGED <<recovery, call, gate>>

\* The kill a cancel owes is made in the pass itself; then the recovery
\* threads are joined, for a limited time.
JoinThreads ==
    /\ down.phase = "first" /\ down.left = {}
    /\ down' = [phase |-> "second", left |-> Slots,
                dirty |-> \E s \in Slots : recovery[s] \in Threads]
    /\ UNCHANGED <<slot, pipe, recovery, call, gate>>

SecondPass(s, gone) ==
    /\ down.phase = "second" /\ s \in down.left
    /\ Killed(s, gone)
    /\ down' = [down EXCEPT !.left = @ \ {s}, !.dirty = @ \/ ~gone]
    /\ UNCHANGED <<recovery, call, gate>>

ShutdownReturns ==
    /\ down.phase = "second" /\ down.left = {}
    /\ down' = [down EXCEPT !.phase = IF down.dirty THEN "dirty" ELSE "clean"]
    /\ gate' = [gate EXCEPT !.status = IF down.dirty \/ @ = "failed" THEN "failed" ELSE "stopped"]
    /\ UNCHANGED <<slot, pipe, recovery, call>>

Shutdown ==
    \/ Close
    \/ \E s \in Slots : FirstPassCancels(s)
    \/ \E s \in Slots, gone \in BOOLEAN : FirstPassKills(s, gone) \/ SecondPass(s, gone)
    \/ JoinThreads
    \/ ShutdownReturns

-----------------------------------------------------------------------------

CallStep(c) ==
    \/ \E s \in Slots : Checkout(c, s)
    \/ CheckoutFails(c) \/ MakeHandle(c) \/ Send(c) \/ SendFindsNoPipe(c) \/ SendFails(c)
    \/ WaitGivesUp(c) \/ WaitIsCancelled(c) \/ Receive(c) \/ Finish(c) \/ FinishTooLate(c)

Next ==
    \/ \E c \in Calls : CallStep(c) \/ Disconnect(c) \/ CancelStep(c)
    \/ \E s \in Slots : ClaimDead(s) \/ RecoveryStep(s) \/ WorkerReplies(s) \/ WorkerDies(s)
    \/ Shutdown

Spec == Init /\ [][Next]_vars

-----------------------------------------------------------------------------
(* Properties.                                                              *)

\* An answer is the answer to the caller's own message, and a call that was
\* cancelled has none: a reply that comes late, or to a call whose slot was
\* taken again, reaches nobody.
AnswersAreOwn ==
    \A c \in Calls : call[c].answered => call[c].got = c /\ ~call[c].cancelled

\* The count the service reports of calls in flight is that of the slots
\* they occupy: a reply, a timeout, a disconnect and a shutdown that meet
\* take a call off it once.
PendingCounts == gate.pending = Cardinality({s \in Slots : slot[s].busy})

\* The gate says it is ready only when every slot is (_settle_status_locked):
\* no recovery hides a slot that was lost or is being stopped meanwhile.
ReadyIsWhole == gate.status = "ready" => \A s \in Slots : slot[s].ready

\* A shutdown that returned without finding fault left no worker behind, and
\* no thread that was at work brings one up afterwards.
CleanShutdownIsEmpty == down.phase = "clean" => \A s \in Slots : slot[s].proc = "none"

\* The gate does not hang in "recovering", for which requests are refused:
\* there is always a cancel or a recovery under way that will decide the
\* status, whichever of them finished first.
RecoveringIsDecided ==
    gate.status = "recovering" =>
        \/ \E s \in Slots : recovery[s] # "none"
        \/ \E c \in Calls : call[c].stop \in {"killing", "clean", "unclean", "recover"}

-----------------------------------------------------------------------------
(* Refinement of the promise made to the callers.                           *)

\* The call has its slot: it was let in, has no answer and is not given up.
Inside(c) == call[c].slot # None /\ ~call[c].cancelled /\ ~call[c].finished

WorkerIn(s) ==
    IF slot[s].proc = "none" THEN "none" ELSE IF Alive(s) THEN "live" ELSE "dead"

Fate(c) ==
    IF call[c].answered THEN "answered"
    ELSE IF call[c].cancelled \/ call[c].pc = "ended" THEN "lost"
    ELSE "undecided"

Place(c) == IF Inside(c) THEN call[c].slot ELSE None

AnswerOf(c) == IF call[c].answered THEN call[c].got ELSE None

Shut == IF down.phase = "clean" THEN "clean" ELSE IF gate.closed THEN "closed" ELSE "open"

Admission == INSTANCE CallAdmission WITH
    worker <- [s \in Slots |-> WorkerIn(s)],
    place <- [c \in Calls |-> Place(c)],
    fate <- [c \in Calls |-> Fate(c)],
    answer <- [c \in Calls |-> AnswerOf(c)],
    inFlight <- gate.pending,
    shut <- Shut

\* The gate implements CallAdmission: a timeout, a disconnect, a reply, a
\* worker's death, a recovery and a shutdown that meet do one thing at a time.
ImplementsAdmission == Admission!Spec

=============================================================================
