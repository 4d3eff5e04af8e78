----------------------------- MODULE GateProofs -----------------------------
(***************************************************************************)
(* Theorems of the gate, for any finite set of slots and any set of calls. *)
(***************************************************************************)
EXTENDS IndexGate, FiniteSetTheorems, TLAPS

\* A cancel of the call is under way.
Stopping(c) == call[c].stop \in {"killing", "clean", "unclean", "recover"}

\* The call is in its slot, or its cancel is, or it may still write to the pipe.
Owns(c) ==
    \/ call[c].pc \in {"taken", "sending"}
    \/ call[c].pc \in {"waiting", "received"} /\ ~call[c].cancelled
    \/ Stopping(c)

Busy == {s \in Slots : slot[s].busy}

\* A closed gate is neither ready nor recovering.
ClosedInv == gate.closed => gate.status \notin {"ready", "recovering"}

\* A slot and its recovery.
SlotInv ==
    \A s \in Slots :
        /\ recovery[s] \notin {"none", "up"} => ~slot[s].ready
        /\ slot[s].recovering /\ ~gate.closed => recovery[s] # "none"
        /\ slot[s].stopping => \E c \in Calls : call[c].slot = s /\ Stopping(c)

\* A call and its cancel, by themselves.
LifeOk(c) ==
    /\ call[c].pc \in {"taken", "sending", "waiting", "received"} \/ Stopping(c) =>
          call[c].slot \in Slots
    /\ call[c].pc \in {"idle", "taken"} => call[c].stop = "no"
    /\ call[c].cancelled <=> call[c].stop # "no"
    /\ call[c].finished => call[c].pc = "ended" /\ ~call[c].cancelled
    /\ call[c].answered => call[c].finished /\ call[c].got = c
    /\ call[c].pc = "received" /\ ~call[c].cancelled => call[c].got = c

\* A call and the slot it owns: it is busy until the call is cancelled, and
\* then not ready before the cancel is through.
OwnerOk(c) ==
    LET s == call[c].slot
    IN  Owns(c) =>
          /\ recovery[s] \in {"none", "up"}
          /\ ~call[c].cancelled => slot[s].busy
          /\ call[c].cancelled => ~slot[s].busy /\ ~slot[s].ready
          /\ Stopping(c) => slot[s].stopping
          /\ call[c].cancelled /\ call[c].pc = "sending" => gate.closed
          /\ call[c].cancelled /\ call[c].pc = "sending" /\ call[c].stop # "killing" => ~slot[s].conn

CallInv ==
    /\ \A c \in Calls : LifeOk(c) /\ OwnerOk(c)
    /\ \A c, d \in Calls : Owns(c) /\ Owns(d) /\ call[c].slot = call[d].slot => c = d

\* What is in a pipe is of the one call that sent and has not been answered.
Sent(c) ==
    \/ call[c].pc = "waiting" /\ ~call[c].cancelled
    \/ call[c].stop = "killing" /\ call[c].pc \notin {"taken", "sending"}

PipeInv ==
    \A s \in Slots :
        /\ pipe[s].job = None \/ pipe[s].reply = None
        /\ \A c \in Calls : c \in {pipe[s].job, pipe[s].reply} => call[c].slot = s /\ Sent(c)

\* A shutdown closes the gate, and what it has visited is empty.
DownInv ==
    /\ down.phase # "no" => gate.closed
    /\ down.phase = "second" /\ ~down.dirty => \A s \in Slots \ down.left : slot[s].proc = "none"
    /\ CleanShutdownIsEmpty

IInv ==
    /\ TypeOK /\ PendingCounts /\ ClosedInv /\ ReadyIsWhole /\ RecoveringIsDecided
    /\ SlotInv /\ CallInv /\ PipeInv /\ DownInv

-----------------------------------------------------------------------------
(* The rows of the types.                                                   *)

SlotRow == [proc : Procs, conn : BOOLEAN, ready : BOOLEAN, busy : BOOLEAN,
            recovering : BOOLEAN, stopping : BOOLEAN, failures : 0 .. 1]
PipeRow == [job : MaybeCall, reply : MaybeCall]
CallRow == [pc : {"idle", "taken", "sending", "waiting", "received", "ended"},
            slot : Slots \cup {None}, got : MaybeCall, answered : BOOLEAN,
            cancelled : BOOLEAN, finished : BOOLEAN,
            stop : {"no", "killing", "clean", "unclean", "recover", "done"}]
GateRow == [status : {"ready", "recovering", "terminating", "failed", "stopped"},
            closed : BOOLEAN, pending : 0 .. Cardinality(Slots)]
DownRow == [phase : {"no", "first", "second", "clean", "dirty"},
            left : SUBSET Slots, dirty : BOOLEAN]

Typed ==
    /\ slot \in [Slots -> SlotRow] /\ pipe \in [Slots -> PipeRow]
    /\ recovery \in [Slots -> Threads \cup {"none", "owed", "sealing"}]
    /\ call \in [Calls -> CallRow] /\ gate \in GateRow /\ down \in DownRow

LEMMA TypeOKTyped == TypeOK <=> Typed
BY DEF TypeOK, Typed, SlotRow, PipeRow, CallRow, GateRow, DownRow

LEMMA TypeOKTypedAfter == TypeOK' <=> Typed'
BY DEF TypeOK, Typed, SlotRow, PipeRow, CallRow, GateRow, DownRow

-----------------------------------------------------------------------------
(* The count of the calls in flight.                                        *)

\* A set of slots is counted within the slots.
LEMMA SlotsAreCounted ==
    ASSUME NEW S \in SUBSET Slots
    PROVE  /\ IsFiniteSet(S) /\ Cardinality(S) \in 0 .. Cardinality(Slots)
           /\ \A s \in Slots : s \notin S => Cardinality(S \cup {s}) = Cardinality(S) + 1
           /\ \A s \in S : Cardinality(S \ {s}) = Cardinality(S) - 1 /\ Cardinality(S) > 0
<1>1. IsFiniteSet(Slots) /\ IsFiniteSet(S) /\ Cardinality(S) <= Cardinality(Slots)
  BY GateAssumption, FS_Subset
<1>2. Cardinality(S) \in Nat /\ Cardinality(Slots) \in Nat
  BY <1>1, FS_CardinalityType
<1>3. ASSUME NEW s \in Slots, s \notin S PROVE Cardinality(S \cup {s}) = Cardinality(S) + 1
  BY <1>1, <1>3, FS_AddElement
<1>4. ASSUME NEW s \in S PROVE Cardinality(S \ {s}) = Cardinality(S) - 1 /\ Cardinality(S) > 0
  <2>1. IsFiniteSet(S \ {s}) /\ Cardinality(S \ {s}) = Cardinality(S) - 1
    BY <1>1, <1>4, FS_RemoveElement
  <2>2. Cardinality(S \ {s}) \in Nat
    BY <2>1, FS_CardinalityType
  <2> QED BY <1>2, <2>1, <2>2
<1> QED BY <1>1, <1>2, <1>3, <1>4

\* A call comes into flight.
LEMMA CountsOneMore ==
    ASSUME TypeOK, PendingCounts, NEW s \in Slots, ~slot[s].busy,
           slot' = [slot EXCEPT ![s].busy = TRUE], gate'.pending = gate.pending + 1
    PROVE  PendingCounts' /\ gate'.pending \in 0 .. Cardinality(Slots)
<1>1. Busy' = Busy \cup {s} /\ s \notin Busy /\ Busy \in SUBSET Slots /\ Busy' \in SUBSET Slots
  BY DEF Busy, TypeOK
<1>2. Cardinality(Busy') = Cardinality(Busy) + 1 /\ Cardinality(Busy') \in 0 .. Cardinality(Slots)
  BY <1>1, SlotsAreCounted
<1> QED BY <1>2 DEF PendingCounts, Busy

\* A call is taken off the count, if its slot is busy.
LEMMA CountsOneLess ==
    ASSUME TypeOK, PendingCounts, NEW s \in Slots,
           ~slot'[s].busy, \A r \in Slots \ {s} : slot'[r].busy = slot[r].busy,
           gate'.pending = IF slot[s].busy /\ gate.pending > 0 THEN gate.pending - 1 ELSE gate.pending
    PROVE  PendingCounts' /\ gate'.pending \in 0 .. Cardinality(Slots)
<1>1. Busy' = Busy \ {s} /\ Busy \in SUBSET Slots /\ Busy' \in SUBSET Slots
  BY DEF Busy
<1>2. Cardinality(Busy') \in 0 .. Cardinality(Slots) /\ gate.pending = Cardinality(Busy)
  BY <1>1, SlotsAreCounted DEF PendingCounts, Busy
<1>3. CASE slot[s].busy
  <2>1. s \in Busy
    BY <1>3 DEF Busy
  <2>2. Cardinality(Busy \ {s}) = Cardinality(Busy) - 1 /\ Cardinality(Busy) > 0
    BY <1>1, <2>1, SlotsAreCounted
  <2>3. gate'.pending = Cardinality(Busy')
    BY <1>1, <1>2, <1>3, <2>2
  <2> QED BY <1>2, <2>3 DEF PendingCounts, Busy
<1>4. CASE ~slot[s].busy
  <2>1. Busy' = Busy
    BY <1>1, <1>4 DEF Busy
  <2> QED BY <1>2, <1>4, <2>1 DEF PendingCounts, Busy
<1> QED BY <1>3, <1>4

\* The count stands where no slot is taken or left.
LEMMA CountStands ==
    ASSUME TypeOK, PendingCounts, \A s \in Slots : slot'[s].busy = slot[s].busy,
           gate'.pending = gate.pending
    PROVE  PendingCounts' /\ gate'.pending \in 0 .. Cardinality(Slots)
<1>1. Busy' = Busy /\ Busy \in SUBSET Slots
  BY DEF Busy
<1> QED BY <1>1, SlotsAreCounted DEF PendingCounts, Busy

-----------------------------------------------------------------------------
(* A call's own steps.                                                      *)

\* A call changes and no other: what it owned may stay its own.
LEMMA CallChanges ==
    ASSUME IInv, NEW c \in Calls, call' = [call EXCEPT ![c] = call'[c]], call'[c] \in CallRow,
           UNCHANGED <<slot, recovery, gate, down>>, pipe' \in [Slots -> PipeRow],
           call'[c].slot = call[c].slot, call'[c].stop = call[c].stop,
           call'[c].cancelled = call[c].cancelled,
           Owns(c)' => Owns(c),
           call[c].cancelled => call'[c].pc # "sending" \/ call[c].pc = "sending",
           LifeOk(c)', PipeInv'
    PROVE  IInv'
<1>0. \A d \in Calls \ {c} : call'[d] = call[d]
  BY DEF IInv, TypeOKTyped, Typed, TypeOK
<1>1. TypeOK'
  BY TypeOKTyped, TypeOKTypedAfter DEF IInv, Typed
<1>2. PendingCounts' /\ ClosedInv' /\ ReadyIsWhole' /\ DownInv'
  BY DEF IInv, PendingCounts, ClosedInv, ReadyIsWhole, DownInv, CleanShutdownIsEmpty
<1>3. \A d \in Calls : Stopping(d)' <=> Stopping(d)
  BY <1>0 DEF Stopping
<1>4. RecoveringIsDecided'
  BY <1>3 DEF IInv, RecoveringIsDecided, Stopping
<1>5. SlotInv'
  BY <1>0, <1>3 DEF IInv, SlotInv
<1>6. CallInv'
  <2>1. ASSUME NEW d \in Calls \ {c} PROVE LifeOk(d)' /\ OwnerOk(d)' /\ (Owns(d)' <=> Owns(d))
    BY <1>0 DEF IInv, CallInv, LifeOk, OwnerOk, Owns, Stopping
  <2>2. OwnerOk(c)'
    BY <1>3 DEF IInv, CallInv, OwnerOk
  <2>3. \A d \in Calls : call'[d].slot = call[d].slot
    BY <1>0
  <2> QED BY <2>1, <2>2, <2>3 DEF IInv, CallInv
<1> QED BY <1>1, <1>2, <1>4, <1>5, <1>6 DEF IInv

\* The steps of a request thread that neither take nor leave a slot.
LEMMA ThreadSteps ==
    ASSUME IInv, NEW c \in Calls,
           \/ CheckoutFails(c) \/ MakeHandle(c) \/ Send(c) \/ SendFindsNoPipe(c)
           \/ WaitIsCancelled(c) \/ Receive(c) \/ FinishTooLate(c)
    PROVE  IInv'
<1>t. Typed /\ LifeOk(c) /\ OwnerOk(c)
  BY TypeOKTyped DEF IInv, CallInv
<1>r. call[c] \in CallRow
  BY <1>t DEF Typed
\* A move of the call's thread, the pipes as they are.
<1>0. ASSUME NEW pc \in {"sending", "ended"}, Goto(c, pc), UNCHANGED <<slot, pipe, recovery, gate, down>>,
             pc = "sending" => call[c].pc = "taken",
             call[c].pc # "taken" => pc = "ended",
             call[c].pc = "waiting" => call[c].cancelled,
             call[c].pc # "ended"
      PROVE  IInv'
  <2>1. call'[c] = [call[c] EXCEPT !.pc = pc] /\ call' = [call EXCEPT ![c] = call'[c]]
    BY <1>0, <1>t DEF Goto, Typed
  <2>2. call'[c] \in CallRow /\ call'[c].pc = pc
    BY <1>r, <2>1 DEF CallRow
  <2>3. /\ call'[c].slot = call[c].slot /\ call'[c].stop = call[c].stop
        /\ call'[c].cancelled = call[c].cancelled /\ call'[c].finished = call[c].finished
        /\ call'[c].answered = call[c].answered /\ call'[c].got = call[c].got
    BY <1>r, <2>1 DEF CallRow
  <2>4. Owns(c)' => Owns(c)
    BY <1>0, <2>2, <2>3 DEF Owns, Stopping
  <2>5. LifeOk(c)'
    BY <1>0, <1>t, <2>2, <2>3 DEF LifeOk, Stopping
  <2>6. PipeInv'
    <3>1. \A d \in Calls \ {c} : call'[d] = call[d]
      BY <2>1, <1>t DEF Typed
    <3>2. Sent(c) => Sent(c)'
      BY <1>0, <1>t, <2>2, <2>3 DEF Sent, LifeOk
    <3> QED BY <1>0, <2>3, <3>1, <3>2 DEF IInv, PipeInv, Sent
  <2>7. pipe' \in [Slots -> PipeRow]
    BY <1>0, <1>t DEF Typed
  <2>8. call[c].cancelled => call'[c].pc # "sending" \/ call[c].pc = "sending"
    BY <1>0, <1>t, <2>2 DEF LifeOk
  <2> QED BY <1>0, <2>1, <2>2, <2>3, <2>4, <2>5, <2>6, <2>7, <2>8, CallChanges
<1>1. CASE CheckoutFails(c) \/ MakeHandle(c) \/ SendFindsNoPipe(c) \/ WaitIsCancelled(c) \/ FinishTooLate(c)
  BY <1>0, <1>1 DEF CheckoutFails, MakeHandle, SendFindsNoPipe, WaitIsCancelled, FinishTooLate
<1>2. CASE Send(c)
  <2>0. /\ call[c].pc = "sending" /\ call[c].slot \in Slots /\ slot[call[c].slot].conn /\ Owns(c)
        /\ pipe[call[c].slot] \in PipeRow
    BY <1>2, <1>t DEF Send, LifeOk, Owns, Typed
  <2>1. call'[c] = [call[c] EXCEPT !.pc = "waiting"] /\ call' = [call EXCEPT ![c] = call'[c]]
    BY <1>2, <1>t DEF Send, Goto, Typed
  <2>2. call'[c] \in CallRow /\ call'[c].pc = "waiting"
    BY <1>r, <2>1 DEF CallRow
  <2>3. /\ call'[c].slot = call[c].slot /\ call'[c].stop = call[c].stop
        /\ call'[c].cancelled = call[c].cancelled /\ call'[c].finished = call[c].finished
        /\ call'[c].answered = call[c].answered /\ call'[c].got = call[c].got
    BY <1>r, <2>1 DEF CallRow
  <2>4. Owns(c)' => Owns(c)
    BY <2>0
  <2>5. LifeOk(c)'
    BY <1>t, <2>0, <2>2, <2>3 DEF LifeOk, Stopping
  <2>6. /\ pipe' = [pipe EXCEPT ![call[c].slot].job = c]
        /\ pipe'[call[c].slot].job = c /\ pipe'[call[c].slot].reply = pipe[call[c].slot].reply
        /\ \A r \in Slots \ {call[c].slot} : pipe'[r] = pipe[r]
    BY <1>2, <1>t, <2>0 DEF Send, Typed, PipeRow
  <2>7. pipe' \in [Slots -> PipeRow]
    BY <1>t, <2>0, <2>6 DEF Typed, PipeRow, MaybeCall
  <2>8. Sent(c)'
    <3>1. call[c].cancelled => call[c].stop = "killing"
      BY <1>t, <2>0 DEF OwnerOk, LifeOk, Owns
    <3> QED BY <2>2, <2>3, <3>1 DEF Sent
  <2>9. pipe[call[c].slot].reply = None
    <3>1. ASSUME NEW d \in Calls, pipe[call[c].slot].reply = d PROVE FALSE
      <4>1. call[d].slot = call[c].slot /\ Sent(d)
        BY <2>0, <3>1 DEF IInv, PipeInv
      <4>2. Owns(d) /\ d # c
        BY <2>0, <4>1 DEF Sent, Owns, Stopping
      <4> QED BY <2>0, <4>1, <4>2 DEF IInv, CallInv
    <3> QED BY <2>0, <3>1 DEF PipeRow, MaybeCall
  <2>10. PipeInv'
    <3>1. \A d \in Calls \ {c} : call'[d] = call[d]
      BY <2>1, <1>t DEF Typed
    <3>2. \A r \in Slots \ {call[c].slot} : c \notin {pipe[r].job, pipe[r].reply}
      BY DEF IInv, PipeInv
    <3> QED BY <2>3, <2>6, <2>8, <2>9, <3>1, <3>2, GateAssumption DEF IInv, PipeInv, Sent
  <2> QED BY <1>2, <2>0, <2>1, <2>2, <2>3, <2>4, <2>5, <2>7, <2>10, CallChanges DEF Send
<1>3. CASE Receive(c)
  <2>0. /\ call[c].pc = "waiting" /\ call[c].slot \in Slots
        /\ pipe[call[c].slot] \in PipeRow /\ pipe[call[c].slot].reply \in Calls
    BY <1>3, <1>t DEF Receive, LifeOk, Typed, PipeRow, MaybeCall
  <2>1. /\ call'[c] = [call[c] EXCEPT !.pc = "received", !.got = pipe[call[c].slot].reply]
        /\ call' = [call EXCEPT ![c] = call'[c]]
    BY <1>3, <1>t DEF Receive, Typed
  <2>2. call'[c] \in CallRow /\ call'[c].pc = "received" /\ call'[c].got = pipe[call[c].slot].reply
    BY <1>r, <2>0, <2>1 DEF CallRow, MaybeCall
  <2>3. /\ call'[c].slot = call[c].slot /\ call'[c].stop = call[c].stop
        /\ call'[c].cancelled = call[c].cancelled /\ call'[c].finished = call[c].finished
        /\ call'[c].answered = call[c].answered
    BY <1>r, <2>1 DEF CallRow
  <2>4. Owns(c)' => Owns(c)
    BY <2>0, <2>2, <2>3 DEF Owns, Stopping
  <2>5. ~call[c].cancelled => pipe[call[c].slot].reply = c
    <3>1. ASSUME ~call[c].cancelled, NEW d \in Calls, pipe[call[c].slot].reply = d PROVE d = c
      <4>1. call[d].slot = call[c].slot /\ Sent(d)
        BY <2>0, <3>1 DEF IInv, PipeInv
      <4>2. Owns(d) /\ Owns(c)
        BY <2>0, <3>1, <4>1 DEF Sent, Owns, Stopping
      <4> QED BY <4>1, <4>2 DEF IInv, CallInv
    <3> QED BY <2>0, <3>1
  <2>6. LifeOk(c)'
    BY <1>t, <2>0, <2>2, <2>3, <2>5 DEF LifeOk, Stopping
  <2>7. /\ pipe'[call[c].slot].job = pipe[call[c].slot].job /\ pipe'[call[c].slot].reply = None
        /\ \A r \in Slots \ {call[c].slot} : pipe'[r] = pipe[r]
        /\ pipe' \in [Slots -> PipeRow]
    BY <1>3, <1>t, <2>0 DEF Receive, Typed, PipeRow, MaybeCall
  <2>8. PipeInv'
    <3>1. \A d \in Calls \ {c} : call'[d] = call[d]
      BY <2>1, <1>t DEF Typed
    <3>2. \A r \in Slots : c = pipe'[r].job \/ c = pipe'[r].reply => Sent(c)'
      <4>1. ASSUME NEW r \in Slots, c = pipe'[r].job \/ c = pipe'[r].reply, ~call[c].cancelled PROVE FALSE
        <5>1. r # call[c].slot => call[c].slot = r
          BY <2>7, <4>1 DEF IInv, PipeInv
        <5>2. pipe[call[c].slot].job = None
          BY <2>0, <2>5, <4>1, GateAssumption DEF IInv, PipeInv
        <5> QED BY <2>7, <4>1, <5>1, <5>2, GateAssumption
      <4>2. ASSUME NEW r \in Slots, c = pipe'[r].job \/ c = pipe'[r].reply, call[c].cancelled PROVE Sent(c)'
        <5>1. Sent(c)
          BY <2>7, <4>2, GateAssumption DEF IInv, PipeInv
        <5> QED BY <2>2, <2>3, <4>2, <5>1 DEF Sent
      <4> QED BY <4>1, <4>2
    <3> QED BY <2>3, <2>7, <3>1, <3>2, GateAssumption DEF IInv, PipeInv, Sent
  <2> QED BY <1>3, <2>0, <2>1, <2>2, <2>3, <2>4, <2>6, <2>7, <2>8, CallChanges DEF Receive
<1> QED BY <1>1, <1>2, <1>3

-----------------------------------------------------------------------------
(* Steps of a call and its slot.                                            *)

\* The slot is somebody's.
Held(s) == \E c \in Calls : Owns(c) /\ call[c].slot = s

\* A slot in recovery, and a slot that is free, are nobody's.
LEMMA NobodyHolds ==
    ASSUME IInv, NEW s \in Slots,
           \/ recovery[s] \notin {"none", "up"}
           \/ slot[s].ready /\ ~slot[s].busy
    PROVE  ~Held(s)
BY DEF Held, IInv, CallInv, OwnerOk

\* A call and its slot change and nobody else's.
LEMMA OwnerChanges ==
    ASSUME IInv, NEW c \in Calls, NEW s \in Slots,
           \A d \in Calls \ {c} : call'[d] = call[d] /\ (Owns(d) => call[d].slot # s),
           \A r \in Slots \ {s} : slot'[r] = slot[r] /\ recovery'[r] = recovery[r],
           gate'.closed = gate.closed, call'[c].slot = s, LifeOk(c)', OwnerOk(c)'
    PROVE  CallInv'
<1>1. ASSUME NEW d \in Calls \ {c} PROVE LifeOk(d)' /\ OwnerOk(d)' /\ (Owns(d)' <=> Owns(d))
  <2>1. (Owns(d)' <=> Owns(d)) /\ (Stopping(d)' <=> Stopping(d)) /\ LifeOk(d)'
    BY DEF IInv, CallInv, LifeOk, Owns, Stopping
  <2>2. Owns(d) => call[d].slot \in Slots \ {s}
    BY DEF IInv, CallInv, LifeOk, Owns, Stopping
  <2>3. OwnerOk(d)'
    BY <2>1, <2>2 DEF IInv, CallInv, OwnerOk
  <2> QED BY <2>1, <2>3
<1>2. \A d, e \in Calls : (Owns(d) /\ Owns(e) /\ call[d].slot = call[e].slot)' => d = e
  BY <1>1 DEF IInv, CallInv
<1> QED BY <1>1, <1>2 DEF CallInv

\* A call takes a free slot.
LEMMA CheckoutKeeps ==
    ASSUME IInv, NEW c \in Calls, NEW s \in Slots, Checkout(c, s)
    PROVE  IInv'
<1>t. Typed /\ LifeOk(c)
  BY TypeOKTyped DEF IInv, CallInv
<1>1. /\ call[c].pc = "idle" /\ slot[s].ready /\ ~slot[s].busy
      /\ ~Held(s) /\ ~Owns(c) /\ ~Stopping(c) /\ ~Sent(c) /\ recovery[s] \in {"none", "up"}
  BY <1>t, NobodyHolds DEF Checkout, Free, Owns, Stopping, Sent, LifeOk, IInv, SlotInv
<1>2. /\ call'[c] = [call[c] EXCEPT !.pc = "taken", !.slot = s] /\ call[c] \in CallRow
      /\ \A d \in Calls \ {c} : call'[d] = call[d]
  BY <1>t DEF Checkout, Typed
<1>3. /\ call'[c].pc = "taken" /\ call'[c].slot = s /\ call'[c].stop = call[c].stop
      /\ call'[c].cancelled = call[c].cancelled /\ call'[c].finished = call[c].finished
      /\ call'[c].answered = call[c].answered /\ call'[c].got = call[c].got /\ call'[c] \in CallRow
  BY <1>2 DEF CallRow
<1>4. /\ slot'[s] = [slot[s] EXCEPT !.busy = TRUE] /\ slot[s] \in SlotRow
      /\ \A r \in Slots \ {s} : slot'[r] = slot[r]
  BY <1>t DEF Checkout, Typed
<1>5. /\ slot'[s].busy /\ slot'[s].ready = slot[s].ready /\ slot'[s].stopping = slot[s].stopping
      /\ slot'[s].recovering = slot[s].recovering /\ slot'[s].proc = slot[s].proc
      /\ slot'[s] \in SlotRow
  BY <1>4 DEF SlotRow
<1>6. PendingCounts' /\ gate'.pending \in 0 .. Cardinality(Slots)
  <2>1. gate'.pending = gate.pending + 1
    BY <1>t DEF Checkout, Typed, GateRow
  <2> QED BY <1>1, <2>1, CountsOneMore DEF Checkout, IInv
<1>7. gate'.status = gate.status /\ gate'.closed = gate.closed /\ gate' \in GateRow
  BY <1>t, <1>6 DEF Checkout, Typed, GateRow
<1>8. TypeOK'
  <2>1. slot' \in [Slots -> SlotRow] /\ call' \in [Calls -> CallRow]
    BY <1>t, <1>3, <1>5 DEF Checkout, Typed
  <2> QED BY <1>t, <1>7, <2>1, TypeOKTypedAfter DEF Checkout, Typed
<1>9. CallInv'
  <2>1. LifeOk(c)'
    BY <1>t, <1>1, <1>3 DEF LifeOk, Stopping
  <2>2. OwnerOk(c)'
    BY <1>t, <1>1, <1>3, <1>5 DEF OwnerOk, Stopping, LifeOk, Checkout
  <2> QED BY <1>1, <1>2, <1>3, <1>4, <1>7, <2>1, <2>2, OwnerChanges DEF Held, Checkout
<1>10. \A d \in Calls : (Stopping(d)' <=> Stopping(d)) /\ (Stopping(d) => call'[d].slot = call[d].slot)
  BY <1>1, <1>2, <1>3 DEF Stopping
<1>11. SlotInv'
  <2>1. \A r \in Slots : /\ slot'[r].ready = slot[r].ready /\ slot'[r].recovering = slot[r].recovering
                        /\ slot'[r].stopping = slot[r].stopping /\ recovery'[r] = recovery[r]
    BY <1>4, <1>5 DEF Checkout
  <2> QED BY <1>7, <1>10, <2>1 DEF IInv, SlotInv
<1>12. PipeInv'
  <2>1. \A d \in Calls : Sent(d) => Sent(d)' /\ call'[d].slot = call[d].slot
    BY <1>1, <1>2 DEF Sent
  <2> QED BY <2>1 DEF IInv, PipeInv, Checkout
<1>13. ClosedInv' /\ ReadyIsWhole' /\ DownInv'
  BY <1>4, <1>5, <1>7 DEF IInv, ClosedInv, ReadyIsWhole, DownInv, CleanShutdownIsEmpty, Checkout
<1>14. RecoveringIsDecided'
  BY <1>7, <1>10 DEF IInv, RecoveringIsDecided, Checkout, Stopping
<1> QED BY <1>6, <1>8, <1>9, <1>11, <1>12, <1>13, <1>14 DEF IInv

\* A call leaves its slot with the answer.
LEMMA FinishKeeps ==
    ASSUME IInv, NEW c \in Calls, Finish(c)
    PROVE  IInv'
<1> DEFINE s == call[c].slot
<1>t. Typed /\ LifeOk(c) /\ OwnerOk(c)
  BY TypeOKTyped DEF IInv, CallInv
<1>1. /\ call[c].pc = "received" /\ ~call[c].cancelled /\ call[c].stop = "no" /\ call[c].got = c
      /\ s \in Slots /\ Owns(c) /\ ~Stopping(c) /\ ~Sent(c)
  BY <1>t DEF Finish, Owns, Stopping, Sent, LifeOk
<1>2. /\ call'[c] = [call[c] EXCEPT !.pc = "ended", !.finished = TRUE, !.answered = TRUE]
      /\ call[c] \in CallRow /\ \A d \in Calls \ {c} : call'[d] = call[d]
  BY <1>t DEF Finish, Typed
<1>3. /\ call'[c].pc = "ended" /\ call'[c].slot = s /\ call'[c].stop = call[c].stop
      /\ call'[c].cancelled = call[c].cancelled /\ call'[c].finished
      /\ call'[c].got = call[c].got /\ call'[c] \in CallRow
  BY <1>2 DEF CallRow
<1>4. /\ slot'[s] = [slot[s] EXCEPT !.busy = FALSE] /\ slot[s] \in SlotRow
      /\ \A r \in Slots \ {s} : slot'[r] = slot[r]
  BY <1>t, <1>1 DEF Finish, Typed
<1>5. /\ ~slot'[s].busy /\ slot'[s].ready = slot[s].ready /\ slot'[s].stopping = slot[s].stopping
      /\ slot'[s].recovering = slot[s].recovering /\ slot'[s].proc = slot[s].proc
      /\ slot'[s] \in SlotRow
  BY <1>4 DEF SlotRow
<1>6. PendingCounts' /\ gate'.pending \in 0 .. Cardinality(Slots)
  <2>1. gate'.pending = IF slot[s].busy /\ gate.pending > 0 THEN gate.pending - 1 ELSE gate.pending
    BY <1>t DEF Finish, Typed, GateRow
  <2>2. \A r \in Slots \ {s} : slot'[r].busy = slot[r].busy
    BY <1>4
  <2> QED BY <1>1, <1>5, <2>1, <2>2, CountsOneLess DEF IInv
<1>7. gate'.status = gate.status /\ gate'.closed = gate.closed /\ gate' \in GateRow
  BY <1>t, <1>6 DEF Finish, Typed, GateRow
<1>8. TypeOK'
  <2>1. slot' \in [Slots -> SlotRow] /\ call' \in [Calls -> CallRow]
    BY <1>t, <1>1, <1>3, <1>5 DEF Finish, Typed
  <2> QED BY <1>t, <1>7, <2>1, TypeOKTypedAfter DEF Finish, Typed
<1>9. CallInv'
  <2>1. LifeOk(c)'
    BY <1>t, <1>1, <1>3 DEF LifeOk, Stopping
  <2>2. OwnerOk(c)'
    BY <1>1, <1>3 DEF OwnerOk, Owns, Stopping
  <2>3. \A d \in Calls \ {c} : Owns(d) => call[d].slot # s
    BY <1>1 DEF IInv, CallInv
  <2> QED BY <1>1, <1>2, <1>3, <1>4, <1>7, <2>1, <2>2, <2>3, OwnerChanges DEF Finish
<1>10. \A d \in Calls : (Stopping(d)' <=> Stopping(d)) /\ call'[d].slot = call[d].slot
  BY <1>1, <1>2, <1>3 DEF Stopping
<1>11. SlotInv'
  <2>1. \A r \in Slots : /\ slot'[r].ready = slot[r].ready /\ slot'[r].recovering = slot[r].recovering
                        /\ slot'[r].stopping = slot[r].stopping /\ recovery'[r] = recovery[r]
    BY <1>4, <1>5 DEF Finish
  <2> QED BY <1>7, <1>10, <2>1 DEF IInv, SlotInv
<1>12. PipeInv'
  <2>1. \A d \in Calls : Sent(d) => Sent(d)'
    BY <1>1, <1>2 DEF Sent
  <2> QED BY <1>10, <2>1 DEF IInv, PipeInv, Finish
<1>13. ClosedInv' /\ ReadyIsWhole' /\ DownInv'
  BY <1>4, <1>5, <1>7 DEF IInv, ClosedInv, ReadyIsWhole, DownInv, CleanShutdownIsEmpty, Finish
<1>14. RecoveringIsDecided'
  BY <1>7, <1>10 DEF IInv, RecoveringIsDecided, Finish, Stopping
<1> QED BY <1>6, <1>8, <1>9, <1>11, <1>12, <1>13, <1>14 DEF IInv

-----------------------------------------------------------------------------
(* Cancels.                                                                 *)

\* Whoever cancels a call first takes it off the count and owns the kill.
LEMMA CancelKeeps ==
    ASSUME IInv, NEW c \in Calls, Cancels(c), call[c].pc \in {"sending", "waiting", "received"},
           NEW pc \in {"ended", call[c].pc}, pc = "sending" => gate.closed,
           call' = [call EXCEPT ![c] = call'[c]],
           call'[c] = [call[c] EXCEPT !.pc = pc, !.cancelled = TRUE, !.stop = "killing"],
           UNCHANGED <<pipe, recovery>>,
           down' \in DownRow, down' = down \/ (down.phase = "first" /\ down'.phase = "first")
    PROVE  IInv'
<1> DEFINE s == call[c].slot
<1>t. Typed /\ LifeOk(c) /\ OwnerOk(c)
  BY TypeOKTyped DEF IInv, CallInv
<1>1. /\ ~call[c].cancelled /\ ~call[c].finished /\ call[c].stop = "no" /\ ~call[c].answered
      /\ s \in Slots /\ Owns(c) /\ ~Stopping(c)
  BY <1>t DEF Cancels, Owns, Stopping, LifeOk
<1>2. call[c] \in CallRow /\ \A d \in Calls \ {c} : call'[d] = call[d]
  BY <1>t DEF Typed
<1>3. /\ call'[c].pc = pc /\ call'[c].slot = s /\ call'[c].stop = "killing"
      /\ call'[c].cancelled /\ call'[c].finished = call[c].finished
      /\ call'[c].answered = call[c].answered /\ call'[c] \in CallRow
  BY <1>2 DEF CallRow
<1>4. /\ slot'[s] = [slot[s] EXCEPT !.busy = FALSE, !.ready = FALSE, !.stopping = TRUE]
      /\ slot[s] \in SlotRow /\ slot' = [slot EXCEPT ![s] = slot'[s]]
      /\ \A r \in Slots \ {s} : slot'[r] = slot[r]
  BY <1>t, <1>1 DEF Cancels, Typed
<1>5. /\ ~slot'[s].busy /\ ~slot'[s].ready /\ slot'[s].stopping
      /\ slot'[s].recovering = slot[s].recovering /\ slot'[s].proc = slot[s].proc
      /\ slot'[s].conn = slot[s].conn /\ slot'[s] \in SlotRow
  BY <1>4 DEF SlotRow
<1>6. PendingCounts' /\ gate'.pending \in 0 .. Cardinality(Slots)
  <2>1. gate'.pending = IF slot[s].busy /\ gate.pending > 0 THEN gate.pending - 1 ELSE gate.pending
    BY <1>t DEF Cancels, Typed, GateRow
  <2>2. \A r \in Slots \ {s} : slot'[r].busy = slot[r].busy
    BY <1>4
  <2> QED BY <1>1, <1>5, <2>1, <2>2, CountsOneLess DEF IInv
<1>7. /\ gate'.status = (IF gate.closed THEN gate.status ELSE "recovering")
      /\ gate'.closed = gate.closed /\ gate' \in GateRow
  BY <1>t, <1>6 DEF Cancels, Typed, GateRow
<1>8. TypeOK'
  <2>1. slot' \in [Slots -> SlotRow] /\ call' \in [Calls -> CallRow]
    BY <1>t, <1>1, <1>3, <1>4, <1>5 DEF Typed
  <2> QED BY <1>t, <1>7, <2>1, TypeOKTypedAfter DEF Typed
<1>9. CallInv'
  <2>1. LifeOk(c)'
    BY <1>t, <1>1, <1>3 DEF LifeOk, Stopping
  <2>2. OwnerOk(c)'
    <3>1. recovery'[s] \in {"none", "up"}
      BY <1>t, <1>1 DEF OwnerOk
    <3> QED BY <1>1, <1>3, <1>5, <1>7, <3>1 DEF OwnerOk
  <2>3. \A d \in Calls \ {c} : Owns(d) => call[d].slot # s
    BY <1>1 DEF IInv, CallInv
  <2>4. /\ \A d \in Calls \ {c} : call'[d] = call[d] /\ (Owns(d) => call[d].slot # s)
        /\ \A r \in Slots \ {s} : slot'[r] = slot[r] /\ recovery'[r] = recovery[r]
        /\ gate'.closed = gate.closed /\ call'[c].slot = s /\ s \in Slots
    BY <1>1, <1>2, <1>3, <1>4, <1>7, <2>3
  <2> HIDE DEF s
  <2> QED BY <2>1, <2>2, <2>4, OwnerChanges
<1>10. \A d \in Calls : (Stopping(d) => Stopping(d)') /\ call'[d].slot = call[d].slot
  BY <1>1, <1>2, <1>3 DEF Stopping
<1>11. Stopping(c)'
  BY <1>3 DEF Stopping
<1>12. SlotInv'
  <2>1. ASSUME NEW r \in Slots \ {s}
        PROVE  /\ slot'[r].ready = slot[r].ready /\ slot'[r].recovering = slot[r].recovering
               /\ slot'[r].stopping = slot[r].stopping
    BY <1>4
  <2>2. ASSUME NEW r \in Slots, slot'[r].stopping
        PROVE  \E d \in Calls : call'[d].slot = r /\ Stopping(d)'
    BY <1>3, <1>10, <1>11, <2>1, <2>2 DEF IInv, SlotInv
  <2> QED BY <1>5, <1>7, <2>1, <2>2 DEF IInv, SlotInv
<1>13. PipeInv'
  <2>1. \A d \in Calls : Sent(d) => Sent(d)'
    BY <1>1, <1>2, <1>3 DEF Sent
  <2> QED BY <1>10, <2>1 DEF IInv, PipeInv
<1>14. ClosedInv' /\ ReadyIsWhole'
  BY <1>7 DEF IInv, ClosedInv, ReadyIsWhole
<1>15. DownInv'
  <2>1. \A r \in Slots : slot'[r].proc = slot[r].proc
    BY <1>4, <1>5
  <2> QED BY <1>7, <2>1 DEF IInv, DownInv, CleanShutdownIsEmpty
<1>16. RecoveringIsDecided'
  BY <1>3 DEF RecoveringIsDecided
<1> QED BY <1>6, <1>8, <1>9, <1>12, <1>13, <1>14, <1>15, <1>16 DEF IInv

\* The thread that cancels: the request's own, the client's, the shutdown's.
LEMMA CancelsKeep ==
    ASSUME IInv, NEW c \in Calls, SendFails(c) \/ WaitGivesUp(c) \/ Disconnect(c)
    PROVE  IInv'
<1>t. Typed
  BY TypeOKTyped DEF IInv
<1>c. call[c] \in CallRow
  BY <1>t DEF Typed
<1>1. CASE SendFails(c) \/ WaitGivesUp(c)
  <2>1. Cancels(c) /\ UNCHANGED <<pipe, recovery>> /\ down' = down
    BY <1>1 DEF SendFails, WaitGivesUp, CancelsAndGoes
  <2>2. call' = [call EXCEPT ![c].pc = "ended", ![c].cancelled = TRUE, ![c].stop = "killing"]
    BY <1>1 DEF SendFails, WaitGivesUp, CancelsAndGoes
  <2>3. /\ call' = [call EXCEPT ![c] = call'[c]]
        /\ call'[c] = [call[c] EXCEPT !.pc = "ended", !.cancelled = TRUE, !.stop = "killing"]
    BY <1>t, <2>2 DEF Typed
  <2>4. call[c].pc \in {"sending", "waiting", "received"}
    BY <1>1 DEF SendFails, WaitGivesUp
  <2>5. down' \in DownRow
    BY <1>t, <2>1 DEF Typed
  <2>6. down' = down \/ (down.phase = "first" /\ down'.phase = "first")
    BY <2>1
  <2>7. UNCHANGED <<pipe, recovery>>
    BY <2>1
  <2>8. Cancels(c)
    BY <2>1
  <2> QED BY <2>3, <2>4, <2>5, <2>6, <2>7, <2>8, CancelKeeps
<1>2. CASE Disconnect(c)
  <2>1. Cancels(c) /\ UNCHANGED <<pipe, recovery>> /\ down' = down
    BY <1>2 DEF Disconnect, CancelsAndGoes
  <2>2. call' = [call EXCEPT ![c].pc = call[c].pc, ![c].cancelled = TRUE, ![c].stop = "killing"]
    BY <1>2 DEF Disconnect, CancelsAndGoes
  <2>3. /\ call' = [call EXCEPT ![c] = call'[c]]
        /\ call'[c] = [call[c] EXCEPT !.pc = call[c].pc, !.cancelled = TRUE, !.stop = "killing"]
    BY <1>t, <2>2 DEF Typed
  <2>4. call[c].pc \in {"waiting", "received"}
    BY <1>2 DEF Disconnect
  <2>5. down' \in DownRow
    BY <1>t, <2>1 DEF Typed
  <2>6. down' = down \/ (down.phase = "first" /\ down'.phase = "first")
    BY <2>1
  <2>7. UNCHANGED <<pipe, recovery>>
    BY <2>1
  <2>8. Cancels(c)
    BY <2>1
  <2> QED BY <2>3, <2>4, <2>5, <2>6, <2>7, <2>8, CancelKeeps
<1> QED BY <1>1, <1>2

LEMMA FirstPassCancelsKeeps ==
    ASSUME IInv, NEW s \in Slots, FirstPassCancels(s)
    PROVE  IInv'
<1>t. Typed
  BY TypeOKTyped DEF IInv
<1>1. PICK c \in LiveHandles(s) :
        Cancels(c) /\ call' = [call EXCEPT ![c].cancelled = TRUE, ![c].stop = "killing"]
  BY DEF FirstPassCancels
<1>2. c \in Calls /\ call[c].pc \in {"sending", "waiting", "received"} /\ call[c] \in CallRow
  BY <1>t DEF LiveHandles, Typed
<1>3. /\ call' = [call EXCEPT ![c] = call'[c]]
      /\ call'[c] = [call[c] EXCEPT !.cancelled = TRUE, !.stop = "killing"]
  BY <1>t, <1>1, <1>2 DEF Typed
<1>4. call'[c] = [call[c] EXCEPT !.pc = call[c].pc, !.cancelled = TRUE, !.stop = "killing"]
  BY <1>2, <1>3 DEF CallRow
<1>5. gate.closed
  BY DEF FirstPassCancels, IInv, DownInv
<1>6. down.phase = "first" /\ down'.phase = "first" /\ down' \in DownRow
  BY <1>t DEF FirstPassCancels, Typed, DownRow
<1>7. UNCHANGED <<pipe, recovery>>
  BY DEF FirstPassCancels
<1> QED BY <1>1, <1>2, <1>3, <1>4, <1>5, <1>6, <1>7, CancelKeeps

-----------------------------------------------------------------------------
(* The rest of a cancel.                                                    *)

\* A kill closes and empties the pipe and changes nothing of the others.
LEMMA KillsOne ==
    ASSUME Typed, NEW s \in Slots, NEW gone \in BOOLEAN, Killed(s, gone)
    PROVE  /\ slot' \in [Slots -> SlotRow] /\ pipe' \in [Slots -> PipeRow]
           /\ \A r \in Slots \ {s} : slot'[r] = slot[r] /\ pipe'[r] = pipe[r]
           /\ ~slot'[s].conn /\ ~slot'[s].ready
           /\ slot'[s].busy = slot[s].busy /\ slot'[s].recovering = slot[s].recovering
           /\ slot'[s].stopping = slot[s].stopping
           /\ gone => slot'[s].proc = "none"
           /\ slot[s].proc = "none" => slot'[s].proc = "none"
           /\ pipe'[s].job = None /\ pipe'[s].reply = None
<1>1. /\ slot[s] \in SlotRow /\ pipe'[s] = [job |-> None, reply |-> None]
      /\ slot'[s] = [slot[s] EXCEPT !.proc = IF gone THEN "none" ELSE "stuck", !.conn = FALSE,
                                    !.ready = FALSE]
      /\ \A r \in Slots \ {s} : slot'[r] = slot[r] /\ pipe'[r] = pipe[r]
  BY DEF Killed, Typed
<1>2. slot'[s] \in SlotRow /\ pipe'[s] \in PipeRow
  <2>1. (IF gone THEN "none" ELSE "stuck") \in Procs
    BY DEF Procs
  <2>2. slot'[s] \in SlotRow
    BY <1>1, <2>1 DEF SlotRow
  <2>3. pipe'[s] \in PipeRow
    BY <1>1 DEF PipeRow, MaybeCall
  <2> QED BY <2>2, <2>3
<1>3. slot' \in [Slots -> SlotRow] /\ pipe' \in [Slots -> PipeRow]
  BY <1>1, <1>2 DEF Killed, Typed
<1>4. gone \/ slot[s].proc # "none"
  BY DEF Killed
<1> QED BY <1>1, <1>3, <1>4 DEF SlotRow

\* What is in the pipes stays of the calls that sent, where a pipe is emptied.
LEMMA PipesEmptied ==
    ASSUME IInv, NEW s \in Slots, \A r \in Slots \ {s} : pipe'[r] = pipe[r],
           pipe'[s].job = None, pipe'[s].reply = None,
           \A d \in Calls : /\ call'[d].slot = call[d].slot
                            /\ call[d].slot # s /\ Sent(d) => Sent(d)'
    PROVE  PipeInv'
BY GateAssumption DEF IInv, PipeInv

\* What the shutdown has visited stays empty.
LEMMA EmptyStays ==
    ASSUME IInv, \A s \in Slots : slot[s].proc = "none" => slot'[s].proc = "none",
           gate'.closed = gate.closed, down' = down
    PROVE  DownInv'
BY DEF IInv, DownInv, CleanShutdownIsEmpty

LEMMA CancelKillsKeeps ==
    ASSUME IInv, NEW c \in Calls, NEW gone \in BOOLEAN, CancelKills(c, gone)
    PROVE  IInv'
<1> DEFINE s == call[c].slot
<1>t. Typed /\ LifeOk(c) /\ OwnerOk(c)
  BY TypeOKTyped DEF IInv, CallInv
<1>1. /\ call[c].stop = "killing" /\ call[c].cancelled /\ ~call[c].finished /\ ~call[c].answered
      /\ s \in Slots /\ Owns(c) /\ Stopping(c) /\ call[c].pc \notin {"idle", "taken"}
      /\ ~slot[s].busy /\ ~slot[s].ready /\ slot[s].stopping /\ recovery[s] \in {"none", "up"}
      /\ Killed(s, gone) /\ UNCHANGED <<recovery, gate, down>>
  BY <1>t DEF CancelKills, Owns, Stopping, LifeOk, OwnerOk
<1>2. /\ call'[c] = [call[c] EXCEPT !.stop = IF gone THEN "clean" ELSE "unclean"]
      /\ call[c] \in CallRow /\ \A d \in Calls \ {c} : call'[d] = call[d]
  BY <1>t DEF CancelKills, Typed
<1>3. /\ call'[c].pc = call[c].pc /\ call'[c].slot = s /\ call'[c].stop \in {"clean", "unclean"}
      /\ call'[c].cancelled /\ call'[c].finished = call[c].finished
      /\ call'[c].answered = call[c].answered /\ call'[c] \in CallRow
  BY <1>1, <1>2 DEF CallRow
<1>4. /\ slot' \in [Slots -> SlotRow] /\ pipe' \in [Slots -> PipeRow]
      /\ \A r \in Slots \ {s} : slot'[r] = slot[r] /\ pipe'[r] = pipe[r]
      /\ ~slot'[s].conn /\ ~slot'[s].ready
      /\ slot'[s].busy = slot[s].busy /\ slot'[s].recovering = slot[s].recovering
      /\ slot'[s].stopping = slot[s].stopping
      /\ slot[s].proc = "none" => slot'[s].proc = "none"
      /\ pipe'[s].job = None /\ pipe'[s].reply = None
  <2> HIDE DEF s
  <2> QED BY <1>t, <1>1, KillsOne
<1>5. TypeOK'
  <2>1. call' \in [Calls -> CallRow]
    BY <1>t, <1>3 DEF CancelKills, Typed
  <2> QED BY <1>t, <1>1, <1>4, <2>1, TypeOKTypedAfter DEF Typed
<1>6. PendingCounts'
  <2>1. \A r \in Slots : slot'[r].busy = slot[r].busy
    BY <1>4
  <2> QED BY <1>1, <2>1, CountStands DEF IInv
<1>7. CallInv'
  <2>1. LifeOk(c)'
    BY <1>t, <1>1, <1>3 DEF LifeOk, Stopping
  <2>2. OwnerOk(c)'
    BY <1>t, <1>1, <1>3, <1>4 DEF OwnerOk
  <2>3. \A d \in Calls \ {c} : Owns(d) => call[d].slot # s
    BY <1>1 DEF IInv, CallInv
  <2>4. /\ \A d \in Calls \ {c} : call'[d] = call[d] /\ (Owns(d) => call[d].slot # s)
        /\ \A r \in Slots \ {s} : slot'[r] = slot[r] /\ recovery'[r] = recovery[r]
        /\ gate'.closed = gate.closed /\ call'[c].slot = s /\ s \in Slots
    BY <1>1, <1>2, <1>3, <1>4, <2>3
  <2> HIDE DEF s
  <2> QED BY <2>1, <2>2, <2>4, OwnerChanges
<1>8. \A d \in Calls : (Stopping(d)' <=> Stopping(d)) /\ call'[d].slot = call[d].slot
  BY <1>1, <1>2, <1>3 DEF Stopping
<1>9. SlotInv'
  <2>1. \A r \in Slots : /\ slot'[r].ready => slot[r].ready
                         /\ slot'[r].recovering = slot[r].recovering
                         /\ slot'[r].stopping = slot[r].stopping /\ recovery'[r] = recovery[r]
    BY <1>1, <1>4
  <2> QED BY <1>1, <1>8, <2>1 DEF IInv, SlotInv
<1>10. PipeInv'
  <2>1. \A d \in Calls : /\ call'[d].slot = call[d].slot
                         /\ call[d].slot # s /\ Sent(d) => Sent(d)'
    BY <1>2, <1>8 DEF Sent
  <2> HIDE DEF s
  <2> QED BY <1>1, <1>4, <2>1, PipesEmptied
<1>11. ClosedInv' /\ ReadyIsWhole'
  BY <1>1 DEF IInv, ClosedInv, ReadyIsWhole
<1>12. DownInv'
  <2>1. \A r \in Slots : slot[r].proc = "none" => slot'[r].proc = "none"
    BY <1>4
  <2> QED BY <1>1, <2>1, EmptyStays
<1>13. RecoveringIsDecided'
  BY <1>3 DEF RecoveringIsDecided
<1> QED BY <1>5, <1>6, <1>7, <1>9, <1>10, <1>11, <1>12, <1>13 DEF IInv

\* After its kill a cancel goes on or ends, and lets the slot go when it ends.
LEMMA CancelMoves ==
    ASSUME IInv, NEW c \in Calls, call[c].stop \in {"clean", "unclean", "recover"},
           NEW s \in Slots, s = call[c].slot,
           NEW stop \in {"recover", "done"}, call' = [call EXCEPT ![c].stop = stop],
           UNCHANGED <<pipe, down>>, gate' \in GateRow, gate'.closed = gate.closed,
           gate'.pending = gate.pending, slot' \in [Slots -> SlotRow],
           recovery' \in [Slots -> Threads \cup {"none", "owed", "sealing"}],
           \A r \in Slots \ {s} : slot'[r] = slot[r] /\ recovery'[r] = recovery[r],
           slot'[s].busy = slot[s].busy, slot'[s].proc = slot[s].proc,
           slot'[s].conn = slot[s].conn, ~slot'[s].ready, slot'[s].stopping <=> stop = "recover",
           \/ recovery'[s] \in {"none", "up"}
           \/ ~gate.closed /\ stop = "done",
           slot'[s].recovering /\ ~gate.closed => recovery'[s] # "none"
    PROVE  TypeOK' /\ PendingCounts' /\ SlotInv' /\ CallInv' /\ PipeInv' /\ DownInv'
<1>t. Typed /\ LifeOk(c) /\ OwnerOk(c)
  BY TypeOKTyped DEF IInv, CallInv
<1>1. /\ call[c].cancelled /\ ~call[c].finished /\ ~call[c].answered
      /\ Owns(c) /\ Stopping(c) /\ call[c].pc \notin {"idle", "taken"} /\ ~slot[s].busy /\ ~Sent(c)
      /\ call[c].pc = "sending" => gate.closed /\ ~slot[s].conn
  BY <1>t DEF Owns, Stopping, Sent, LifeOk, OwnerOk
<1>2. /\ call'[c] = [call[c] EXCEPT !.stop = stop]
      /\ call[c] \in CallRow /\ \A d \in Calls \ {c} : call'[d] = call[d]
  BY <1>t DEF Typed
<1>3. /\ call'[c].pc = call[c].pc /\ call'[c].slot = s /\ call'[c].stop = stop
      /\ call'[c].cancelled /\ call'[c].finished = call[c].finished
      /\ call'[c].answered = call[c].answered /\ call'[c] \in CallRow
  BY <1>1, <1>2 DEF CallRow
<1>4. TypeOK'
  <2>1. call' \in [Calls -> CallRow]
    BY <1>t, <1>3 DEF Typed
  <2> QED BY <1>t, <2>1, TypeOKTypedAfter DEF Typed
<1>5. PendingCounts'
  <2>1. \A r \in Slots : slot'[r].busy = slot[r].busy
    OBVIOUS
  <2> QED BY <2>1, CountStands DEF IInv
<1>6. CallInv'
  <2>1. LifeOk(c)'
    BY <1>t, <1>1, <1>3 DEF LifeOk, Stopping
  <2>2. OwnerOk(c)'
    BY <1>1, <1>3 DEF OwnerOk, Owns, Stopping
  <2>3. \A d \in Calls \ {c} : Owns(d) => call[d].slot # s
    BY <1>1 DEF IInv, CallInv
  <2> QED BY <1>2, <1>3, <2>1, <2>2, <2>3, OwnerChanges
<1>7. \A d \in Calls \ {c} : (Stopping(d)' <=> Stopping(d)) /\ call'[d].slot = call[d].slot
  BY <1>2 DEF Stopping
<1>8. SlotInv'
  <2>1. ASSUME NEW r \in Slots \ {s}, slot'[r].stopping
        PROVE  \E d \in Calls : call'[d].slot = r /\ Stopping(d)'
    <3>1. PICK d \in Calls : call[d].slot = r /\ Stopping(d)
      BY <2>1 DEF IInv, SlotInv
    <3>2. d # c
      BY <3>1
    <3> QED BY <1>7, <3>1, <3>2
  <2>2. slot'[s].stopping => call'[c].slot = s /\ Stopping(c)'
    BY <1>3 DEF Stopping
  <2>3. \A r \in Slots \ {s} : /\ slot'[r].ready = slot[r].ready /\ recovery'[r] = recovery[r]
                               /\ slot'[r].recovering = slot[r].recovering
    OBVIOUS
  <2> QED BY <2>1, <2>2, <2>3 DEF IInv, SlotInv
<1>9. PipeInv'
  <2>1. \A d \in Calls : call'[d].slot = call[d].slot /\ (Sent(d) => Sent(d)')
    BY <1>1, <1>2, <1>3 DEF Sent
  <2> QED BY <2>1 DEF IInv, PipeInv
<1>10. DownInv'
  <2>1. \A r \in Slots : slot[r].proc = "none" => slot'[r].proc = "none"
    OBVIOUS
  <2> QED BY <2>1, EmptyStays
<1> QED BY <1>4, <1>5, <1>6, <1>8, <1>9, <1>10

LEMMA CancelEndsKeep ==
    ASSUME IInv, NEW c \in Calls, CancelEndsClosed(c) \/ CancelDecides(c) \/ CancelFails(c) \/ BeginRecovery(c)
    PROVE  IInv'
<1>t. Typed /\ LifeOk(c) /\ OwnerOk(c)
  BY TypeOKTyped DEF IInv, CallInv
<1>0. PICK s \in Slots : s = call[c].slot
  BY <1>t DEF LifeOk, Stopping, CancelEndsClosed, CancelDecides, CancelFails, BeginRecovery
<1>1. /\ call[c].cancelled /\ Owns(c) /\ Stopping(c) /\ ~slot[s].ready /\ slot[s].stopping
      /\ recovery[s] \in {"none", "up"} /\ slot[s] \in SlotRow
      /\ slot[s].recovering /\ ~gate.closed => recovery[s] # "none"
  BY <1>t, <1>0 DEF IInv, SlotInv, Typed, LifeOk, OwnerOk, Owns, Stopping,
                    CancelEndsClosed, CancelDecides, CancelFails, BeginRecovery
<1>2. gate.status # "ready" /\ (gate.closed => gate.status # "recovering")
  BY <1>1 DEF IInv, ReadyIsWhole, ClosedInv
<1>3. CASE CancelEndsClosed(c)
  <2>1. /\ slot'[s] = [slot[s] EXCEPT !.stopping = FALSE] /\ \A r \in Slots \ {s} : slot'[r] = slot[r]
        /\ gate' = gate /\ gate.closed /\ UNCHANGED <<pipe, recovery, down>>
        /\ call' = [call EXCEPT ![c].stop = "done"] /\ call[c].stop \in {"clean", "unclean"}
    BY <1>t, <1>0, <1>3 DEF CancelEndsClosed, Typed
  <2>2. /\ slot'[s].busy = slot[s].busy /\ slot'[s].proc = slot[s].proc /\ slot'[s].conn = slot[s].conn
        /\ ~slot'[s].ready /\ ~slot'[s].stopping /\ slot'[s].recovering = slot[s].recovering
        /\ slot'[s] \in SlotRow
    BY <1>1, <2>1 DEF SlotRow
  <2>3. slot' \in [Slots -> SlotRow] /\ gate' \in GateRow
    BY <1>t, <1>0, <1>3, <2>1, <2>2 DEF CancelEndsClosed, Typed
  <2>4. TypeOK' /\ PendingCounts' /\ SlotInv' /\ CallInv' /\ PipeInv' /\ DownInv'
    BY <1>t, <1>0, <1>1, <2>1, <2>2, <2>3, CancelMoves DEF Typed
  <2>5. ClosedInv' /\ ReadyIsWhole' /\ RecoveringIsDecided'
    BY <1>2, <2>1 DEF ClosedInv, ReadyIsWhole, RecoveringIsDecided
  <2> QED BY <2>4, <2>5 DEF IInv
<1>4. CASE CancelDecides(c)
  <2>1. /\ UNCHANGED <<slot, pipe, recovery, gate, down>> /\ ~gate.closed
        /\ call' = [call EXCEPT ![c].stop = "recover"] /\ call[c].stop = "clean"
    BY <1>4 DEF CancelDecides
  <2>2. TypeOK' /\ PendingCounts' /\ SlotInv' /\ CallInv' /\ PipeInv' /\ DownInv'
    BY <1>t, <1>0, <1>1, <2>1, CancelMoves DEF Typed
  <2>3. call'[c].stop = "recover"
    BY <1>t, <2>1 DEF Typed, CallRow
  <2>4. ClosedInv' /\ ReadyIsWhole' /\ RecoveringIsDecided'
    BY <1>2, <2>1, <2>3 DEF ClosedInv, ReadyIsWhole, RecoveringIsDecided
  <2> QED BY <2>2, <2>4 DEF IInv
<1>5. CASE CancelFails(c)
  <2>1. /\ slot'[s] = [slot[s] EXCEPT !.ready = FALSE, !.recovering = FALSE, !.stopping = FALSE]
        /\ \A r \in Slots \ {s} : slot'[r] = slot[r]
        /\ gate' = [gate EXCEPT !.status = "failed"] /\ ~gate.closed
        /\ UNCHANGED <<pipe, recovery, down>>
        /\ call' = [call EXCEPT ![c].stop = "done"] /\ call[c].stop = "unclean"
    BY <1>t, <1>0, <1>5 DEF CancelFails, Typed
  <2>2. /\ slot'[s].busy = slot[s].busy /\ slot'[s].proc = slot[s].proc /\ slot'[s].conn = slot[s].conn
        /\ ~slot'[s].ready /\ ~slot'[s].stopping /\ ~slot'[s].recovering
        /\ slot'[s] \in SlotRow
    BY <1>1, <2>1 DEF SlotRow
  <2>3. /\ gate' \in GateRow /\ gate'.closed = gate.closed /\ gate'.pending = gate.pending
        /\ gate'.status = "failed"
    BY <1>t, <2>1 DEF Typed, GateRow
  <2>4. slot' \in [Slots -> SlotRow]
    BY <1>t, <1>0, <1>5, <2>1, <2>2 DEF CancelFails, Typed
  <2>5. TypeOK' /\ PendingCounts' /\ SlotInv' /\ CallInv' /\ PipeInv' /\ DownInv'
    BY <1>t, <1>0, <1>1, <2>1, <2>2, <2>3, <2>4, CancelMoves DEF Typed
  <2>6. ClosedInv' /\ ReadyIsWhole' /\ RecoveringIsDecided'
    BY <2>3 DEF ClosedInv, ReadyIsWhole, RecoveringIsDecided
  <2> QED BY <2>5, <2>6 DEF IInv
<1>6. CASE BeginRecovery(c)
  <2> DEFINE begins == ~gate.closed /\ ~slot[s].recovering
  <2>1. /\ slot'[s] = [slot[s] EXCEPT !.stopping = FALSE, !.recovering = @ \/ begins]
        /\ \A r \in Slots \ {s} : slot'[r] = slot[r]
        /\ recovery' = IF begins THEN [recovery EXCEPT ![s] = "owed"] ELSE recovery
        /\ UNCHANGED <<pipe, down>>
        /\ call' = [call EXCEPT ![c].stop = "done"] /\ call[c].stop = "recover"
    BY <1>t, <1>0, <1>6 DEF BeginRecovery, Typed
  <2>2. /\ slot'[s].busy = slot[s].busy /\ slot'[s].proc = slot[s].proc /\ slot'[s].conn = slot[s].conn
        /\ ~slot'[s].ready /\ ~slot'[s].stopping /\ (slot'[s].recovering <=> slot[s].recovering \/ begins)
        /\ slot'[s] \in SlotRow
    BY <1>1, <2>1 DEF SlotRow
  <2>3. /\ gate' \in GateRow /\ gate'.closed = gate.closed /\ gate'.pending = gate.pending
        /\ gate.closed => gate'.status = "stopped"
        /\ gate'.status \in {"stopped", "recovering", gate.status}
    BY <1>t, <1>6 DEF BeginRecovery, Typed, GateRow
  <2>4. slot' \in [Slots -> SlotRow]
    BY <1>t, <1>0, <1>6, <2>1, <2>2 DEF BeginRecovery, Typed
  <2>5. /\ recovery' \in [Slots -> Threads \cup {"none", "owed", "sealing"}]
        /\ \A r \in Slots \ {s} : recovery'[r] = recovery[r]
        /\ recovery'[s] = IF begins THEN "owed" ELSE recovery[s]
    BY <1>t, <2>1 DEF Typed
  <2>6. /\ recovery'[s] \in {"none", "up"} \/ ~gate.closed
        /\ ~gate.closed => recovery'[s] # "none"
    BY <1>1, <2>5
  <2>7. TypeOK' /\ PendingCounts' /\ SlotInv' /\ CallInv' /\ PipeInv' /\ DownInv'
    <3> HIDE DEF begins
    <3> QED BY <1>0, <2>1, <2>2, <2>3, <2>4, <2>5, <2>6, CancelMoves
  <2>8. ClosedInv' /\ ReadyIsWhole'
    BY <1>2, <2>3 DEF ClosedInv, ReadyIsWhole
  <2>9. RecoveringIsDecided'
    BY <2>3, <2>6 DEF RecoveringIsDecided
  <2> QED BY <2>7, <2>8, <2>9 DEF IInv
<1> QED BY <1>3, <1>4, <1>5, <1>6

-----------------------------------------------------------------------------
(* Steps that change no call: recoveries, workers, the shutdown.            *)

\* A slot that is held may lose its pipe and not be ready any more, and its
\* recovery may end; the others may change in every way.
LEMMA CallsStand ==
    ASSUME IInv, call' = call, slot' \in [Slots -> SlotRow], pipe' \in [Slots -> PipeRow],
           recovery' \in [Slots -> Threads \cup {"none", "owed", "sealing"}],
           gate' \in GateRow, down' \in DownRow,
           gate.closed => gate'.closed, gate'.pending = gate.pending,
           \A s \in Slots :
               /\ slot'[s].busy = slot[s].busy /\ slot'[s].stopping = slot[s].stopping
               /\ Held(s) => /\ slot'[s].ready => slot[s].ready
                             /\ slot'[s].conn => slot[s].conn
                             /\ recovery'[s] \in {"none", "up"}
               /\ recovery'[s] \notin {"none", "up"} => ~slot'[s].ready
               /\ slot'[s].recovering /\ ~gate'.closed => recovery'[s] # "none",
           \A s \in Slots :
               /\ pipe'[s].job = None \/ pipe'[s].reply = None
               /\ pipe'[s].job \in {pipe[s].job, None}
               /\ pipe'[s].reply \in {pipe[s].job, pipe[s].reply, None}
    PROVE  TypeOK' /\ PendingCounts' /\ SlotInv' /\ CallInv' /\ PipeInv'
<1>t. Typed
  BY TypeOKTyped DEF IInv
<1>1. TypeOK'
  BY <1>t, TypeOKTypedAfter DEF Typed
<1>2. PendingCounts'
  BY CountStands DEF IInv
<1>3. \A c \in Calls : /\ LifeOk(c)' <=> LifeOk(c)
                       /\ Stopping(c)' <=> Stopping(c)
                       /\ Owns(c)' <=> Owns(c)
                       /\ Sent(c)' <=> Sent(c)
  BY DEF LifeOk, Stopping, Owns, Sent
<1>4. SlotInv'
  <2>1. \A s \in Slots : slot[s].stopping => \E c \in Calls : call[c].slot = s /\ Stopping(c)
    BY DEF IInv, SlotInv
  <2>2. \A s \in Slots : slot'[s].stopping => \E c \in Calls : call'[c].slot = s /\ Stopping(c)'
    BY <1>3, <2>1
  <2> QED BY <2>2 DEF SlotInv
<1>5. CallInv'
  <2>1. ASSUME NEW c \in Calls PROVE OwnerOk(c)'
    <3>1. CASE ~Owns(c)
      BY <1>3, <3>1 DEF OwnerOk
    <3>2. CASE Owns(c)
      <4>1. OwnerOk(c) /\ LifeOk(c)
        BY DEF IInv, CallInv
      <4>2. PICK s \in Slots : s = call[c].slot
        BY <3>2, <4>1 DEF LifeOk, Owns, Stopping
      <4>3. Held(s)
        BY <3>2, <4>2 DEF Held
      <4>4. /\ slot'[s].busy = slot[s].busy /\ slot'[s].stopping = slot[s].stopping
            /\ slot'[s].ready => slot[s].ready
            /\ slot'[s].conn => slot[s].conn
            /\ recovery'[s] \in {"none", "up"}
        BY <4>3
      <4> QED BY <1>3, <3>2, <4>1, <4>2, <4>4 DEF OwnerOk
    <3> QED BY <3>1, <3>2
  <2>2. \A c, d \in Calls : (Owns(c) /\ Owns(d) /\ call[c].slot = call[d].slot)' => c = d
    BY <1>3 DEF IInv, CallInv
  <2> QED BY <1>3, <2>1, <2>2 DEF IInv, CallInv
<1>6. PipeInv'
  <2>1. ASSUME NEW s \in Slots, NEW c \in Calls, c = pipe'[s].job \/ c = pipe'[s].reply
        PROVE  call'[c].slot = s /\ Sent(c)'
    <3>1. c = pipe[s].job \/ c = pipe[s].reply
      BY <2>1, GateAssumption
    <3> QED BY <1>3, <3>1 DEF IInv, PipeInv
  <2> QED BY <2>1 DEF PipeInv
<1> QED BY <1>1, <1>2, <1>4, <1>5, <1>6

\* The same where one slot changes that nobody holds.
LEMMA RecoveryMoves ==
    ASSUME IInv, NEW s \in Slots, ~Held(s), UNCHANGED <<call, down>>,
           slot' \in [Slots -> SlotRow], pipe' \in [Slots -> PipeRow],
           recovery' \in [Slots -> Threads \cup {"none", "owed", "sealing"}],
           gate' \in GateRow, gate'.closed = gate.closed, gate'.pending = gate.pending,
           \A r \in Slots \ {s} : slot'[r] = slot[r] /\ pipe'[r] = pipe[r] /\ recovery'[r] = recovery[r],
           slot'[s].busy = slot[s].busy, slot'[s].stopping = slot[s].stopping,
           recovery'[s] \notin {"none", "up"} => ~slot'[s].ready,
           slot'[s].recovering /\ ~gate.closed => recovery'[s] # "none",
           pipe'[s] = pipe[s] \/ (pipe'[s].job = None /\ pipe'[s].reply = None),
           gate.closed => (slot[s].proc = "none" => slot'[s].proc = "none")
    PROVE  TypeOK' /\ PendingCounts' /\ SlotInv' /\ CallInv' /\ PipeInv' /\ DownInv'
<1>t. Typed
  BY TypeOKTyped DEF IInv
<1>1. \A r \in Slots :
         /\ slot'[r].busy = slot[r].busy /\ slot'[r].stopping = slot[r].stopping
         /\ Held(r) => /\ slot'[r].ready => slot[r].ready
                       /\ slot'[r].conn => slot[r].conn
                       /\ recovery'[r] \in {"none", "up"}
         /\ recovery'[r] \notin {"none", "up"} => ~slot'[r].ready
         /\ slot'[r].recovering /\ ~gate'.closed => recovery'[r] # "none"
  BY DEF IInv, SlotInv, CallInv, OwnerOk, Held
<1>2. \A r \in Slots :
         /\ pipe'[r].job = None \/ pipe'[r].reply = None
         /\ pipe'[r].job \in {pipe[r].job, None}
         /\ pipe'[r].reply \in {pipe[r].job, pipe[r].reply, None}
  BY DEF IInv, PipeInv
<1>3. TypeOK' /\ PendingCounts' /\ SlotInv' /\ CallInv' /\ PipeInv'
  BY <1>t, <1>1, <1>2, CallsStand DEF Typed
<1>4. DownInv'
  <2>1. CASE gate.closed
    BY <2>1, EmptyStays
  <2>2. CASE ~gate.closed
    BY <2>2 DEF IInv, DownInv, CleanShutdownIsEmpty
  <2> QED BY <2>1, <2>2
<1> QED BY <1>3, <1>4

LEMMA ClaimDeadKeeps ==
    ASSUME IInv, NEW s \in Slots, ClaimDead(s)
    PROVE  IInv'
<1>t. Typed
  BY TypeOKTyped DEF IInv
<1>1. /\ ~gate.closed /\ ~slot[s].recovering /\ slot[s].proc = "dead" /\ slot[s] \in SlotRow /\ ~Held(s)
      /\ UNCHANGED <<pipe, call, down>>
  BY <1>t, NobodyHolds DEF ClaimDead, Typed
<1>2. /\ slot' = [slot EXCEPT ![s] = slot'[s]] /\ slot'[s] \in SlotRow
      /\ slot'[s].busy = slot[s].busy /\ slot'[s].stopping = slot[s].stopping
      /\ ~slot'[s].ready /\ slot'[s].proc = "dead"
  <2>1. CASE slot[s].failures >= 1
    <3>1. slot' = [slot EXCEPT ![s] = [slot[s] EXCEPT !.ready = FALSE]]
      BY <1>t, <2>1 DEF ClaimDead, Typed
    <3> QED BY <1>t, <1>1, <3>1 DEF Typed, SlotRow
  <2>2. CASE ~(slot[s].failures >= 1)
    <3>1. slot' = [slot EXCEPT ![s] = [slot[s] EXCEPT !.ready = FALSE, !.recovering = TRUE,
                                                      !.failures = slot[s].failures + 1]]
      BY <1>t, <2>2 DEF ClaimDead, Typed
    <3>2. slot'[s] = [slot[s] EXCEPT !.ready = FALSE, !.recovering = TRUE,
                                     !.failures = slot[s].failures + 1]
      BY <1>t, <3>1 DEF Typed
    <3>3. slot[s].failures + 1 \in 0 .. 1
      BY <1>1, <2>2 DEF SlotRow
    <3>4. slot'[s] \in SlotRow
      BY <1>1, <3>2, <3>3 DEF SlotRow
    <3> QED BY <1>t, <1>1, <3>1, <3>2, <3>4 DEF Typed, SlotRow
  <2> QED BY <2>1, <2>2
<1>3. recovery' = [recovery EXCEPT ![s] = recovery'[s]] /\ recovery'[s] \in {"sealing", "owed"}
  BY <1>t DEF ClaimDead, Typed
<1>4. /\ gate' \in GateRow /\ gate'.closed = gate.closed /\ gate'.pending = gate.pending
      /\ gate'.status \in {"failed", "recovering"}
  BY <1>t DEF ClaimDead, Typed, GateRow
<1>5. /\ slot' \in [Slots -> SlotRow] /\ pipe' \in [Slots -> PipeRow]
      /\ recovery' \in [Slots -> Threads \cup {"none", "owed", "sealing"}]
      /\ \A r \in Slots \ {s} : slot'[r] = slot[r] /\ pipe'[r] = pipe[r] /\ recovery'[r] = recovery[r]
  BY <1>t, <1>1, <1>2, <1>3 DEF Typed
<1>6. TypeOK' /\ PendingCounts' /\ SlotInv' /\ CallInv' /\ PipeInv' /\ DownInv'
  BY <1>1, <1>2, <1>3, <1>4, <1>5, RecoveryMoves
<1>7. ClosedInv' /\ ReadyIsWhole' /\ RecoveringIsDecided'
  BY <1>1, <1>3, <1>4 DEF ClosedInv, ReadyIsWhole, RecoveringIsDecided
<1> QED BY <1>6, <1>7 DEF IInv

\* A recovery that gives the slot up.
LEMMA GivenUp ==
    ASSUME IInv, NEW s \in Slots, NEW gone \in BOOLEAN, KilledAndFailed(s, gone),
           recovery[s] \notin {"none", "up"},
           gate' = [gate EXCEPT !.status = "failed"] \/ (gate' = gate /\ gate.closed)
    PROVE  IInv'
<1>t. Typed
  BY TypeOKTyped DEF IInv
<1>1. slot[s] \in SlotRow /\ ~Held(s) /\ UNCHANGED <<call, down>>
  BY <1>t, NobodyHolds DEF KilledAndFailed, Typed
<1>2. /\ slot'[s] = [slot[s] EXCEPT !.proc = IF gone THEN "none" ELSE "stuck", !.conn = FALSE,
                                    !.ready = FALSE, !.recovering = FALSE]
      /\ slot' = [slot EXCEPT ![s] = slot'[s]]
      /\ pipe'[s] = [job |-> None, reply |-> None] /\ pipe' = [pipe EXCEPT ![s] = pipe'[s]]
      /\ recovery'[s] = "none" /\ recovery' = [recovery EXCEPT ![s] = "none"]
      /\ gone \/ slot[s].proc # "none"
  BY <1>t DEF KilledAndFailed, Typed
<1>3. /\ slot'[s] \in SlotRow /\ slot'[s].busy = slot[s].busy /\ slot'[s].stopping = slot[s].stopping
      /\ ~slot'[s].recovering
      /\ slot[s].proc = "none" => slot'[s].proc = "none"
  <2>1. (IF gone THEN "none" ELSE "stuck") \in Procs
    BY DEF Procs
  <2> QED BY <1>1, <1>2, <2>1 DEF SlotRow
<1>4. pipe'[s] \in PipeRow /\ pipe'[s].job = None /\ pipe'[s].reply = None
  BY <1>2 DEF PipeRow, MaybeCall
<1>5. /\ gate' \in GateRow /\ gate'.closed = gate.closed /\ gate'.pending = gate.pending
      /\ gate'.status \notin {"ready", "recovering"}
  BY <1>t DEF Typed, GateRow, IInv, ClosedInv
<1>6. /\ slot' \in [Slots -> SlotRow] /\ pipe' \in [Slots -> PipeRow]
      /\ recovery' \in [Slots -> Threads \cup {"none", "owed", "sealing"}]
      /\ \A r \in Slots \ {s} : slot'[r] = slot[r] /\ pipe'[r] = pipe[r] /\ recovery'[r] = recovery[r]
  BY <1>t, <1>2, <1>3, <1>4 DEF Typed
<1>7. TypeOK' /\ PendingCounts' /\ SlotInv' /\ CallInv' /\ PipeInv' /\ DownInv'
  BY <1>1, <1>2, <1>3, <1>4, <1>5, <1>6, RecoveryMoves
<1>8. ClosedInv' /\ ReadyIsWhole' /\ RecoveringIsDecided'
  BY <1>5 DEF ClosedInv, ReadyIsWhole, RecoveringIsDecided
<1> QED BY <1>7, <1>8 DEF IInv

LEMMA GivenUpKeeps ==
    ASSUME IInv, NEW s \in Slots,
           \/ \E gone \in BOOLEAN : Seal(s, gone) \/ BootFails(s, gone)
           \/ RecoveryCannotClear(s)
    PROVE  IInv'
<1>1. CASE RecoveryCannotClear(s)
  <2>1. recovery[s] \notin {"none", "up"} /\ KilledAndFailed(s, FALSE)
    BY <1>1 DEF RecoveryCannotClear
  <2>2. gate' = [gate EXCEPT !.status = "failed"] \/ (gate' = gate /\ gate.closed)
    BY <1>1 DEF RecoveryCannotClear, StatusUnlessClosed
  <2> QED BY <2>1, <2>2, GivenUp
<1>2. ASSUME NEW gone \in BOOLEAN, Seal(s, gone) \/ BootFails(s, gone) PROVE IInv'
  <2>1. recovery[s] \notin {"none", "up"} /\ KilledAndFailed(s, gone)
    BY <1>2 DEF Seal, BootFails
  <2>2. gate' = [gate EXCEPT !.status = "failed"] \/ (gate' = gate /\ gate.closed)
    BY <1>2 DEF Seal, BootFails, StatusUnlessClosed
  <2> QED BY <2>1, <2>2, GivenUp
<1> QED BY <1>1, <1>2

\* A recovery thread on its way.
LEMMA RecoveryKeeps ==
    ASSUME IInv, NEW s \in Slots,
           \/ Launch(s) \/ RecoveryFindsClosed(s) \/ RecoveryClears(s)
           \/ Spawn(s) \/ SpawnFails(s) \/ Boots(s)
    PROVE  IInv'
<1>t. Typed
  BY TypeOKTyped DEF IInv
<1>1. /\ recovery[s] \in {"owed", "started", "clear", "spawned"} /\ ~slot[s].ready /\ ~Held(s)
      /\ UNCHANGED <<call, down>> /\ slot[s] \in SlotRow
      /\ gate.closed => gate.status \notin {"ready", "recovering"}
      /\ gate.status # "ready"
  <2>1. recovery[s] \in {"owed", "started", "clear", "spawned"} /\ UNCHANGED <<call, down>>
    BY DEF Launch, RecoveryFindsClosed, RecoveryClears, Spawn, SpawnFails, Boots
  <2>2. ~slot[s].ready /\ slot[s] \in SlotRow
    BY <1>t, <2>1 DEF IInv, SlotInv, Typed
  <2> QED BY <2>1, <2>2, NobodyHolds DEF IInv, ClosedInv, ReadyIsWhole
<1>2. CASE Launch(s) \/ RecoveryFindsClosed(s)
  <2>1. /\ UNCHANGED <<slot, pipe, gate>> /\ recovery' = [recovery EXCEPT ![s] = recovery'[s]]
        /\ recovery'[s] \in {"none", "started"}
        /\ ~gate.closed => recovery'[s] # "none"
    BY <1>t, <1>2 DEF Launch, RecoveryFindsClosed, Typed
  <2>2. /\ recovery' \in [Slots -> Threads \cup {"none", "owed", "sealing"}]
        /\ \A r \in Slots \ {s} : recovery'[r] = recovery[r]
    BY <1>t, <2>1 DEF Typed, Threads
  <2>3. TypeOK' /\ PendingCounts' /\ SlotInv' /\ CallInv' /\ PipeInv' /\ DownInv'
    BY <1>t, <1>1, <2>1, <2>2, RecoveryMoves DEF Typed
  <2>4. ClosedInv' /\ ReadyIsWhole' /\ RecoveringIsDecided'
    BY <1>1, <2>1 DEF ClosedInv, ReadyIsWhole, RecoveringIsDecided
  <2> QED BY <2>3, <2>4 DEF IInv
<1>3. CASE RecoveryClears(s)
  <2>1. /\ Killed(s, TRUE) /\ recovery' = [recovery EXCEPT ![s] = "clear"] /\ gate' = gate
    BY <1>3 DEF RecoveryClears
  <2>2. /\ slot' \in [Slots -> SlotRow] /\ pipe' \in [Slots -> PipeRow]
        /\ \A r \in Slots \ {s} : slot'[r] = slot[r] /\ pipe'[r] = pipe[r]
        /\ ~slot'[s].ready /\ slot'[s].busy = slot[s].busy
        /\ slot'[s].stopping = slot[s].stopping
        /\ slot[s].proc = "none" => slot'[s].proc = "none"
        /\ pipe'[s].job = None /\ pipe'[s].reply = None
    BY <1>t, <2>1, KillsOne
  <2>3. /\ recovery' \in [Slots -> Threads \cup {"none", "owed", "sealing"}] /\ recovery'[s] = "clear"
        /\ \A r \in Slots \ {s} : recovery'[r] = recovery[r]
    BY <1>t, <2>1 DEF Typed, Threads
  <2>4. TypeOK' /\ PendingCounts' /\ SlotInv' /\ CallInv' /\ PipeInv' /\ DownInv'
    BY <1>t, <1>1, <2>1, <2>2, <2>3, RecoveryMoves DEF Typed
  <2>5. ClosedInv' /\ ReadyIsWhole' /\ RecoveringIsDecided'
    BY <1>1, <2>1, <2>3 DEF ClosedInv, ReadyIsWhole, RecoveringIsDecided
  <2> QED BY <2>4, <2>5 DEF IInv
<1>4. CASE Spawn(s)
  <2>1. /\ slot'[s] = [slot[s] EXCEPT !.proc = "booting", !.conn = TRUE, !.ready = FALSE]
        /\ slot' = [slot EXCEPT ![s] = slot'[s]]
        /\ pipe'[s] = [job |-> None, reply |-> None] /\ pipe' = [pipe EXCEPT ![s] = pipe'[s]]
        /\ recovery' = [recovery EXCEPT ![s] = "spawned"] /\ gate' = gate /\ ~gate.closed
    BY <1>t, <1>4 DEF Spawn, Typed
  <2>2. /\ slot'[s] \in SlotRow /\ slot'[s].busy = slot[s].busy /\ ~slot'[s].ready
        /\ slot'[s].stopping = slot[s].stopping
    BY <1>1, <2>1 DEF SlotRow, Procs
  <2>3. pipe'[s] \in PipeRow /\ pipe'[s].job = None /\ pipe'[s].reply = None
    BY <2>1 DEF PipeRow, MaybeCall
  <2>4. /\ slot' \in [Slots -> SlotRow] /\ pipe' \in [Slots -> PipeRow]
        /\ recovery' \in [Slots -> Threads \cup {"none", "owed", "sealing"}] /\ recovery'[s] = "spawned"
        /\ \A r \in Slots \ {s} : slot'[r] = slot[r] /\ pipe'[r] = pipe[r] /\ recovery'[r] = recovery[r]
    BY <1>t, <2>1, <2>2, <2>3 DEF Typed, Threads
  <2>5. TypeOK' /\ PendingCounts' /\ SlotInv' /\ CallInv' /\ PipeInv' /\ DownInv'
    BY <1>t, <1>1, <2>1, <2>2, <2>3, <2>4, RecoveryMoves DEF Typed
  <2>6. ClosedInv' /\ ReadyIsWhole' /\ RecoveringIsDecided'
    BY <1>1, <2>1, <2>4 DEF ClosedInv, ReadyIsWhole, RecoveringIsDecided
  <2> QED BY <2>5, <2>6 DEF IInv
<1>5. CASE SpawnFails(s)
  <2>1. /\ slot'[s] = [slot[s] EXCEPT !.ready = FALSE, !.recovering = FALSE]
        /\ slot' = [slot EXCEPT ![s] = slot'[s]] /\ pipe' = pipe
        /\ recovery' = [recovery EXCEPT ![s] = "none"]
        /\ gate' = [gate EXCEPT !.status = "failed"] \/ (gate' = gate /\ gate.closed)
    BY <1>t, <1>5 DEF SpawnFails, StatusUnlessClosed, Typed
  <2>2. /\ slot'[s] \in SlotRow /\ slot'[s].busy = slot[s].busy /\ ~slot'[s].ready
        /\ slot'[s].stopping = slot[s].stopping /\ ~slot'[s].recovering
        /\ slot'[s].proc = slot[s].proc
    BY <1>1, <2>1 DEF SlotRow
  <2>3. /\ slot' \in [Slots -> SlotRow]
        /\ recovery' \in [Slots -> Threads \cup {"none", "owed", "sealing"}] /\ recovery'[s] = "none"
        /\ \A r \in Slots \ {s} : slot'[r] = slot[r] /\ pipe'[r] = pipe[r] /\ recovery'[r] = recovery[r]
    BY <1>t, <2>1, <2>2 DEF Typed
  <2>4. /\ gate' \in GateRow /\ gate'.closed = gate.closed /\ gate'.pending = gate.pending
        /\ gate'.status \notin {"ready", "recovering"}
    BY <1>t, <1>1, <2>1 DEF Typed, GateRow
  <2>5. TypeOK' /\ PendingCounts' /\ SlotInv' /\ CallInv' /\ PipeInv' /\ DownInv'
    BY <1>t, <1>1, <2>1, <2>2, <2>3, <2>4, RecoveryMoves DEF Typed
  <2>6. ClosedInv' /\ ReadyIsWhole' /\ RecoveringIsDecided'
    BY <2>4 DEF ClosedInv, ReadyIsWhole, RecoveringIsDecided
  <2> QED BY <2>5, <2>6 DEF IInv
<1>6. CASE Boots(s)
  <2>1. /\ slot'[s] = [slot[s] EXCEPT !.proc = "up", !.ready = TRUE] /\ slot[s].proc = "booting"
        /\ slot' = [slot EXCEPT ![s] = slot'[s]] /\ UNCHANGED <<pipe, gate>>
        /\ recovery' = [recovery EXCEPT ![s] = "up"]
    BY <1>t, <1>6 DEF Boots, Typed
  <2>2. /\ slot'[s] \in SlotRow /\ slot'[s].busy = slot[s].busy
        /\ slot'[s].stopping = slot[s].stopping
    BY <1>1, <2>1 DEF SlotRow, Procs
  <2>3. /\ slot' \in [Slots -> SlotRow]
        /\ recovery' \in [Slots -> Threads \cup {"none", "owed", "sealing"}] /\ recovery'[s] = "up"
        /\ \A r \in Slots \ {s} : slot'[r] = slot[r] /\ pipe'[r] = pipe[r] /\ recovery'[r] = recovery[r]
    BY <1>t, <2>1, <2>2 DEF Typed, Threads
  <2>4. TypeOK' /\ PendingCounts' /\ SlotInv' /\ CallInv' /\ PipeInv' /\ DownInv'
    BY <1>t, <1>1, <2>1, <2>2, <2>3, RecoveryMoves DEF Typed
  <2>5. ClosedInv' /\ ReadyIsWhole' /\ RecoveringIsDecided'
    BY <1>1, <2>1, <2>3 DEF ClosedInv, ReadyIsWhole, RecoveringIsDecided
  <2> QED BY <2>4, <2>5 DEF IInv
<1> QED BY <1>2, <1>3, <1>4, <1>5, <1>6

\* The end of a recovery decides the status from all the slots.
LEMMA SettleKeeps ==
    ASSUME IInv, NEW s \in Slots, Settle(s)
    PROVE  IInv'
<1>t. Typed
  BY TypeOKTyped DEF IInv
<1>1. /\ slot'[s] = [slot[s] EXCEPT !.recovering = FALSE] /\ slot[s] \in SlotRow
      /\ slot' = [slot EXCEPT ![s] = slot'[s]] /\ UNCHANGED <<pipe, call, down>>
      /\ recovery' = [recovery EXCEPT ![s] = "none"]
      /\ gate' = IF gate.closed THEN gate ELSE [gate EXCEPT !.status = Settled(slot')]
  BY <1>t DEF Settle, StatusUnlessClosed, Typed
<1>2. /\ slot'[s] \in SlotRow /\ slot'[s].busy = slot[s].busy /\ slot'[s].ready = slot[s].ready
      /\ slot'[s].stopping = slot[s].stopping /\ ~slot'[s].recovering
      /\ slot'[s].proc = slot[s].proc /\ slot'[s].conn = slot[s].conn
  BY <1>1 DEF SlotRow
<1>3. /\ slot' \in [Slots -> SlotRow]
      /\ recovery' \in [Slots -> Threads \cup {"none", "owed", "sealing"}] /\ recovery'[s] = "none"
      /\ \A r \in Slots \ {s} : slot'[r] = slot[r] /\ recovery'[r] = recovery[r]
  BY <1>t, <1>1, <1>2 DEF Typed
<1>4. /\ gate' \in GateRow /\ gate'.closed = gate.closed /\ gate'.pending = gate.pending
      /\ gate.closed => gate'.status = gate.status
      /\ ~gate.closed => gate'.status = Settled(slot')
  BY <1>t, <1>1 DEF Typed, GateRow, Settled
<1>5. TypeOK' /\ PendingCounts' /\ SlotInv' /\ CallInv' /\ PipeInv'
  <2>1. \A r \in Slots :
           /\ slot'[r].busy = slot[r].busy /\ slot'[r].stopping = slot[r].stopping
           /\ Held(r) => /\ slot'[r].ready => slot[r].ready
                         /\ slot'[r].conn => slot[r].conn
                         /\ recovery'[r] \in {"none", "up"}
           /\ recovery'[r] \notin {"none", "up"} => ~slot'[r].ready
           /\ slot'[r].recovering /\ ~gate'.closed => recovery'[r] # "none"
    <3>1. ASSUME NEW r \in Slots \ {s}, Held(r) PROVE recovery[r] \in {"none", "up"}
      BY <3>1 DEF Held, IInv, CallInv, OwnerOk
    <3>2. ASSUME NEW r \in Slots \ {s}
          PROVE  /\ recovery[r] \notin {"none", "up"} => ~slot[r].ready
                 /\ slot[r].recovering /\ ~gate.closed => recovery[r] # "none"
      BY DEF IInv, SlotInv
    <3> QED BY <1>2, <1>3, <1>4, <3>1, <3>2
  <2>2. \A r \in Slots :
           /\ pipe'[r].job = None \/ pipe'[r].reply = None
           /\ pipe'[r].job \in {pipe[r].job, None}
           /\ pipe'[r].reply \in {pipe[r].job, pipe[r].reply, None}
    BY <1>1 DEF IInv, PipeInv
  <2> QED BY <1>t, <1>1, <1>3, <1>4, <2>1, <2>2, CallsStand DEF Typed
<1>6. DownInv'
  <2>1. \A r \in Slots : slot[r].proc = "none" => slot'[r].proc = "none"
    BY <1>2, <1>3
  <2> QED BY <1>1, <1>4, <2>1, EmptyStays
<1>7. ClosedInv' /\ ReadyIsWhole'
  BY <1>4 DEF IInv, ClosedInv, ReadyIsWhole, Settled
<1>8. RecoveringIsDecided'
  <2>1. CASE gate.closed
    BY <1>4, <2>1 DEF IInv, ClosedInv, RecoveringIsDecided
  <2>2. CASE ~gate.closed /\ \E r \in Slots : slot'[r].recovering
    BY <1>4, <1>5, <2>2 DEF SlotInv, RecoveringIsDecided
  <2>3. CASE \E r \in Slots : slot'[r].stopping
    BY <1>5, <2>3 DEF SlotInv, Stopping, RecoveringIsDecided
  <2>4. CASE ~gate.closed /\ ~ \E r \in Slots : slot'[r].recovering \/ slot'[r].stopping
    <3>1. Settled(slot') # "recovering"
      BY <2>4 DEF Settled
    <3> QED BY <1>4, <2>4, <3>1 DEF RecoveringIsDecided
  <2> QED BY <2>1, <2>2, <2>3, <2>4
<1> QED BY <1>5, <1>6, <1>7, <1>8 DEF IInv

\* A worker answers the message in its pipe, or dies.
LEMMA WorkerKeeps ==
    ASSUME IInv, NEW s \in Slots, WorkerReplies(s) \/ WorkerDies(s)
    PROVE  IInv'
<1>t. Typed
  BY TypeOKTyped DEF IInv
<1>1. UNCHANGED <<recovery, call, gate, down>> /\ pipe[s] \in PipeRow /\ slot[s] \in SlotRow
  BY <1>t DEF WorkerReplies, WorkerDies, Typed
<1>2. /\ slot' \in [Slots -> SlotRow]
      /\ \A r \in Slots : /\ slot'[r].busy = slot[r].busy /\ slot'[r].ready = slot[r].ready
                          /\ slot'[r].stopping = slot[r].stopping /\ slot'[r].conn = slot[r].conn
                          /\ slot'[r].recovering = slot[r].recovering
                          /\ slot[r].proc = "none" => slot'[r].proc = "none"
  <2>1. CASE WorkerReplies(s)
    BY <1>t, <2>1 DEF WorkerReplies, Typed
  <2>2. CASE WorkerDies(s)
    <3>1. /\ slot'[s] = [slot[s] EXCEPT !.proc = "dead"] /\ slot' = [slot EXCEPT ![s] = slot'[s]]
          /\ slot[s].proc # "none"
      BY <1>t, <2>2 DEF WorkerDies, Alive, Typed
    <3>2. /\ slot'[s] \in SlotRow
          /\ slot'[s].busy = slot[s].busy /\ slot'[s].ready = slot[s].ready
          /\ slot'[s].stopping = slot[s].stopping /\ slot'[s].conn = slot[s].conn
          /\ slot'[s].recovering = slot[s].recovering
      BY <1>1, <3>1 DEF SlotRow, Procs
    <3> QED BY <1>t, <3>1, <3>2 DEF Typed
  <2> QED BY <2>1, <2>2
<1>3. /\ pipe' \in [Slots -> PipeRow]
      /\ \A r \in Slots : /\ pipe'[r].job = None \/ pipe'[r].reply = None
                          /\ pipe'[r].job \in {pipe[r].job, None}
                          /\ pipe'[r].reply \in {pipe[r].job, pipe[r].reply, None}
  <2>1. \A r \in Slots \ {s} : pipe'[r] = pipe[r]
    BY <1>t DEF WorkerReplies, WorkerDies, Typed
  <2>2. \A r \in Slots : pipe[r].job = None \/ pipe[r].reply = None
    BY DEF IInv, PipeInv
  <2>3. CASE WorkerReplies(s)
    <3>1. /\ pipe'[s] = [job |-> None, reply |-> pipe[s].job]
          /\ pipe' = [pipe EXCEPT ![s] = pipe'[s]]
      BY <1>t, <2>3 DEF WorkerReplies, Typed
    <3>2. pipe'[s] \in PipeRow /\ pipe'[s].job = None /\ pipe'[s].reply = pipe[s].job
      BY <1>1, <3>1 DEF PipeRow, MaybeCall
    <3> QED BY <1>t, <2>1, <2>2, <3>1, <3>2 DEF Typed
  <2>4. CASE WorkerDies(s)
    <3>1. pipe'[s] = [pipe[s] EXCEPT !.job = None] /\ pipe' = [pipe EXCEPT ![s] = pipe'[s]]
      BY <1>t, <2>4 DEF WorkerDies, Typed
    <3>2. pipe'[s] \in PipeRow /\ pipe'[s].job = None /\ pipe'[s].reply = pipe[s].reply
      BY <1>1, <3>1 DEF PipeRow, MaybeCall
    <3> QED BY <1>t, <2>1, <2>2, <3>1, <3>2 DEF Typed
  <2> QED BY <2>3, <2>4
<1>4. TypeOK' /\ PendingCounts' /\ SlotInv' /\ CallInv' /\ PipeInv'
  <2>1. \A r \in Slots : /\ Held(r) => recovery'[r] \in {"none", "up"}
                         /\ recovery'[r] \notin {"none", "up"} => ~slot'[r].ready
                         /\ slot'[r].recovering /\ ~gate'.closed => recovery'[r] # "none"
    BY <1>1, <1>2 DEF IInv, SlotInv, CallInv, OwnerOk, Held
  <2> QED BY <1>t, <1>1, <1>2, <1>3, <2>1, CallsStand DEF Typed
<1>5. ClosedInv' /\ ReadyIsWhole' /\ RecoveringIsDecided'
  BY <1>1, <1>2 DEF IInv, ClosedInv, ReadyIsWhole, RecoveringIsDecided
<1>6. DownInv'
  BY <1>1, <1>2, EmptyStays
<1> QED BY <1>4, <1>5, <1>6 DEF IInv

-----------------------------------------------------------------------------
(* The shutdown.                                                            *)

\* A step of the shutdown that kills no worker.
LEMMA ShutdownKeeps ==
    ASSUME IInv, Close \/ JoinThreads \/ ShutdownReturns
    PROVE  IInv'
<1>t. Typed
  BY TypeOKTyped DEF IInv
<1>1. UNCHANGED <<slot, pipe, recovery, call>>
  BY DEF Close, JoinThreads, ShutdownReturns
<1>2. gate' \in GateRow /\ gate'.closed /\ gate'.pending = gate.pending
      /\ gate'.status \notin {"ready", "recovering"}
  <2>1. CASE Close
    BY <1>t, <2>1 DEF Close, Typed, GateRow
  <2>2. CASE JoinThreads
    BY <1>t, <2>2 DEF JoinThreads, Typed, IInv, DownInv, ClosedInv
  <2>3. CASE ShutdownReturns
    <3>1. gate.closed
      BY <2>3 DEF ShutdownReturns, IInv, DownInv
    <3>2. gate' = [gate EXCEPT !.status = IF down.dirty \/ gate.status = "failed" THEN "failed" ELSE "stopped"]
      BY <2>3 DEF ShutdownReturns
    <3> QED BY <1>t, <3>1, <3>2 DEF Typed, GateRow
  <2> QED BY <2>1, <2>2, <2>3
<1>3. down' \in DownRow /\ DownInv'
  <2>1. CASE Close
    BY <1>t, <1>2, <2>1 DEF Close, Typed, DownRow, DownInv, CleanShutdownIsEmpty
  <2>2. CASE JoinThreads
    BY <1>t, <1>2, <2>2 DEF JoinThreads, Typed, DownRow, DownInv, CleanShutdownIsEmpty
  <2>3. CASE ShutdownReturns
    BY <1>t, <1>1, <1>2, <2>3 DEF ShutdownReturns, Typed, DownRow, IInv, DownInv, CleanShutdownIsEmpty
  <2> QED BY <2>1, <2>2, <2>3
<1>4. TypeOK' /\ PendingCounts' /\ SlotInv' /\ CallInv' /\ PipeInv'
  <2>1. \A s \in Slots : /\ Held(s) => recovery'[s] \in {"none", "up"}
                         /\ recovery'[s] \notin {"none", "up"} => ~slot'[s].ready
    BY <1>1 DEF IInv, SlotInv, CallInv, OwnerOk, Held
  <2>2. \A s \in Slots : pipe'[s].job = None \/ pipe'[s].reply = None
    BY <1>1 DEF IInv, PipeInv
  <2> QED BY <1>t, <1>1, <1>2, <1>3, <2>1, <2>2, CallsStand DEF Typed
<1>5. ClosedInv' /\ ReadyIsWhole' /\ RecoveringIsDecided'
  BY <1>2 DEF ClosedInv, ReadyIsWhole, RecoveringIsDecided
<1> QED BY <1>3, <1>4, <1>5 DEF IInv

\* A pass of the shutdown kills the worker of a slot.
LEMMA PassKeeps ==
    ASSUME IInv, NEW s \in Slots, NEW gone \in BOOLEAN, FirstPassKills(s, gone) \/ SecondPass(s, gone)
    PROVE  IInv'
<1>t. Typed
  BY TypeOKTyped DEF IInv
<1>1. /\ Killed(s, gone) /\ UNCHANGED <<recovery, call, gate>> /\ gate.closed
      /\ gate.status \notin {"ready", "recovering"}
  BY DEF FirstPassKills, SecondPass, IInv, DownInv, ClosedInv
<1>2. /\ slot' \in [Slots -> SlotRow] /\ pipe' \in [Slots -> PipeRow]
      /\ \A r \in Slots \ {s} : slot'[r] = slot[r] /\ pipe'[r] = pipe[r]
      /\ ~slot'[s].conn /\ ~slot'[s].ready /\ slot'[s].busy = slot[s].busy
      /\ slot'[s].stopping = slot[s].stopping
      /\ gone => slot'[s].proc = "none"
      /\ slot[s].proc = "none" => slot'[s].proc = "none"
      /\ pipe'[s].job = None /\ pipe'[s].reply = None
  BY <1>t, <1>1, KillsOne
<1>3. down' \in DownRow /\ DownInv'
  <2>1. CASE FirstPassKills(s, gone)
    BY <1>t, <1>1, <2>1 DEF FirstPassKills, Typed, DownRow, DownInv, CleanShutdownIsEmpty
  <2>2. CASE SecondPass(s, gone)
    <3>1. /\ down'.phase = "second" /\ down'.left = down.left \ {s}
          /\ down'.dirty <=> down.dirty \/ ~gone
          /\ down' \in DownRow /\ down.phase = "second"
      BY <1>t, <2>2 DEF SecondPass, Typed, DownRow
    <3>2. ~down'.dirty => \A r \in Slots \ down'.left : slot'[r].proc = "none"
      <4>1. ~down.dirty => \A r \in Slots \ down.left : slot[r].proc = "none"
        BY <3>1 DEF IInv, DownInv
      <4> QED BY <1>2, <3>1, <4>1
    <3> QED BY <1>1, <3>1, <3>2 DEF DownInv, CleanShutdownIsEmpty
  <2> QED BY <2>1, <2>2
<1>4. TypeOK' /\ PendingCounts' /\ SlotInv' /\ CallInv' /\ PipeInv'
  <2>1. \A r \in Slots : /\ Held(r) => recovery'[r] \in {"none", "up"}
                         /\ recovery'[r] \notin {"none", "up"} => ~slot'[r].ready
    BY <1>1, <1>2 DEF IInv, SlotInv, CallInv, OwnerOk, Held
  <2>2. \A r \in Slots : /\ pipe'[r].job = None \/ pipe'[r].reply = None
                         /\ pipe'[r].job \in {pipe[r].job, None}
                         /\ pipe'[r].reply \in {pipe[r].job, pipe[r].reply, None}
    BY <1>2 DEF IInv, PipeInv
  <2>3. \A r \in Slots : /\ slot'[r].busy = slot[r].busy /\ slot'[r].stopping = slot[r].stopping
                         /\ slot'[r].ready => slot[r].ready
                         /\ slot'[r].conn => slot[r].conn
    BY <1>2
  <2> QED BY <1>t, <1>1, <1>2, <1>3, <2>1, <2>2, <2>3, CallsStand DEF Typed
<1>5. ClosedInv' /\ ReadyIsWhole' /\ RecoveringIsDecided'
  BY <1>1 DEF ClosedInv, ReadyIsWhole, RecoveringIsDecided
<1> QED BY <1>3, <1>4, <1>5 DEF IInv

-----------------------------------------------------------------------------
(* The theorems.                                                            *)

LEMMA InvInit == ASSUME Init PROVE IInv
<1>1. Typed
  <2>1. Cardinality(Slots) \in Nat
    BY GateAssumption, FS_CardinalityType
  <2>2. gate \in GateRow
    BY <2>1 DEF Init, GateRow
  <2>3. slot \in [Slots -> SlotRow] /\ pipe \in [Slots -> PipeRow]
    BY DEF Init, SlotRow, PipeRow, Procs, MaybeCall
  <2>4. call \in [Calls -> CallRow] /\ down \in DownRow
    BY DEF Init, CallRow, DownRow, MaybeCall
  <2>5. recovery \in [Slots -> Threads \cup {"none", "owed", "sealing"}]
    BY DEF Init
  <2> QED BY <2>2, <2>3, <2>4, <2>5 DEF Typed
<1>2. PendingCounts
  <2>1. {s \in Slots : slot[s].busy} = {}
    BY DEF Init
  <2> QED BY <2>1, FS_EmptySet DEF Init, PendingCounts
<1>3. ClosedInv /\ ReadyIsWhole /\ RecoveringIsDecided /\ DownInv
  BY DEF Init, ClosedInv, ReadyIsWhole, RecoveringIsDecided, DownInv, CleanShutdownIsEmpty
<1>4. SlotInv /\ PipeInv
  BY GateAssumption DEF Init, SlotInv, PipeInv
<1>5. CallInv
  BY DEF Init, CallInv, LifeOk, OwnerOk, Owns, Stopping
<1> QED BY <1>1, <1>2, <1>3, <1>4, <1>5, TypeOKTyped DEF IInv

LEMMA InvStep == ASSUME IInv, [Next]_vars PROVE IInv'
<1>1. ASSUME NEW c \in Calls, CallStep(c) \/ Disconnect(c) PROVE IInv'
  BY <1>1, CheckoutKeeps, ThreadSteps, CancelsKeep, FinishKeeps DEF CallStep
<1>2. ASSUME NEW c \in Calls, CancelStep(c) PROVE IInv'
  BY <1>2, CancelKillsKeeps, CancelEndsKeep DEF CancelStep
<1>3. ASSUME NEW s \in Slots, RecoveryStep(s) PROVE IInv'
  BY <1>3, GivenUpKeeps, RecoveryKeeps, SettleKeeps DEF RecoveryStep
<1>4. ASSUME NEW s \in Slots, ClaimDead(s) \/ WorkerReplies(s) \/ WorkerDies(s) PROVE IInv'
  BY <1>4, ClaimDeadKeeps, WorkerKeeps
<1>5. CASE Shutdown
  BY <1>5, ShutdownKeeps, FirstPassCancelsKeeps, PassKeeps DEF Shutdown
<1>6. CASE UNCHANGED vars
  BY <1>6 DEF vars, IInv, TypeOK, PendingCounts, ClosedInv, ReadyIsWhole, RecoveringIsDecided,
              SlotInv, CallInv, LifeOk, OwnerOk, Owns, Stopping, PipeInv, Sent, DownInv,
              CleanShutdownIsEmpty
<1> QED BY <1>1, <1>2, <1>3, <1>4, <1>5, <1>6 DEF Next

\* The inductive invariant of the gate.
THEOREM GateInvariant == Spec => []IInv
BY InvInit, InvStep, PTL DEF Spec

\* Every variable keeps its type.
THEOREM TypeCorrect == Spec => []TypeOK
BY GateInvariant, PTL DEF IInv

\* An answer is the caller's own, and a cancelled call has none.
THEOREM AnswersAreTheCallers == Spec => []AnswersAreOwn
<1>1. IInv => AnswersAreOwn
  BY DEF IInv, CallInv, LifeOk, AnswersAreOwn
<1> QED BY <1>1, GateInvariant, PTL

\* The calls in flight are counted once each.
THEOREM PendingIsExact == Spec => []PendingCounts
BY GateInvariant, PTL DEF IInv

\* The gate is ready only as a whole.
THEOREM ReadyMeansEverySlot == Spec => []ReadyIsWhole
BY GateInvariant, PTL DEF IInv

\* A clean shutdown leaves no worker process.
THEOREM CleanMeansEmpty == Spec => []CleanShutdownIsEmpty
<1>1. IInv => CleanShutdownIsEmpty
  BY DEF IInv, DownInv
<1> QED BY <1>1, GateInvariant, PTL

\* Somebody always decides the status of a gate that is recovering.
THEOREM RecoveringEnds == Spec => []RecoveringIsDecided
BY GateInvariant, PTL DEF IInv
=============================================================================
