-------------------------- MODULE AdmissionProofs --------------------------
(***************************************************************************)
(* The gate implements CallAdmission, for any finite set of slots and any  *)
(* set of calls.                                                           *)
(***************************************************************************)
EXTENDS GateProofs

\* A call that is in: its slot is busy and its pipe open, and its thread goes
\* on, unless a shutdown took the pipe.
PlaceOk(c) ==
    LET s == call[c].slot
    IN  Inside(c) =>
          /\ s \in Slots /\ slot[s].busy /\ call[c].pc # "idle"
          /\ call[c].pc = "ended" => gate.closed
          /\ ~gate.closed => slot[s].conn

\* Two calls are never in one slot.
Apart(c, d) == Inside(c) /\ Inside(d) /\ call[c].slot = call[d].slot => c = d

\* A worker has its pipe, and comes to a slot whose last one is gone.
WorkerOk(s) ==
    /\ Alive(s) => slot[s].conn
    /\ recovery[s] = "clear" => slot[s].proc = "none"

\* The gate is closed by the shutdown only.
PlaceInv ==
    /\ \A c \in Calls : PlaceOk(c)
    /\ \A c, d \in Calls : Apart(c, d)
    /\ \A s \in Slots : WorkerOk(s)
    /\ gate.closed => down.phase # "no"

AInv == IInv /\ PlaceInv

-----------------------------------------------------------------------------
(* What a step leaves as it is.                                             *)

CallStays(c) ==
    /\ call'[c].slot = call[c].slot
    /\ call'[c].cancelled = call[c].cancelled
    /\ call'[c].finished = call[c].finished
    /\ call'[c].answered = call[c].answered
    /\ call[c].answered => call'[c].got = call[c].got
    /\ call'[c].pc = "idle" <=> call[c].pc = "idle"
    /\ ~call[c].cancelled => (call'[c].pc = "ended" <=> call[c].pc = "ended")

SlotStays(s) ==
    /\ slot'[s].proc = slot[s].proc
    /\ slot'[s].conn = slot[s].conn
    /\ slot'[s].busy = slot[s].busy
    /\ recovery'[s] = "clear" => recovery[s] = "clear"

GateStays ==
    /\ gate'.pending = gate.pending
    /\ gate'.closed = gate.closed
    /\ down'.phase = "no" <=> down.phase = "no"
    /\ down'.phase = "clean" <=> down.phase = "clean"

\* A call that stays is in the same place and has the same fate.
LEMMA CallKeepsPlace ==
    ASSUME NEW c \in Calls, CallStays(c)
    PROVE  (Inside(c)' <=> Inside(c)) /\ Place(c)' = Place(c) /\ Fate(c)' = Fate(c)
           /\ AnswerOf(c)' = AnswerOf(c)
BY DEF CallStays, Inside, Place, Fate, AnswerOf

LEMMA SlotKeepsWorker ==
    ASSUME NEW s \in Slots, slot'[s].proc = slot[s].proc
    PROVE  WorkerIn(s)' = WorkerIn(s) /\ (Alive(s)' <=> Alive(s))
BY DEF WorkerIn, Alive

LEMMA GateKeepsShut ==
    ASSUME GateStays
    PROVE  Shut' = Shut
BY DEF GateStays, Shut

\* Where calls stay, the callers see nothing of them.
LEMMA CallsStay ==
    ASSUME \A c \in Calls : CallStays(c)
    PROVE  /\ [c \in Calls |-> Place(c)]' = [c \in Calls |-> Place(c)]
           /\ [c \in Calls |-> Fate(c)]' = [c \in Calls |-> Fate(c)]
           /\ [c \in Calls |-> AnswerOf(c)]' = [c \in Calls |-> AnswerOf(c)]
<1>1. \A c \in Calls : Place(c)' = Place(c) /\ Fate(c)' = Fate(c) /\ AnswerOf(c)' = AnswerOf(c)
  BY CallKeepsPlace
<1> QED BY <1>1

\* A step that nobody who calls sees.
LEMMA NobodySees ==
    ASSUME AInv, \A c \in Calls : CallStays(c), \A s \in Slots : SlotStays(s), GateStays
    PROVE  PlaceInv' /\ UNCHANGED Admission!avars
<1>1. \A c \in Calls : (Inside(c)' <=> Inside(c)) /\ call'[c].slot = call[c].slot
  BY CallKeepsPlace DEF CallStays
<1>2. \A s \in Slots : WorkerIn(s)' = WorkerIn(s) /\ (Alive(s)' <=> Alive(s))
  BY SlotKeepsWorker DEF SlotStays
<1>3. PlaceInv'
  <2>1. ASSUME NEW c \in Calls PROVE PlaceOk(c)'
    <3>1. PlaceOk(c) /\ CallStays(c)
      BY DEF AInv, PlaceInv
    <3>2. Inside(c) => ~call[c].cancelled
      BY DEF Inside
    <3> QED BY <1>1, <3>1, <3>2 DEF PlaceOk, CallStays, SlotStays, GateStays
  <2>2. \A s \in Slots : WorkerOk(s)'
    BY <1>2 DEF AInv, PlaceInv, WorkerOk, SlotStays
  <2>3. gate'.closed => down'.phase # "no"
    BY DEF AInv, PlaceInv, GateStays
  <2>4. \A c, d \in Calls : Apart(c, d)'
    BY <1>1 DEF AInv, PlaceInv, Apart
  <2> QED BY <2>1, <2>2, <2>3, <2>4 DEF PlaceInv
<1>4. [s \in Slots |-> WorkerIn(s)]' = [s \in Slots |-> WorkerIn(s)]
  BY <1>2
<1> QED BY <1>3, <1>4, CallsStay, GateKeepsShut DEF Admission!avars, GateStays

-----------------------------------------------------------------------------
(* A request thread.                                                        *)

\* Calls that do not change stay.
LEMMA SameCallStays ==
    ASSUME NEW c \in Calls, call'[c] = call[c]
    PROVE  CallStays(c)
BY DEF CallStays

\* A move of one thread between its steps, the slots as they are.
LEMMA ThreadMoves ==
    ASSUME AInv, NEW c \in Calls, NEW pc \in {"sending", "waiting", "received", "ended"},
           \A d \in Calls \ {c} : call'[d] = call[d],
           call'[c].pc = pc, call'[c].slot = call[c].slot, call'[c].cancelled = call[c].cancelled,
           call'[c].finished = call[c].finished, call'[c].answered = call[c].answered,
           call[c].pc \in {"taken", "sending", "waiting", "received"},
           pc = "ended" => call[c].cancelled,
           UNCHANGED <<slot, recovery, gate, down>>
    PROVE  PlaceInv' /\ UNCHANGED Admission!avars
<1>1. ~call[c].answered
  BY DEF AInv, IInv, CallInv, LifeOk
<1>2. CallStays(c)
  BY <1>1 DEF CallStays
<1>3. \A d \in Calls : CallStays(d)
  BY <1>2, SameCallStays
<1>4. (\A s \in Slots : SlotStays(s)) /\ GateStays
  BY DEF SlotStays, GateStays
<1> QED BY <1>3, <1>4, NobodySees

LEMMA ThreadAdmission ==
    ASSUME AInv, NEW c \in Calls,
           MakeHandle(c) \/ Send(c) \/ WaitIsCancelled(c) \/ Receive(c) \/ FinishTooLate(c)
    PROVE  PlaceInv' /\ UNCHANGED Admission!avars
<1>t. Typed /\ LifeOk(c) /\ call[c] \in CallRow
  BY TypeOKTyped DEF AInv, IInv, CallInv, Typed
<1>0. UNCHANGED <<slot, recovery, gate, down>>
  BY DEF MakeHandle, Send, WaitIsCancelled, Receive, FinishTooLate
<1>1. CASE Receive(c)
  <2>1. /\ call' = [call EXCEPT ![c].pc = "received", ![c].got = pipe[call[c].slot].reply]
        /\ call[c].pc = "waiting"
    BY <1>1 DEF Receive
  <2>2. call'[c] = [call[c] EXCEPT !.pc = "received", !.got = pipe[call[c].slot].reply]
    BY <1>t, <2>1 DEF Typed
  <2>3. \A d \in Calls \ {c} : call'[d] = call[d]
    BY <1>t, <2>1 DEF Typed
  <2>4. /\ call'[c].pc = "received" /\ call'[c].slot = call[c].slot
        /\ call'[c].cancelled = call[c].cancelled /\ call'[c].finished = call[c].finished
        /\ call'[c].answered = call[c].answered
    BY <1>t, <2>2 DEF CallRow
  <2> QED BY <1>0, <2>1, <2>3, <2>4, ThreadMoves
<1>2. CASE MakeHandle(c) \/ Send(c) \/ WaitIsCancelled(c) \/ FinishTooLate(c)
  <2>1. PICK pc \in {"sending", "waiting", "received", "ended"} :
          /\ call' = [call EXCEPT ![c].pc = pc]
          /\ pc = "ended" => call[c].cancelled
    BY <1>2 DEF MakeHandle, Send, WaitIsCancelled, FinishTooLate, Goto
  <2>2. call[c].pc \in {"taken", "sending", "waiting", "received"}
    BY <1>2 DEF MakeHandle, Send, WaitIsCancelled, FinishTooLate
  <2>3. call'[c] = [call[c] EXCEPT !.pc = pc] /\ \A d \in Calls \ {c} : call'[d] = call[d]
    BY <1>t, <2>1 DEF Typed
  <2>4. /\ call'[c].pc = pc /\ call'[c].slot = call[c].slot
        /\ call'[c].cancelled = call[c].cancelled /\ call'[c].finished = call[c].finished
        /\ call'[c].answered = call[c].answered
    BY <1>t, <2>3 DEF CallRow
  <2> QED BY <1>0, <2>1, <2>2, <2>3, <2>4, ThreadMoves
<1> QED BY <1>1, <1>2

\* One call's place, fate and answer change and nobody else's.
LEMMA OneCallChanges ==
    ASSUME NEW c \in Calls, \A d \in Calls \ {c} : call'[d] = call[d]
    PROVE  /\ [d \in Calls |-> Place(d)]' = [[d \in Calls |-> Place(d)] EXCEPT ![c] = Place(c)']
           /\ [d \in Calls |-> Fate(d)]' = [[d \in Calls |-> Fate(d)] EXCEPT ![c] = Fate(c)']
           /\ [d \in Calls |-> AnswerOf(d)]' = [[d \in Calls |-> AnswerOf(d)] EXCEPT ![c] = AnswerOf(c)']
           /\ \A d \in Calls \ {c} : (Inside(d)' <=> Inside(d)) /\ call'[d].slot = call[d].slot
<1>1. \A d \in Calls \ {c} : /\ Place(d)' = Place(d) /\ Fate(d)' = Fate(d)
                            /\ AnswerOf(d)' = AnswerOf(d) /\ (Inside(d)' <=> Inside(d))
                            /\ call'[d].slot = call[d].slot
  BY SameCallStays, CallKeepsPlace
<1> QED BY <1>1

\* A call that ends without having changed its slot: it was refused, or the
\* shutdown took its pipe.
LEMMA EndsUnserved ==
    ASSUME AInv, NEW c \in Calls, CheckoutFails(c) \/ (SendFindsNoPipe(c) /\ ~call[c].cancelled)
    PROVE  PlaceInv' /\ (Admission!Refuse(c) \/ Admission!Strand(c))
<1>t. Typed /\ LifeOk(c) /\ call[c] \in CallRow /\ PlaceOk(c)
  BY TypeOKTyped DEF AInv, IInv, CallInv, Typed, PlaceInv
<1>0. UNCHANGED <<slot, recovery, gate, down>> /\ call' = [call EXCEPT ![c].pc = "ended"]
  BY DEF CheckoutFails, SendFindsNoPipe, Goto
<1>1. call'[c] = [call[c] EXCEPT !.pc = "ended"] /\ \A d \in Calls \ {c} : call'[d] = call[d]
  BY <1>t, <1>0 DEF Typed
<1>2. /\ call'[c].pc = "ended" /\ call'[c].slot = call[c].slot
      /\ call'[c].cancelled = call[c].cancelled /\ call'[c].finished = call[c].finished
      /\ call'[c].answered = call[c].answered /\ call'[c].got = call[c].got
  BY <1>t, <1>1 DEF CallRow
<1>3. ~call[c].cancelled /\ ~call[c].answered /\ ~call[c].finished /\ call[c].pc \in {"idle", "sending"}
  BY <1>t DEF CheckoutFails, SendFindsNoPipe, LifeOk
<1>4. /\ Inside(c)' <=> Inside(c)
      /\ Place(c)' = Place(c) /\ AnswerOf(c)' = AnswerOf(c)
      /\ Fate(c) = "undecided" /\ Fate(c)' = "lost"
  BY <1>2, <1>3 DEF Inside, Place, AnswerOf, Fate
<1>5. Inside(c) => gate.closed /\ SendFindsNoPipe(c)
  BY <1>t DEF PlaceOk, CheckoutFails, SendFindsNoPipe
<1>6. PlaceInv'
  <2>1. \A d \in Calls : (Inside(d)' <=> Inside(d)) /\ call'[d].slot = call[d].slot
    BY <1>1, <1>2, <1>4, OneCallChanges
  <2>2. ASSUME NEW d \in Calls PROVE PlaceOk(d)'
    <3>1. call'[d].pc = call[d].pc \/ d = c
      BY <1>1
    <3>2. PlaceOk(d)
      BY DEF AInv, PlaceInv
    <3> QED BY <1>0, <1>2, <1>5, <2>1, <3>1, <3>2 DEF PlaceOk
  <2>3. \A d, e \in Calls : Apart(d, e)'
    BY <2>1 DEF AInv, PlaceInv, Apart
  <2>4. \A s \in Slots : WorkerOk(s)'
    BY <1>0 DEF AInv, PlaceInv, WorkerOk, Alive
  <2> QED BY <1>0, <2>2, <2>3, <2>4 DEF AInv, PlaceInv
<1>7. /\ [s \in Slots |-> WorkerIn(s)]' = [s \in Slots |-> WorkerIn(s)] /\ Shut' = Shut
      /\ gate'.pending = gate.pending
  BY <1>0 DEF WorkerIn, Alive, Shut
<1>8. /\ [d \in Calls |-> Place(d)]' = [d \in Calls |-> Place(d)]
      /\ [d \in Calls |-> AnswerOf(d)]' = [d \in Calls |-> AnswerOf(d)]
      /\ [d \in Calls |-> Fate(d)]' = [[d \in Calls |-> Fate(d)] EXCEPT ![c] = "lost"]
  BY <1>1, <1>4, OneCallChanges
<1>9. CASE Inside(c)
  <2>1. Shut # "open" /\ Place(c) # None
    BY <1>5, <1>9 DEF Shut, Place, Inside
  <2> QED BY <1>4, <1>6, <1>7, <1>8, <2>1 DEF Admission!Strand
<1>10. CASE ~Inside(c)
  <2>1. Place(c) = None
    BY <1>10 DEF Place
  <2> QED BY <1>4, <1>6, <1>7, <1>8, <2>1 DEF Admission!Refuse
<1> QED BY <1>9, <1>10
-----------------------------------------------------------------------------
(* Coming into a slot and leaving it.                                       *)

LEMMA CheckoutAdmits ==
    ASSUME AInv, NEW c \in Calls, NEW s \in Slots, Checkout(c, s)
    PROVE  PlaceInv' /\ Admission!Admit(c, s)
<1>t. Typed /\ LifeOk(c) /\ call[c] \in CallRow /\ slot[s] \in SlotRow /\ PlaceOk(c) /\ s # None
  BY TypeOKTyped, GateAssumption DEF AInv, IInv, CallInv, Typed, PlaceInv
<1>1. /\ call[c].pc = "idle" /\ ~slot[s].busy /\ Alive(s) /\ slot[s].conn
      /\ gate'.pending = gate.pending + 1 /\ gate'.closed = gate.closed
      /\ UNCHANGED <<pipe, recovery, down>>
  BY <1>t DEF Checkout, Free, AInv, PlaceInv, WorkerOk, Typed, GateRow
<1>2. /\ call'[c] = [call[c] EXCEPT !.pc = "taken", !.slot = s]
      /\ \A d \in Calls \ {c} : call'[d] = call[d]
  BY <1>t DEF Checkout, Typed
<1>3. /\ call'[c].pc = "taken" /\ call'[c].slot = s
      /\ call'[c].cancelled = call[c].cancelled /\ call'[c].finished = call[c].finished
      /\ call'[c].answered = call[c].answered /\ call'[c].got = call[c].got
  BY <1>t, <1>2 DEF CallRow
<1>4. /\ slot'[s].busy /\ slot'[s].conn = slot[s].conn /\ slot'[s].proc = slot[s].proc
      /\ \A r \in Slots \ {s} : slot'[r] = slot[r]
  BY <1>t DEF Checkout, Typed, SlotRow
<1>5. ~call[c].cancelled /\ ~call[c].answered /\ ~call[c].finished
  BY <1>t, <1>1 DEF LifeOk
<1>6. /\ ~Inside(c) /\ Place(c) = None /\ Inside(c)' /\ Place(c)' = s
      /\ Fate(c) = "undecided" /\ Fate(c)' = Fate(c) /\ AnswerOf(c)' = AnswerOf(c)
  BY <1>t, <1>1, <1>3, <1>5 DEF PlaceOk, Inside, Place, Fate, AnswerOf
<1>7. ASSUME NEW d \in Calls, Inside(d) PROVE call[d].slot \in Slots \ {s}
  BY <1>1, <1>7 DEF AInv, PlaceInv, PlaceOk
<1>8. PlaceInv'
  <2>0. \A d \in Calls \ {c} : (Inside(d)' <=> Inside(d)) /\ call'[d].slot = call[d].slot
    BY <1>2, OneCallChanges
  <2>1. ASSUME NEW d \in Calls \ {c} PROVE PlaceOk(d)'
    <3>1. Inside(d) => slot'[call[d].slot] = slot[call[d].slot] /\ call[d].slot \in Slots
      BY <1>4, <1>7
    <3> QED BY <1>1, <1>2, <2>0, <3>1 DEF AInv, PlaceInv, PlaceOk
  <2>2. PlaceOk(c)'
    BY <1>1, <1>3, <1>4 DEF PlaceOk
  <2>3. ASSUME NEW d \in Calls, NEW e \in Calls PROVE Apart(d, e)'
    <3>1. Apart(d, e) /\ (d # c /\ Inside(d) => call'[d].slot # s) /\ (e # c /\ Inside(e) => call'[e].slot # s)
      BY <1>7, <2>0 DEF AInv, PlaceInv
    <3> QED BY <1>3, <2>0, <3>1 DEF Apart
  <2>4. ASSUME NEW r \in Slots PROVE WorkerOk(r)'
    <3>1. slot'[r].proc = slot[r].proc /\ slot'[r].conn = slot[r].conn /\ recovery' = recovery
      BY <1>1, <1>4
    <3> QED BY <3>1 DEF AInv, PlaceInv, WorkerOk, Alive
  <2> QED BY <1>1, <2>1, <2>2, <2>3, <2>4 DEF AInv, PlaceInv
<1>9. [r \in Slots |-> WorkerIn(r)]' = [r \in Slots |-> WorkerIn(r)] /\ Shut' = Shut
  <2>1. \A r \in Slots : WorkerIn(r)' = WorkerIn(r)
    BY <1>4, SlotKeepsWorker
  <2> QED BY <1>1, <2>1 DEF Shut
<1>10. /\ [d \in Calls |-> Place(d)]' = [[d \in Calls |-> Place(d)] EXCEPT ![c] = s]
       /\ [d \in Calls |-> Fate(d)]' = [d \in Calls |-> Fate(d)]
       /\ [d \in Calls |-> AnswerOf(d)]' = [d \in Calls |-> AnswerOf(d)]
  BY <1>2, <1>6, OneCallChanges
<1>11. \A d \in Calls : Place(d) # s
  BY <1>t, <1>7 DEF Place
<1>12. WorkerIn(s) = "live"
  BY <1>1 DEF WorkerIn, Alive
<1> QED BY <1>1, <1>6, <1>8, <1>9, <1>10, <1>11, <1>12 DEF Admission!Admit, Admission!Empty

\* A call that is out of its slot, whose busy mark is gone with it.
LEMMA LeavesSlot ==
    ASSUME AInv, NEW c \in Calls, Inside(c), ~Inside(c)', call[c].pc # "ended" \/ gate.closed,
           \A d \in Calls \ {c} : call'[d] = call[d],
           LET s == call[c].slot
           IN  /\ slot'[s].conn = slot[s].conn /\ slot'[s].proc = slot[s].proc
               /\ \A r \in Slots \ {s} : slot'[r] = slot[r]
               /\ gate'.pending = IF slot[s].busy /\ gate.pending > 0 THEN gate.pending - 1
                                  ELSE gate.pending,
           gate'.closed = gate.closed, recovery' = recovery, down'.phase = down.phase
    PROVE  /\ PlaceInv' /\ Shut' = Shut /\ Place(c) # None /\ Place(c)' = None
           /\ gate'.pending = gate.pending - 1
           /\ [r \in Slots |-> WorkerIn(r)]' = [r \in Slots |-> WorkerIn(r)]
<1> DEFINE s == call[c].slot
<1>1. s \in Slots /\ slot[s].busy /\ \A d \in Calls \ {c} : Inside(d) => call[d].slot # s
  BY DEF AInv, PlaceInv, PlaceOk, Apart
<1>2. gate'.pending = gate.pending - 1
  <2>1. gate.pending = Cardinality(Busy) /\ s \in Busy /\ Busy \in SUBSET Slots
    BY <1>1 DEF AInv, IInv, PendingCounts, Busy
  <2>2. gate.pending > 0
    BY <1>1, <2>1, SlotsAreCounted
  <2> QED BY <1>1, <2>2
<1>3. ASSUME NEW d \in Calls \ {c}, Inside(d)
      PROVE  slot'[call[d].slot] = slot[call[d].slot] /\ call[d].slot \in Slots
  BY <1>1, <1>3 DEF AInv, PlaceInv, PlaceOk
<1>4. PlaceInv'
  <2>0. \A d \in Calls \ {c} : (Inside(d)' <=> Inside(d)) /\ call'[d].slot = call[d].slot
    BY OneCallChanges
  <2>1. ASSUME NEW d \in Calls \ {c} PROVE PlaceOk(d)'
    BY <1>3, <2>0 DEF AInv, PlaceInv, PlaceOk
  <2>2. PlaceOk(c)'
    BY DEF PlaceOk
  <2>3. ASSUME NEW d \in Calls, NEW e \in Calls PROVE Apart(d, e)'
    BY <2>0 DEF AInv, PlaceInv, Apart
  <2>4. ASSUME NEW r \in Slots PROVE WorkerOk(r)'
    <3>1. slot'[r].proc = slot[r].proc /\ slot'[r].conn = slot[r].conn
      OBVIOUS
    <3> QED BY <3>1 DEF AInv, PlaceInv, WorkerOk, Alive
  <2> QED BY <2>1, <2>2, <2>3, <2>4 DEF AInv, PlaceInv
<1>5. \A r \in Slots : WorkerIn(r)' = WorkerIn(r)
  BY SlotKeepsWorker
<1>6. Shut' = Shut /\ Place(c) # None /\ Place(c)' = None
  BY DEF Shut, Place, Inside
<1> QED BY <1>2, <1>4, <1>5, <1>6

LEMMA FinishAnswers ==
    ASSUME AInv, NEW c \in Calls, Finish(c)
    PROVE  PlaceInv' /\ Admission!Answer(c)
<1> DEFINE s == call[c].slot
<1>t. Typed /\ LifeOk(c) /\ call[c] \in CallRow
  BY TypeOKTyped DEF AInv, IInv, CallInv, Typed
<1>1. /\ call[c].pc = "received" /\ ~call[c].cancelled /\ ~call[c].finished /\ ~call[c].answered
      /\ call[c].got = c /\ s \in Slots /\ s # None
  BY <1>t, GateAssumption DEF Finish, LifeOk
<1>2. /\ call'[c] = [call[c] EXCEPT !.pc = "ended", !.finished = TRUE, !.answered = TRUE]
      /\ \A d \in Calls \ {c} : call'[d] = call[d]
  BY <1>t DEF Finish, Typed
<1>3. call'[c].finished /\ call'[c].answered /\ call'[c].got = c /\ call'[c].slot = s
  BY <1>t, <1>1, <1>2 DEF CallRow
<1>4. slot[s] \in SlotRow /\ slot' = [slot EXCEPT ![s].busy = FALSE]
  BY <1>t, <1>1 DEF Finish, Typed
<1>5. /\ slot'[s].conn = slot[s].conn /\ slot'[s].proc = slot[s].proc
      /\ \A r \in Slots \ {s} : slot'[r] = slot[r]
  BY <1>t, <1>4 DEF Typed, SlotRow
<1>6. /\ gate'.pending = IF slot[s].busy /\ gate.pending > 0 THEN gate.pending - 1 ELSE gate.pending
      /\ gate'.closed = gate.closed /\ recovery' = recovery /\ down'.phase = down.phase
  BY <1>t DEF Finish, Typed, GateRow
<1>7. Inside(c) /\ ~Inside(c)'
  BY <1>1, <1>3 DEF Inside
<1>8. /\ PlaceInv' /\ Shut' = Shut /\ Place(c) # None /\ Place(c)' = None
      /\ gate'.pending = gate.pending - 1
      /\ [r \in Slots |-> WorkerIn(r)]' = [r \in Slots |-> WorkerIn(r)]
  BY <1>1, <1>2, <1>5, <1>6, <1>7, LeavesSlot
<1>9. Fate(c) = "undecided" /\ Fate(c)' = "answered" /\ AnswerOf(c)' = c
  BY <1>1, <1>3 DEF Fate, AnswerOf
<1> QED BY <1>2, <1>8, <1>9, OneCallChanges DEF Admission!Answer, Admission!Leaves

LEMMA CancelLoses ==
    ASSUME AInv, NEW c \in Calls, Cancels(c), call[c].pc \in {"sending", "waiting", "received"},
           \A d \in Calls \ {c} : call'[d] = call[d],
           call'[c].cancelled, call'[c].slot = call[c].slot,
           call'[c].answered = call[c].answered, call'[c].got = call[c].got,
           recovery' = recovery, down'.phase = down.phase
    PROVE  PlaceInv' /\ Admission!Lose(c)
<1> DEFINE s == call[c].slot
<1>t. Typed /\ LifeOk(c)
  BY TypeOKTyped DEF AInv, IInv, CallInv
<1>1. /\ ~call[c].cancelled /\ ~call[c].finished /\ ~call[c].answered /\ s \in Slots /\ s # None
      /\ slot' = [slot EXCEPT ![s].busy = FALSE, ![s].ready = FALSE, ![s].stopping = TRUE]
  BY <1>t, GateAssumption DEF Cancels, LifeOk
<1>2. /\ slot'[s].conn = slot[s].conn /\ slot'[s].proc = slot[s].proc
      /\ \A r \in Slots \ {s} : slot'[r] = slot[r]
  BY <1>t, <1>1 DEF Typed, SlotRow
<1>3. /\ gate'.pending = IF slot[s].busy /\ gate.pending > 0 THEN gate.pending - 1 ELSE gate.pending
      /\ gate'.closed = gate.closed
  BY <1>t DEF Cancels, Typed, GateRow
<1>4. Inside(c) /\ ~Inside(c)'
  BY <1>1 DEF Inside
<1>5. /\ PlaceInv' /\ Shut' = Shut /\ Place(c) # None /\ Place(c)' = None
      /\ gate'.pending = gate.pending - 1
      /\ [r \in Slots |-> WorkerIn(r)]' = [r \in Slots |-> WorkerIn(r)]
  BY <1>2, <1>3, <1>4, LeavesSlot
<1>6. Fate(c) = "undecided" /\ Fate(c)' = "lost" /\ AnswerOf(c)' = AnswerOf(c)
  BY <1>1 DEF Fate, AnswerOf
<1>7. [d \in Calls |-> AnswerOf(d)]' = [d \in Calls |-> AnswerOf(d)]
  BY <1>6, OneCallChanges
<1> QED BY <1>5, <1>6, <1>7, OneCallChanges DEF Admission!Lose, Admission!Leaves
LEMMA GivingUpLoses ==
    ASSUME AInv, NEW c \in Calls, SendFails(c) \/ WaitGivesUp(c) \/ Disconnect(c)
    PROVE  PlaceInv' /\ Admission!Lose(c)
<1>t. Typed /\ call[c] \in CallRow
  BY TypeOKTyped DEF AInv, IInv, Typed
<1>1. PICK pc \in {"ended", call[c].pc} :
        call' = [call EXCEPT ![c].pc = pc, ![c].cancelled = TRUE, ![c].stop = "killing"]
  BY DEF SendFails, WaitGivesUp, Disconnect, CancelsAndGoes
<1>2. /\ Cancels(c) /\ recovery' = recovery /\ down' = down
      /\ call[c].pc \in {"sending", "waiting", "received"}
  BY DEF SendFails, WaitGivesUp, Disconnect, CancelsAndGoes
<1>3. /\ call'[c] = [call[c] EXCEPT !.pc = pc, !.cancelled = TRUE, !.stop = "killing"]
      /\ \A d \in Calls \ {c} : call'[d] = call[d]
  BY <1>t, <1>1 DEF Typed
<1>4. /\ call'[c].cancelled /\ call'[c].slot = call[c].slot
      /\ call'[c].answered = call[c].answered /\ call'[c].got = call[c].got
  BY <1>t, <1>3 DEF CallRow
<1> QED BY <1>2, <1>3, <1>4, CancelLoses

LEMMA FirstPassLoses ==
    ASSUME AInv, NEW s \in Slots, FirstPassCancels(s)
    PROVE  PlaceInv' /\ \E c \in Calls : Admission!Lose(c)
<1>t. Typed
  BY TypeOKTyped DEF AInv, IInv
<1>1. PICK c \in LiveHandles(s) :
        Cancels(c) /\ call' = [call EXCEPT ![c].cancelled = TRUE, ![c].stop = "killing"]
  BY DEF FirstPassCancels
<1>2. c \in Calls /\ call[c].pc \in {"sending", "waiting", "received"} /\ call[c] \in CallRow
  BY <1>t DEF LiveHandles, Typed
<1>3. /\ call'[c] = [call[c] EXCEPT !.cancelled = TRUE, !.stop = "killing"]
      /\ \A d \in Calls \ {c} : call'[d] = call[d]
  BY <1>t, <1>1, <1>2 DEF Typed
<1>4. /\ call'[c].cancelled /\ call'[c].slot = call[c].slot
      /\ call'[c].answered = call[c].answered /\ call'[c].got = call[c].got
  BY <1>2, <1>3 DEF CallRow
<1>5. recovery' = recovery /\ down'.phase = down.phase
  BY <1>t DEF FirstPassCancels, Typed, DownRow
<1> QED BY <1>1, <1>2, <1>3, <1>4, <1>5, CancelLoses

-----------------------------------------------------------------------------
(* Workers.                                                                 *)

\* Nobody is in a slot that is in recovery, or whose call's cancel has yet to
\* kill its worker, while the gate is open.
LEMMA NobodyInside ==
    ASSUME AInv, NEW s \in Slots, ~gate.closed,
           \/ recovery[s] \notin {"none", "up"}
           \/ \E c \in Calls : Stopping(c) /\ call[c].slot = s
    PROVE  \A d \in Calls : Inside(d) => call[d].slot # s
<1> SUFFICES ASSUME NEW d \in Calls, Inside(d), call[d].slot = s PROVE FALSE
  OBVIOUS
<1>1. Owns(d) /\ ~call[d].cancelled /\ ~Stopping(d)
  BY DEF AInv, PlaceInv, PlaceOk, Inside, Owns, IInv, TypeOK, CallInv, LifeOk, Stopping
<1>2. recovery[s] \in {"none", "up"}
  BY <1>1 DEF AInv, IInv, CallInv, OwnerOk
<1>3. PICK c \in Calls : Stopping(c) /\ call[c].slot = s
  BY <1>2
<1>4. Owns(c)
  BY <1>3 DEF Owns
<1>5. c = d
  BY <1>1, <1>3, <1>4 DEF AInv, IInv, CallInv
<1> QED BY <1>1, <1>3, <1>5

\* One slot's worker or pipe changes, and no call.
LEMMA OneSlotChanges ==
    ASSUME AInv, NEW s \in Slots, \A c \in Calls : CallStays(c), GateStays,
           \A r \in Slots \ {s} : SlotStays(r),
           slot'[s].busy = slot[s].busy,
           slot'[s].conn \/ slot'[s].conn = slot[s].conn \/ gate.closed
              \/ \A c \in Calls : Inside(c) => call[c].slot # s,
           WorkerOk(s)'
    PROVE  /\ PlaceInv' /\ Shut' = Shut /\ gate'.pending = gate.pending
           /\ [r \in Slots |-> WorkerIn(r)]' = [[r \in Slots |-> WorkerIn(r)] EXCEPT ![s] = WorkerIn(s)']
           /\ [c \in Calls |-> Place(c)]' = [c \in Calls |-> Place(c)]
           /\ [c \in Calls |-> Fate(c)]' = [c \in Calls |-> Fate(c)]
           /\ [c \in Calls |-> AnswerOf(c)]' = [c \in Calls |-> AnswerOf(c)]
<1>1. \A c \in Calls : (Inside(c)' <=> Inside(c)) /\ call'[c].slot = call[c].slot
  BY CallKeepsPlace DEF CallStays
<1>2. \A r \in Slots \ {s} : WorkerIn(r)' = WorkerIn(r) /\ (Alive(r)' <=> Alive(r))
  BY SlotKeepsWorker DEF SlotStays
<1>3. PlaceInv'
  <2>1. ASSUME NEW c \in Calls PROVE PlaceOk(c)'
    <3>1. PlaceOk(c) /\ CallStays(c) /\ (Inside(c) => ~call[c].cancelled)
      BY DEF AInv, PlaceInv, Inside
    <3>2. ASSUME Inside(c)
          PROVE  /\ call[c].slot \in Slots /\ slot'[call[c].slot].busy = slot[call[c].slot].busy
                 /\ ~gate.closed => slot'[call[c].slot].conn
      BY <3>1, <3>2 DEF PlaceOk, SlotStays
    <3> QED BY <1>1, <3>1, <3>2 DEF PlaceOk, CallStays, GateStays
  <2>2. \A r \in Slots : WorkerOk(r)'
    BY <1>2 DEF AInv, PlaceInv, WorkerOk, SlotStays
  <2>3. gate'.closed => down'.phase # "no"
    BY DEF AInv, PlaceInv, GateStays
  <2>4. \A c, d \in Calls : Apart(c, d)'
    BY <1>1 DEF AInv, PlaceInv, Apart
  <2> QED BY <2>1, <2>2, <2>3, <2>4 DEF PlaceInv
<1>4. [r \in Slots |-> WorkerIn(r)]' = [[r \in Slots |-> WorkerIn(r)] EXCEPT ![s] = WorkerIn(s)']
  BY <1>2
<1> QED BY <1>3, <1>4, CallsStay, GateKeepsShut DEF GateStays

\* What a kill is to the callers.
KillSeen(s) ==
    Admission!WorkerGone(s) \/ Admission!WorkerFails(s) \/ UNCHANGED Admission!avars

LEMMA KillIsSeen ==
    ASSUME AInv, NEW s \in Slots, NEW gone \in BOOLEAN,
           slot[s].proc = "none" => gone,
           slot'[s].proc = (IF gone THEN "none" ELSE "stuck"), ~slot'[s].conn,
           slot'[s].busy = slot[s].busy, recovery'[s] = "clear" => slot'[s].proc = "none",
           \A r \in Slots \ {s} : SlotStays(r), \A c \in Calls : CallStays(c), GateStays,
           gate.closed \/ \A c \in Calls : Inside(c) => call[c].slot # s
    PROVE  PlaceInv' /\ KillSeen(s)
<1>1. WorkerOk(s)'
  BY DEF WorkerOk, Alive
<1>2. /\ PlaceInv' /\ Shut' = Shut /\ gate'.pending = gate.pending
      /\ [r \in Slots |-> WorkerIn(r)]' = [[r \in Slots |-> WorkerIn(r)] EXCEPT ![s] = WorkerIn(s)']
      /\ [c \in Calls |-> Place(c)]' = [c \in Calls |-> Place(c)]
      /\ [c \in Calls |-> Fate(c)]' = [c \in Calls |-> Fate(c)]
      /\ [c \in Calls |-> AnswerOf(c)]' = [c \in Calls |-> AnswerOf(c)]
  BY <1>1, OneSlotChanges
<1>3. Shut # "open" \/ \A c \in Calls : Place(c) # s
  BY GateAssumption DEF Shut, Place
<1>4. CASE gone /\ WorkerIn(s) # "none"
  <2>1. WorkerIn(s)' = "none"
    BY <1>4 DEF WorkerIn
  <2>2. Admission!WorkerGone(s)
    BY <1>2, <1>3, <1>4, <2>1 DEF Admission!WorkerGone, Admission!Empty
  <2> QED BY <1>2, <2>2 DEF KillSeen
<1>5. CASE ~gone /\ WorkerIn(s) = "live"
  <2>1. WorkerIn(s)' = "dead"
    BY <1>5 DEF WorkerIn, Alive
  <2>2. Admission!WorkerFails(s)
    BY <1>2, <1>5, <2>1 DEF Admission!WorkerFails
  <2> QED BY <1>2, <2>2 DEF KillSeen
<1>6. CASE WorkerIn(s)' = WorkerIn(s)
  <2>1. [r \in Slots |-> WorkerIn(r)]' = [r \in Slots |-> WorkerIn(r)]
    BY <1>2, <1>6
  <2> QED BY <1>2, <2>1 DEF KillSeen, Admission!avars
<1>7. WorkerIn(s)' = (IF gone THEN "none" ELSE "dead") /\ WorkerIn(s) \in {"none", "live", "dead"}
      /\ (WorkerIn(s) = "none" => gone)
  BY DEF WorkerIn, Alive
<1> QED BY <1>4, <1>5, <1>6, <1>7
\* Calls stay where only their cancels go on.
LEMMA CancelsGoOn ==
    ASSUME Typed, NEW c \in Calls, NEW stop \in {"clean", "unclean", "recover", "done"},
           call' = [call EXCEPT ![c].stop = stop]
    PROVE  \A d \in Calls : CallStays(d)
<1>1. call[c] \in CallRow /\ call'[c] = [call[c] EXCEPT !.stop = stop]
      /\ \A d \in Calls \ {c} : call'[d] = call[d]
  BY DEF Typed
<1>2. CallStays(c)
  BY <1>1 DEF CallStays, CallRow
<1> QED BY <1>1, <1>2, SameCallStays

\* Calls and slots that do not change stay.
LEMMA AllCallsStay ==
    ASSUME call' = call
    PROVE  \A c \in Calls : CallStays(c)
BY DEF CallStays

\* The slot a kill is of, and the other slots.
LEMMA KillDoes ==
    ASSUME Typed, NEW s \in Slots, NEW gone \in BOOLEAN,
           \/ Killed(s, gone) /\ \A r \in Slots \ {s} : recovery'[r] = recovery[r]
           \/ KilledAndFailed(s, gone)
    PROVE  /\ slot[s].proc = "none" => gone
           /\ slot'[s].proc = (IF gone THEN "none" ELSE "stuck")
           /\ ~slot'[s].conn /\ slot'[s].busy = slot[s].busy
           /\ \A r \in Slots \ {s} : SlotStays(r)
<1>1. slot[s] \in SlotRow /\ (slot[s].proc = "none" => gone)
  BY DEF Killed, KilledAndFailed, Typed
<1>2. /\ slot'[s].proc = (IF gone THEN "none" ELSE "stuck")
      /\ ~slot'[s].conn /\ slot'[s].busy = slot[s].busy
      /\ \A r \in Slots \ {s} : slot'[r] = slot[r]
  <2>1. CASE Killed(s, gone)
    BY <1>1, <2>1 DEF Killed, Typed, SlotRow
  <2>2. CASE KilledAndFailed(s, gone)
    BY <1>1, <2>2 DEF KilledAndFailed, Typed, SlotRow
  <2> QED BY <2>1, <2>2
<1>3. \A r \in Slots \ {s} : recovery'[r] = recovery[r]
  BY DEF KilledAndFailed, Typed
<1> QED BY <1>1, <1>2, <1>3 DEF SlotStays

\* The kill a cancel owes.
LEMMA CancelKillIsSeen ==
    ASSUME AInv, NEW c \in Calls, NEW gone \in BOOLEAN, CancelKills(c, gone)
    PROVE  PlaceInv' /\ KillSeen(call[c].slot) /\ call[c].slot \in Slots
<1> DEFINE s == call[c].slot
<1>t. Typed
  BY TypeOKTyped DEF AInv, IInv
<1>1. /\ Killed(s, gone) /\ UNCHANGED <<recovery, gate, down>>
      /\ call' = [call EXCEPT ![c].stop = IF gone THEN "clean" ELSE "unclean"]
  BY DEF CancelKills
<1>2. Stopping(c) /\ Owns(c) /\ s \in Slots /\ recovery[s] # "clear"
  BY DEF CancelKills, AInv, IInv, CallInv, LifeOk, OwnerOk, Owns, Stopping
<1>3. gate.closed \/ \A d \in Calls : Inside(d) => call[d].slot # s
  BY <1>2, NobodyInside
<1>4. \A d \in Calls : CallStays(d)
  BY <1>t, <1>1, CancelsGoOn
<1>5. GateStays
  BY <1>1 DEF GateStays
<1>6. /\ slot[s].proc = "none" => gone
      /\ slot'[s].proc = (IF gone THEN "none" ELSE "stuck")
      /\ ~slot'[s].conn /\ slot'[s].busy = slot[s].busy
      /\ \A r \in Slots \ {s} : SlotStays(r)
  BY <1>t, <1>1, <1>2, KillDoes
<1>7. recovery'[s] # "clear"
  BY <1>1, <1>2
<1> HIDE DEF s
<1>8. PlaceInv' /\ KillSeen(s)
  BY <1>2, <1>3, <1>4, <1>5, <1>6, <1>7, KillIsSeen
<1> QED BY <1>2, <1>8 DEF s

\* The kills of a recovery.
LEMMA RecoveryKillIsSeen ==
    ASSUME AInv, NEW s \in Slots, NEW gone \in BOOLEAN,
           \/ Seal(s, gone) \/ BootFails(s, gone)
           \/ ~gone /\ RecoveryCannotClear(s)
           \/ gone /\ RecoveryClears(s)
    PROVE  PlaceInv' /\ KillSeen(s)
<1>t. Typed
  BY TypeOKTyped DEF AInv, IInv
<1>1. call' = call /\ down' = down /\ recovery[s] \in {"sealing", "spawned", "started"}
  BY DEF Seal, BootFails, RecoveryCannotClear, RecoveryClears, KilledAndFailed
<1>2. gate'.closed = gate.closed /\ gate'.pending = gate.pending
  BY <1>t DEF Seal, BootFails, RecoveryCannotClear, RecoveryClears, StatusUnlessClosed, Typed, GateRow
<1>3. \/ Killed(s, gone) /\ gone /\ recovery' = [recovery EXCEPT ![s] = "clear"]
      \/ KilledAndFailed(s, gone)
  BY DEF Seal, BootFails, RecoveryCannotClear, RecoveryClears
<1>4. \/ Killed(s, gone) /\ \A r \in Slots \ {s} : recovery'[r] = recovery[r]
      \/ KilledAndFailed(s, gone)
  BY <1>t, <1>3 DEF Typed
<1>5. /\ slot[s].proc = "none" => gone
      /\ slot'[s].proc = (IF gone THEN "none" ELSE "stuck")
      /\ ~slot'[s].conn /\ slot'[s].busy = slot[s].busy
      /\ \A r \in Slots \ {s} : SlotStays(r)
  BY <1>t, <1>4, KillDoes
<1>6. recovery'[s] = "clear" => slot'[s].proc = "none"
  BY <1>t, <1>3, <1>5 DEF KilledAndFailed, Typed
<1>7. gate.closed \/ \A d \in Calls : Inside(d) => call[d].slot # s
  BY <1>1, NobodyInside
<1>8. GateStays
  BY <1>1, <1>2 DEF GateStays
<1>9. \A c \in Calls : CallStays(c)
  BY <1>1, AllCallsStay
<1> QED BY <1>5, <1>6, <1>7, <1>8, <1>9, KillIsSeen

\* The kills of the shutdown.
LEMMA PassKillIsSeen ==
    ASSUME AInv, NEW s \in Slots, NEW gone \in BOOLEAN,
           FirstPassKills(s, gone) \/ SecondPass(s, gone)
    PROVE  PlaceInv' /\ KillSeen(s)
<1>t. Typed
  BY TypeOKTyped DEF AInv, IInv
<1>1. /\ Killed(s, gone) /\ UNCHANGED <<recovery, call, gate>> /\ gate.closed
      /\ down'.phase = down.phase
  BY <1>t DEF FirstPassKills, SecondPass, AInv, IInv, DownInv, Typed, DownRow
<1>2. /\ slot[s].proc = "none" => gone
      /\ slot'[s].proc = (IF gone THEN "none" ELSE "stuck")
      /\ ~slot'[s].conn /\ slot'[s].busy = slot[s].busy
      /\ \A r \in Slots \ {s} : SlotStays(r)
  BY <1>t, <1>1, KillDoes
<1>3. recovery'[s] = "clear" => slot'[s].proc = "none"
  BY <1>1, <1>2 DEF AInv, PlaceInv, WorkerOk, Killed
<1>4. GateStays /\ \A c \in Calls : CallStays(c)
  BY <1>1, AllCallsStay DEF GateStays
<1> QED BY <1>1, <1>2, <1>3, <1>4, KillIsSeen
LEMMA SpawnIsSeen ==
    ASSUME AInv, NEW s \in Slots, Spawn(s)
    PROVE  PlaceInv' /\ Admission!WorkerComes(s)
<1>t. Typed /\ slot[s] \in SlotRow /\ s # None
  BY TypeOKTyped, GateAssumption DEF AInv, IInv, Typed
<1>1. /\ recovery[s] = "clear" /\ ~gate.closed /\ UNCHANGED <<call, gate, down>>
      /\ slot' = [slot EXCEPT ![s].proc = "booting", ![s].conn = TRUE, ![s].ready = FALSE]
      /\ recovery' = [recovery EXCEPT ![s] = "spawned"]
  BY DEF Spawn
<1>2. /\ slot'[s].proc = "booting" /\ slot'[s].conn /\ slot'[s].busy = slot[s].busy
      /\ \A r \in Slots \ {s} : slot'[r] = slot[r] /\ recovery'[r] = recovery[r]
      /\ recovery'[s] = "spawned"
  BY <1>t, <1>1 DEF Typed, SlotRow
<1>3. slot[s].proc = "none" /\ \A c \in Calls : Inside(c) => call[c].slot # s
  BY <1>1, NobodyInside DEF AInv, PlaceInv, WorkerOk
<1>4. WorkerOk(s)' /\ \A r \in Slots \ {s} : SlotStays(r)
  BY <1>2 DEF WorkerOk, SlotStays
<1>5. GateStays /\ \A c \in Calls : CallStays(c)
  BY <1>1, AllCallsStay DEF GateStays
<1>6. /\ PlaceInv' /\ Shut' = Shut /\ gate'.pending = gate.pending
      /\ [r \in Slots |-> WorkerIn(r)]' = [[r \in Slots |-> WorkerIn(r)] EXCEPT ![s] = WorkerIn(s)']
      /\ [c \in Calls |-> Place(c)]' = [c \in Calls |-> Place(c)]
      /\ [c \in Calls |-> Fate(c)]' = [c \in Calls |-> Fate(c)]
      /\ [c \in Calls |-> AnswerOf(c)]' = [c \in Calls |-> AnswerOf(c)]
  BY <1>2, <1>4, <1>5, OneSlotChanges
<1>7. WorkerIn(s) = "none" /\ WorkerIn(s)' = "live"
  BY <1>2, <1>3 DEF WorkerIn, Alive
<1>8. Shut = "open"
  BY <1>1 DEF Shut, AInv, IInv, DownInv
<1>9. \A c \in Calls : Place(c) # s
  BY <1>t, <1>3 DEF Place
<1> QED BY <1>6, <1>7, <1>8, <1>9 DEF Admission!WorkerComes, Admission!Empty

LEMMA DeathIsSeen ==
    ASSUME AInv, NEW s \in Slots, WorkerDies(s)
    PROVE  PlaceInv' /\ Admission!WorkerFails(s)
<1>t. Typed /\ slot[s] \in SlotRow
  BY TypeOKTyped DEF AInv, IInv, Typed
<1>1. /\ Alive(s) /\ UNCHANGED <<recovery, call, gate, down>>
      /\ slot' = [slot EXCEPT ![s].proc = "dead"]
  BY DEF WorkerDies
<1>2. /\ slot'[s].proc = "dead" /\ slot'[s].conn = slot[s].conn /\ slot'[s].busy = slot[s].busy
      /\ \A r \in Slots \ {s} : slot'[r] = slot[r]
  BY <1>t, <1>1 DEF Typed, SlotRow
<1>3. WorkerIn(s) = "live" /\ WorkerIn(s)' = "dead"
  BY <1>1, <1>2 DEF WorkerIn, Alive
<1>4. recovery[s] # "clear"
  BY <1>1 DEF AInv, PlaceInv, WorkerOk, Alive
<1>5. WorkerOk(s)' /\ \A r \in Slots \ {s} : SlotStays(r)
  BY <1>1, <1>2, <1>4 DEF WorkerOk, SlotStays, Alive
<1>6. GateStays /\ \A c \in Calls : CallStays(c)
  BY <1>1, AllCallsStay DEF GateStays
<1>7. /\ PlaceInv' /\ Shut' = Shut /\ gate'.pending = gate.pending
      /\ [r \in Slots |-> WorkerIn(r)]' = [[r \in Slots |-> WorkerIn(r)] EXCEPT ![s] = WorkerIn(s)']
      /\ [c \in Calls |-> Place(c)]' = [c \in Calls |-> Place(c)]
      /\ [c \in Calls |-> Fate(c)]' = [c \in Calls |-> Fate(c)]
      /\ [c \in Calls |-> AnswerOf(c)]' = [c \in Calls |-> AnswerOf(c)]
  BY <1>2, <1>5, <1>6, OneSlotChanges
<1> QED BY <1>3, <1>7 DEF Admission!WorkerFails

-----------------------------------------------------------------------------
(* Steps that no caller sees.                                               *)

LEMMA CancelIsQuiet ==
    ASSUME AInv, NEW c \in Calls,
           CancelEndsClosed(c) \/ CancelDecides(c) \/ CancelFails(c) \/ BeginRecovery(c)
    PROVE  PlaceInv' /\ UNCHANGED Admission!avars
<1>t. Typed
  BY TypeOKTyped DEF AInv, IInv
<1>1. down' = down /\ gate'.closed = gate.closed /\ gate'.pending = gate.pending
  BY <1>t DEF CancelEndsClosed, CancelDecides, CancelFails, BeginRecovery, Typed, GateRow
<1>2. \E stop \in {"clean", "unclean", "recover", "done"} : call' = [call EXCEPT ![c].stop = stop]
  BY DEF CancelEndsClosed, CancelDecides, CancelFails, BeginRecovery
<1>3. \A d \in Calls : CallStays(d)
  BY <1>t, <1>2, CancelsGoOn
<1>4. call[c].slot \in Slots
  BY DEF CancelEndsClosed, CancelDecides, CancelFails, BeginRecovery, AInv, IInv, CallInv, LifeOk, Stopping
<1>5. ASSUME NEW r \in Slots
      PROVE  slot'[r].proc = slot[r].proc /\ slot'[r].conn = slot[r].conn /\ slot'[r].busy = slot[r].busy
  <2>0. slot[r] \in SlotRow
    BY <1>t DEF Typed
  <2>1. CASE CancelEndsClosed(c)
    BY <1>t, <2>0, <2>1 DEF CancelEndsClosed, Typed, SlotRow
  <2>2. CASE CancelDecides(c)
    BY <2>2 DEF CancelDecides
  <2>3. CASE CancelFails(c)
    BY <1>t, <2>0, <2>3 DEF CancelFails, Typed, SlotRow
  <2>4. CASE BeginRecovery(c)
    BY <1>t, <2>0, <2>4 DEF BeginRecovery, Typed, SlotRow
  <2> QED BY <2>1, <2>2, <2>3, <2>4
<1>6. \A r \in Slots : recovery'[r] = "clear" => recovery[r] = "clear"
  BY <1>t, <1>4 DEF CancelEndsClosed, CancelDecides, CancelFails, BeginRecovery, Typed
<1> QED BY <1>1, <1>3, <1>5, <1>6, NobodySees DEF SlotStays, GateStays

LEMMA RecoveryIsQuiet ==
    ASSUME AInv, NEW s \in Slots,
           \/ ClaimDead(s) \/ Launch(s) \/ RecoveryFindsClosed(s) \/ SpawnFails(s) \/ Settle(s)
           \/ WorkerReplies(s)
    PROVE  PlaceInv' /\ UNCHANGED Admission!avars
<1>t. Typed
  BY TypeOKTyped DEF AInv, IInv
<1>1. /\ call' = call /\ down' = down /\ gate'.closed = gate.closed /\ gate'.pending = gate.pending
  BY <1>t DEF ClaimDead, Launch, RecoveryFindsClosed, SpawnFails, Settle, WorkerReplies,
              StatusUnlessClosed, Typed, GateRow
<1>2. ASSUME NEW r \in Slots
      PROVE  slot'[r].proc = slot[r].proc /\ slot'[r].conn = slot[r].conn /\ slot'[r].busy = slot[r].busy
  <2>0. slot[r] \in SlotRow
    BY <1>t DEF Typed
  <2>1. CASE ClaimDead(s)
    <3>1. \/ slot' = [slot EXCEPT ![s].ready = FALSE]
          \/ slot' = [slot EXCEPT ![s].ready = FALSE, ![s].recovering = TRUE, ![s].failures = @ + 1]
      BY <2>1 DEF ClaimDead
    <3>2. CASE r # s
      BY <1>t, <3>1, <3>2 DEF Typed
    <3>3. CASE r = s
      <4>1. \/ slot'[s] = [slot[s] EXCEPT !.ready = FALSE]
            \/ slot'[s] = [slot[s] EXCEPT !.ready = FALSE, !.recovering = TRUE, !.failures = @ + 1]
        BY <1>t, <3>1 DEF Typed
      <4> QED BY <2>0, <3>3, <4>1 DEF SlotRow
    <3> QED BY <3>2, <3>3
  <2>2. CASE SpawnFails(s)
    BY <1>t, <2>0, <2>2 DEF SpawnFails, Typed, SlotRow
  <2>3. CASE Settle(s)
    BY <1>t, <2>0, <2>3 DEF Settle, Typed, SlotRow
  <2>4. CASE Launch(s) \/ RecoveryFindsClosed(s) \/ WorkerReplies(s)
    BY <2>4 DEF Launch, RecoveryFindsClosed, WorkerReplies
  <2> QED BY <2>1, <2>2, <2>3, <2>4
<1>3. \A r \in Slots : recovery'[r] = "clear" => recovery[r] = "clear"
  BY <1>t DEF ClaimDead, Launch, RecoveryFindsClosed, SpawnFails, Settle, WorkerReplies, Typed
<1>4. \A c \in Calls : CallStays(c)
  BY <1>1, AllCallsStay
<1> QED BY <1>1, <1>2, <1>3, <1>4, NobodySees DEF SlotStays, GateStays

\* A worker that was booting is ready: to the callers it has been there.
LEMMA BootsIsQuiet ==
    ASSUME AInv, NEW s \in Slots, Boots(s)
    PROVE  PlaceInv' /\ UNCHANGED Admission!avars
<1>t. Typed /\ slot[s] \in SlotRow
  BY TypeOKTyped DEF AInv, IInv, Typed
<1>1. /\ slot[s].proc = "booting" /\ UNCHANGED <<call, gate, down>>
      /\ slot' = [slot EXCEPT ![s].proc = "up", ![s].ready = TRUE]
      /\ recovery' = [recovery EXCEPT ![s] = "up"]
  BY DEF Boots
<1>2. /\ slot'[s].proc = "up" /\ slot'[s].conn = slot[s].conn /\ slot'[s].busy = slot[s].busy
      /\ \A r \in Slots \ {s} : slot'[r] = slot[r] /\ recovery'[r] = recovery[r]
      /\ recovery'[s] = "up"
  BY <1>t, <1>1 DEF Typed, SlotRow
<1>3. WorkerIn(s)' = WorkerIn(s) /\ slot[s].conn
  BY <1>1, <1>2 DEF WorkerIn, Alive, AInv, PlaceInv, WorkerOk
<1>4. WorkerOk(s)' /\ \A r \in Slots \ {s} : SlotStays(r)
  BY <1>2, <1>3 DEF WorkerOk, SlotStays
<1>5. GateStays /\ \A c \in Calls : CallStays(c)
  BY <1>1, AllCallsStay DEF GateStays
<1>6. /\ PlaceInv' /\ Shut' = Shut /\ gate'.pending = gate.pending
      /\ [r \in Slots |-> WorkerIn(r)]' = [[r \in Slots |-> WorkerIn(r)] EXCEPT ![s] = WorkerIn(s)']
      /\ [c \in Calls |-> Place(c)]' = [c \in Calls |-> Place(c)]
      /\ [c \in Calls |-> Fate(c)]' = [c \in Calls |-> Fate(c)]
      /\ [c \in Calls |-> AnswerOf(c)]' = [c \in Calls |-> AnswerOf(c)]
  BY <1>2, <1>4, <1>5, OneSlotChanges
<1>7. [r \in Slots |-> WorkerIn(r)]' = [r \in Slots |-> WorkerIn(r)]
  BY <1>3, <1>6
<1> QED BY <1>6, <1>7 DEF Admission!avars

-----------------------------------------------------------------------------
(* The shutdown.                                                            *)

LEMMA ClosingIsSeen ==
    ASSUME AInv, Close \/ JoinThreads \/ ShutdownReturns
    PROVE  /\ PlaceInv'
           /\ Admission!Close \/ Admission!ShutCleanly \/ UNCHANGED Admission!avars
<1>t. Typed
  BY TypeOKTyped DEF AInv, IInv
<1>1. UNCHANGED <<slot, pipe, recovery, call>> /\ gate'.pending = gate.pending
  BY <1>t DEF Close, JoinThreads, ShutdownReturns, Typed, GateRow
<1>2. /\ Close => gate'.closed
      /\ down'.phase # "no"
      /\ gate.closed => gate'.closed
  <2>1. CASE Close
    BY <1>t, <2>1 DEF Close, Typed, GateRow, DownRow
  <2>2. CASE JoinThreads
    BY <1>t, <2>2 DEF JoinThreads, Close, Typed, GateRow, DownRow
  <2>3. CASE ShutdownReturns
    BY <1>t, <2>3 DEF ShutdownReturns, Close, Typed, GateRow, DownRow
  <2> QED BY <2>1, <2>2, <2>3
<1>3. PlaceInv'
  <2>1. ASSUME NEW c \in Calls PROVE PlaceOk(c)'
    <3>1. PlaceOk(c) /\ (Inside(c)' <=> Inside(c))
      BY <1>1 DEF AInv, PlaceInv, Inside
    <3> QED BY <1>1, <1>2, <3>1 DEF PlaceOk
  <2>2. ASSUME NEW c \in Calls, NEW d \in Calls PROVE Apart(c, d)'
    BY <1>1 DEF AInv, PlaceInv, Apart, Inside
  <2>3. ASSUME NEW s \in Slots PROVE WorkerOk(s)'
    BY <1>1 DEF AInv, PlaceInv, WorkerOk, Alive
  <2> QED BY <1>2, <2>1, <2>2, <2>3 DEF PlaceInv
<1>4. /\ [s \in Slots |-> WorkerIn(s)]' = [s \in Slots |-> WorkerIn(s)]
      /\ [c \in Calls |-> Place(c)]' = [c \in Calls |-> Place(c)]
      /\ [c \in Calls |-> Fate(c)]' = [c \in Calls |-> Fate(c)]
      /\ [c \in Calls |-> AnswerOf(c)]' = [c \in Calls |-> AnswerOf(c)]
  <2>1. \A s \in Slots : WorkerIn(s)' = WorkerIn(s)
    BY <1>1 DEF WorkerIn, Alive
  <2> QED BY <1>1, <2>1, AllCallsStay, CallsStay
<1>5. CASE Close
  <2>1. Shut = "open" /\ Shut' = "closed"
    BY <1>t, <1>2, <1>5 DEF Close, Shut, Typed, DownRow, AInv, IInv, PlaceInv
  <2> QED BY <1>1, <1>3, <1>4, <2>1 DEF Admission!Close
<1>6. CASE JoinThreads
  <2>1. Shut' = Shut
    BY <1>t, <1>6 DEF JoinThreads, Shut
  <2> QED BY <1>1, <1>3, <1>4, <2>1 DEF Admission!avars
<1>7. CASE ShutdownReturns
  <2>1. /\ down.phase = "second" /\ down.left = {} /\ gate.closed /\ gate'.closed
        /\ down'.phase = (IF down.dirty THEN "dirty" ELSE "clean")
    BY <1>t, <1>2, <1>7 DEF ShutdownReturns, AInv, IInv, DownInv, Typed, DownRow
  <2>2. CASE down.dirty
    <3>1. Shut' = Shut
      BY <2>1, <2>2 DEF Shut
    <3> QED BY <1>1, <1>3, <1>4, <3>1 DEF Admission!avars
  <2>3. CASE ~down.dirty
    <3>1. Shut = "closed" /\ Shut' = "clean"
      BY <2>1, <2>3 DEF Shut
    <3>2. \A s \in Slots : WorkerIn(s) = "none"
      BY <2>1, <2>3 DEF AInv, IInv, DownInv, WorkerIn
    <3> QED BY <1>1, <1>3, <1>4, <3>1, <3>2 DEF Admission!ShutCleanly
  <2> QED BY <2>2, <2>3
<1> QED BY <1>5, <1>6, <1>7

-----------------------------------------------------------------------------
(* The theorem.                                                             *)

LEMMA AdmissionStep ==
    ASSUME AInv, [Next]_vars
    PROVE  PlaceInv' /\ [Admission!Next]_(Admission!avars)
<1>1. ASSUME NEW c \in Calls, CallStep(c) \/ Disconnect(c)
      PROVE  PlaceInv' /\ [Admission!Next]_(Admission!avars)
  <2>1. ASSUME NEW s \in Slots, Checkout(c, s) PROVE PlaceInv' /\ [Admission!Next]_(Admission!avars)
    BY <2>1, CheckoutAdmits DEF Admission!Next
  <2>2. CASE MakeHandle(c) \/ Send(c) \/ WaitIsCancelled(c) \/ Receive(c) \/ FinishTooLate(c)
    BY <2>2, ThreadAdmission
  <2>3. CASE CheckoutFails(c) \/ (SendFindsNoPipe(c) /\ ~call[c].cancelled)
    BY <2>3, EndsUnserved DEF Admission!Next
  <2>4. CASE SendFindsNoPipe(c) /\ call[c].cancelled
    <3>1. call \in [Calls -> CallRow] /\ call' = [call EXCEPT ![c].pc = "ended"]
      BY <2>4, TypeOKTyped DEF AInv, IInv, Typed, SendFindsNoPipe, Goto
    <3>2. call'[c] = [call[c] EXCEPT !.pc = "ended"] /\ call[c] \in CallRow
      BY <3>1
    <3>3. /\ call'[c].pc = "ended" /\ call'[c].slot = call[c].slot
          /\ call'[c].cancelled = call[c].cancelled /\ call'[c].finished = call[c].finished
          /\ call'[c].answered = call[c].answered
      BY <3>2 DEF CallRow
    <3>4. \A d \in Calls \ {c} : call'[d] = call[d]
      BY <3>1
    <3> QED BY <2>4, <3>3, <3>4, ThreadMoves DEF SendFindsNoPipe
  <2>5. CASE SendFails(c) \/ WaitGivesUp(c) \/ Disconnect(c)
    BY <2>5, GivingUpLoses DEF Admission!Next
  <2>6. CASE Finish(c)
    BY <2>6, FinishAnswers DEF Admission!Next
  <2> QED BY <1>1, <2>1, <2>2, <2>3, <2>4, <2>5, <2>6 DEF CallStep
<1>2. ASSUME NEW s \in Slots, KillSeen(s) PROVE [Admission!Next]_(Admission!avars)
  BY <1>2 DEF KillSeen, Admission!Next
<1>3. ASSUME NEW c \in Calls, CancelStep(c)
      PROVE  PlaceInv' /\ [Admission!Next]_(Admission!avars)
  BY <1>2, <1>3, CancelKillIsSeen, CancelIsQuiet DEF CancelStep
<1>4. ASSUME NEW s \in Slots, ClaimDead(s) \/ RecoveryStep(s) \/ WorkerReplies(s) \/ WorkerDies(s)
      PROVE  PlaceInv' /\ [Admission!Next]_(Admission!avars)
  <2>1. CASE ClaimDead(s) \/ Launch(s) \/ RecoveryFindsClosed(s) \/ SpawnFails(s) \/ Settle(s)
             \/ WorkerReplies(s) \/ Boots(s)
    BY <2>1, RecoveryIsQuiet, BootsIsQuiet
  <2>2. CASE \E gone \in BOOLEAN : Seal(s, gone) \/ BootFails(s, gone)
    BY <1>2, <2>2, RecoveryKillIsSeen
  <2>3. CASE RecoveryCannotClear(s)
    BY <1>2, <2>3, RecoveryKillIsSeen
  <2>4. CASE RecoveryClears(s)
    BY <1>2, <2>4, RecoveryKillIsSeen
  <2>5. CASE Spawn(s)
    BY <2>5, SpawnIsSeen DEF Admission!Next
  <2>6. CASE WorkerDies(s)
    BY <2>6, DeathIsSeen DEF Admission!Next
  <2> QED BY <1>4, <2>1, <2>2, <2>3, <2>4, <2>5, <2>6 DEF RecoveryStep
<1>5. CASE Shutdown
  <2>1. CASE Close \/ JoinThreads \/ ShutdownReturns
    BY <2>1, ClosingIsSeen DEF Admission!Next
  <2>2. CASE \E s \in Slots : FirstPassCancels(s)
    BY <2>2, FirstPassLoses DEF Admission!Next
  <2>3. CASE \E s \in Slots, gone \in BOOLEAN : FirstPassKills(s, gone) \/ SecondPass(s, gone)
    BY <1>2, <2>3, PassKillIsSeen
  <2> QED BY <1>5, <2>1, <2>2, <2>3 DEF Shutdown
<1>6. CASE UNCHANGED vars
  <2>1. (\A c \in Calls : CallStays(c)) /\ (\A s \in Slots : SlotStays(s)) /\ GateStays
    BY <1>6 DEF vars, CallStays, SlotStays, GateStays
  <2> QED BY <2>1, NobodySees
<1> QED BY <1>1, <1>3, <1>4, <1>5, <1>6 DEF Next

LEMMA AdmissionInit ==
    ASSUME Init
    PROVE  PlaceInv /\ Admission!Init
<1>1. \A c \in Calls : ~Inside(c) /\ Place(c) = None /\ Fate(c) = "undecided" /\ AnswerOf(c) = None
  BY DEF Init, Inside, Place, Fate, AnswerOf
<1>2. \A s \in Slots : WorkerIn(s) = "live" /\ WorkerOk(s)
  BY DEF Init, WorkerIn, WorkerOk, Alive
<1>3. PlaceInv
  BY <1>1, <1>2 DEF Init, PlaceInv, PlaceOk, Apart
<1> QED BY <1>1, <1>2, <1>3 DEF Init, Admission!Init, Shut

\* A call that is in has its busy slot and, while the gate is open, a pipe; two
\* calls are never in one slot.
THEOREM CallsHavePlaces == Spec => []PlaceInv
<1>1. IInv /\ PlaceInv /\ [Next]_vars => PlaceInv'
  BY AdmissionStep DEF AInv
<1> QED BY <1>1, AdmissionInit, GateInvariant, PTL DEF Spec

\* The gate implements CallAdmission: what its callers see is one call in a
\* slot, its own answer or none, a true count, and workers that come and go
\* around the calls, whatever timeouts, deaths, recoveries and shutdown meet.
THEOREM Refinement == Spec => ImplementsAdmission
<1>1. IInv /\ PlaceInv /\ [Next]_vars => [Admission!Next]_(Admission!avars)
  BY AdmissionStep DEF AInv
<1> QED BY <1>1, AdmissionInit, CallsHavePlaces, GateInvariant, PTL
        DEF Spec, ImplementsAdmission, Admission!Spec
=============================================================================
