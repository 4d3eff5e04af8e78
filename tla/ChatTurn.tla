----------------------------- MODULE ChatTurn -----------------------------
(***************************************************************************)
(* chat.Service.Turn for ONE chat session: the attempts at its turns, each *)
(* an HTTP request with a client-chosen request id, over the rows of       *)
(* turn_idempotency, conversation_messages, conversation_sessions and      *)
(* session_slot_states, while procedures get new active versions.          *)
(*                                                                         *)
(* A turn with AI takes two transactions with the model call between them; *)
(* a keyword-only turn takes one.  Both kinds meet in one database when    *)
(* the service is restarted with another configuration.  Every transaction *)
(* locks the session row first (LockTurn), so it is one step.  Wording,    *)
(* slots and scores are abstracted: what a turn decides is any plan the    *)
(* planner can come to in the state it reads.                              *)
(***************************************************************************)
EXTENDS Naturals, FiniteSets

CONSTANTS
    Attempts,     \* HTTP requests that reach Turn
    Requests,     \* their request ids
    Payloads,     \* normalized messages
    Procedures,
    Active,       \* the procedures that have an active version at first
    MaxVersion,   \* versions of a procedure that are activated, in order
    MaxTries,     \* rounds of waiting for another attempt's claim
    None

ASSUME ChatAssumption ==
    /\ None \notin Attempts
    /\ Active \subseteq Procedures
    /\ MaxVersion \in Nat \ {0}
    /\ MaxTries \in Nat \ {0}

VARIABLES
    catalog,   \* the number of the active version of each procedure, 0 for none
    session,   \* the session's pin, pending candidates and slot state rows
    claim,     \* turn_idempotency, by request id
    answer,    \* the USER and ASSISTANT messages of a request id, or None
    asks,      \* the request id, message and mode of each attempt
    pc,        \* where each attempt is
    basis,     \* the fingerprint an attempt took before its model call
    watched,   \* whose claim a waiting attempt waits for
    tries,     \* rounds of waiting so far
    reply,     \* what the attempt answered its client
    seen       \* history: the session and catalog an attempt saw before its model call

vars == <<catalog, session, claim, answer, asks, pc, basis, watched, tries, reply, seen>>
attempt == <<asks, pc, basis, watched, tries, reply, seen>>

-----------------------------------------------------------------------------
(* Values.                                                                  *)

Versioned == [proc : Procedures, version : 1 .. MaxVersion]
SlotRow == [version : 0 .. MaxVersion, full : BOOLEAN]   \* version 0: no row
Session ==
    [pin : Versioned \cup {None}, pending : SUBSET Versioned, slots : [Procedures -> SlotRow]]

Claim ==
    [status : {"none", "PENDING", "COMPLETE"}, payload : Payloads \cup {None},
     owner : Attempts \cup {None}, lease : {"none", "live", "expired"}]

\* on is the procedure version the answer was decided with; by is None for
\* messages that are older than the turn_idempotency table.
Answer ==
    [by : Attempts \cup {None}, payload : Payloads, on : Versioned \cup {None}, ai : BOOLEAN]

ASSUME NoneAssumption ==
    None \notin Versioned \cup Answer \cup [by : Attempts \cup {None}, payload : Payloads]

Seen == [session : Session, catalog : [Procedures -> 0 .. MaxVersion]]

NoClaim == [status |-> "none", payload |-> None, owner |-> None, lease |-> "none"]
Reply ==
    [kind : {"none", "conflict", "lost", "exhausted", "answer"}, answer : Answer \cup {None}]

\* Mutant: the slot state of the pinned procedure is left out.
FingerprintWithoutPrior(s, cat) == [pin |-> s.pin, pending |-> s.pending, catalog |-> cat]

\* What the AI's proposal depends on.
Fingerprint(s, cat) ==
    [pin |-> s.pin, pending |-> s.pending, catalog |-> cat,
     prior |-> IF s.pin = None THEN None ELSE s.slots[s.pin.proc].full]

TypeOK ==
    /\ catalog \in [Procedures -> 0 .. MaxVersion]
    /\ session \in Session
    /\ claim \in [Requests -> Claim]
    /\ answer \in [Requests -> Answer \cup {None}]
    /\ asks \in [Attempts -> [request : Requests, payload : Payloads, mode : {"ai", "keyword"}]]
    /\ pc \in [Attempts -> {"begin", "calling", "waiting", "done"}]
    /\ watched \in [Attempts -> Attempts \cup {None}]
    /\ tries \in [Attempts -> 0 .. MaxTries - 1]
    /\ reply \in [Attempts -> Reply]
    /\ seen \in [Attempts -> Seen \cup {None}]

\* The session may be new, or answered before, which pinned a version and
\* created its slot state row.
NewSession ==
    [pin |-> None, pending |-> {},
     slots |-> [p \in Procedures |-> [version |-> 0, full |-> FALSE]]]

AnsweredSession(v, full) ==
    [pin |-> v, pending |-> {},
     slots |-> [NewSession.slots EXCEPT ![v.proc] = [version |-> v.version, full |-> full]]]

FirstSessions(cat) ==
    {NewSession} \cup
    {AnsweredSession(v, full) : v \in {w \in Versioned : w.version = cat[w.proc]}, full \in BOOLEAN}

\* Any message may come from before turn_idempotency existed.
Init ==
    /\ catalog = [p \in Procedures |-> IF p \in Active THEN 1 ELSE 0]
    /\ session \in FirstSessions(catalog)
    /\ claim = [r \in Requests |-> NoClaim]
    /\ answer \in [Requests -> [by : {None}, payload : Payloads, on : {None}, ai : {FALSE}] \cup {None}]
    /\ asks \in [Attempts -> [request : Requests, payload : Payloads, mode : {"ai", "keyword"}]]
    /\ pc = [t \in Attempts |-> "begin"]
    /\ basis = [t \in Attempts |-> None]
    /\ watched = [t \in Attempts |-> None]
    /\ tries = [t \in Attempts |-> 0]
    /\ reply = [t \in Attempts |-> [kind |-> "none", answer |-> None]]
    /\ seen = [t \in Attempts |-> None]

-----------------------------------------------------------------------------
(* The planner: what a turn may decide in a session with a catalog.         *)

InCatalog(cat) ==
    {[proc |-> p, version |-> cat[p]] : p \in {q \in Procedures : cat[q] > 0}}

Scope == [action |-> "scope", on |-> None, candidates |-> {}]
Confirm(cands) == [action |-> "confirm", on |-> None, candidates |-> cands]
Decide(v) == [action |-> "decide", on |-> v, candidates |-> {}]

\* handlePendingConfirm: yes or a name resolves to the version the question
\* was asked about, no or a lost definition ends it, else it is asked again.
PendingPlans(s) == {Decide(v) : v \in s.pending} \cup {Scope, Confirm(s.pending)}

\* planTurn without a pending question: a strong match of another procedure
\* pins its active version, a pinned session goes on with its own version.
KeywordPlans(s, cat) ==
    {Decide(v) : v \in {w \in InCatalog(cat) : s.pin = None \/ w.proc # s.pin.proc}}
    \cup IF s.pin = None
         THEN {Confirm(c) : c \in SUBSET InCatalog(cat) \ {{}}} \cup {Scope}
         ELSE {Decide(s.pin)} \cup {x \in {Scope} : s.slots[s.pin.proc].full}

\* What a validated proposal of the model leads to: an unpinned session is
\* pinned or asked; a pinned one gets its slots filled, or is asked about
\* another procedure together with any alternatives of the model.
AiPlans(s, cat) ==
    LET questions == {Confirm(c) : c \in SUBSET InCatalog(cat) \ {{}}}
    IN  IF s.pin = None THEN {Decide(v) : v \in InCatalog(cat)} \cup questions
        ELSE {Decide(s.pin)} \cup
             {q \in questions : \E v \in q.candidates : v.proc # s.pin.proc}

Plans(s, cat) == IF s.pending # {} THEN PendingPlans(s) ELSE KeywordPlans(s, cat)

-----------------------------------------------------------------------------
(* SaveTurn: what a plan does to the session.                               *)

\* Mutant: the pin follows the decision.
RepinnedToPlan(pin, plan) == IF plan.action # "decide" THEN pin ELSE plan.on

\* The session keeps its version when the procedure stays the same.
Repinned(pin, plan) ==
    IF plan.action # "decide" \/ (pin # None /\ pin.proc = plan.on.proc) THEN pin ELSE plan.on

\* The slot state row of a procedure keeps the version it was created with.
Reslotted(slots, plan, full) ==
    IF plan.action # "decide" THEN slots
    ELSE [slots EXCEPT ![plan.on.proc] =
             [version |-> IF @.version = 0 THEN plan.on.version ELSE @.version, full |-> full]]

Resumed(s, plan, full) ==
    [pin |-> Repinned(s.pin, plan), pending |-> plan.candidates,
     slots |-> Reslotted(s.slots, plan, full)]

-----------------------------------------------------------------------------
(* The transactions of an attempt.                                          *)

Request(t) == asks[t].request
Payload(t) == asks[t].payload
ClaimOf(t) == claim[Request(t)]
AnswerTo(t) == answer[Request(t)]

\* The attempt answers its client and its own variables are gone.
Replies(t, kind, a) ==
    /\ reply' = [reply EXCEPT ![t] = [kind |-> kind, answer |-> a]]
    /\ pc' = [pc EXCEPT ![t] = "done"]
    /\ basis' = [basis EXCEPT ![t] = None]
    /\ watched' = [watched EXCEPT ![t] = None]
    /\ tries' = [tries EXCEPT ![t] = 0]
    /\ seen' = [seen EXCEPT ![t] = None]
    /\ UNCHANGED <<catalog, asks>>

\* An attempt is at the start of one of its transactions.
InTransaction(t) == pc[t] \in {"begin", "calling"}

\* beginTurnPhase sees the claim of any status, the keyword-only turn only a
\* COMPLETE one; the messages are consulted when no claim is seen.
SeesClaim(t) ==
    IF asks[t].mode = "ai" THEN ClaimOf(t).status # "none" ELSE ClaimOf(t).status = "COMPLETE"

\* Mutant: the messages are not consulted when there is no claim.
FreshByClaimOnly(t) ==
    IF SeesClaim(t) THEN ClaimOf(t).status = "PENDING" /\ ClaimOf(t).payload = Payload(t)
    ELSE TRUE

Fresh(t) ==
    IF SeesClaim(t) THEN ClaimOf(t).status = "PENDING" /\ ClaimOf(t).payload = Payload(t)
    ELSE AnswerTo(t) = None

\* The request id was used for another message.  SaveIdempotency finds the
\* same of a PENDING claim the keyword-only turn did not look at.
TurnConflicts(t) ==
    /\ InTransaction(t)
    /\ \/ ClaimOf(t).status # "none" /\ ClaimOf(t).payload # Payload(t)
       \/ ~SeesClaim(t) /\ AnswerTo(t) # None /\ AnswerTo(t).payload # Payload(t)
    /\ Replies(t, "conflict", None)
    /\ UNCHANGED <<session, claim, answer>>

TurnReplays(t) ==
    /\ InTransaction(t)
    /\ ClaimOf(t).status = "COMPLETE"
    /\ ClaimOf(t).payload = Payload(t)
    /\ Replies(t, "answer", AnswerTo(t))
    /\ UNCHANGED <<session, claim, answer>>

Complete(t) ==
    claim' = [claim EXCEPT ![Request(t)] =
                 [status |-> "COMPLETE", payload |-> Payload(t), owner |-> None, lease |-> "none"]]

\* Mutant: a replayed legacy turn asks its question again.
TurnReplaysLegacyAgain(t) ==
    /\ InTransaction(t)
    /\ ClaimOf(t).status = "none"
    /\ AnswerTo(t) # None
    /\ AnswerTo(t).payload = Payload(t)
    /\ Complete(t)
    /\ \E c \in SUBSET InCatalog(catalog) : session' = Resumed(session, Confirm(c), FALSE)
    /\ Replies(t, "answer", AnswerTo(t))
    /\ UNCHANGED answer

\* replayLegacyTurn answers from the messages and fills in the missing row.
TurnReplaysLegacy(t) ==
    /\ InTransaction(t)
    /\ ClaimOf(t).status = "none"
    /\ AnswerTo(t) # None
    /\ AnswerTo(t).payload = Payload(t)
    /\ Complete(t)
    /\ Replies(t, "answer", AnswerTo(t))
    /\ UNCHANGED <<session, answer>>

\* finishPlan: messages, session and claim are written together.
Saves(t, plan, ai) ==
    /\ ClaimOf(t).status = "none" \/ ClaimOf(t).payload = Payload(t)
    /\ \E full \in BOOLEAN : session' = Resumed(session, plan, full)
    /\ answer' = [answer EXCEPT ![Request(t)] =
                     [by |-> t, payload |-> Payload(t), on |-> plan.on, ai |-> ai]]
    /\ Complete(t)
    /\ Replies(t, "answer", answer'[Request(t)])

\* One transaction answers: a keyword-only turn, or a question is pending.
\* That the same request is in its model call elsewhere does not matter.
TurnDecides(t) ==
    /\ InTransaction(t)
    /\ Fresh(t)
    /\ asks[t].mode = "keyword" \/ session.pending # {}
    /\ \E plan \in Plans(session, catalog) : Saves(t, plan, FALSE)

\* ResolveExtractClaim: no claim, or one whose lease ran out.
TurnClaims(t) ==
    /\ pc[t] = "begin"
    /\ asks[t].mode = "ai"
    /\ Fresh(t)
    /\ session.pending = {}
    /\ ClaimOf(t).lease # "live"
    /\ claim' = [claim EXCEPT ![Request(t)] =
                    [status |-> "PENDING", payload |-> Payload(t), owner |-> t, lease |-> "live"]]
    /\ basis' = [basis EXCEPT ![t] = Fingerprint(session, catalog)]
    /\ seen' = [seen EXCEPT ![t] = [session |-> session, catalog |-> catalog]]
    /\ pc' = [pc EXCEPT ![t] = "calling"]
    /\ UNCHANGED <<catalog, session, answer, asks, watched, tries, reply>>

TurnWaits(t) ==
    /\ pc[t] = "begin"
    /\ asks[t].mode = "ai"
    /\ Fresh(t)
    /\ session.pending = {}
    /\ ClaimOf(t).lease = "live"
    /\ watched' = [watched EXCEPT ![t] = ClaimOf(t).owner]
    /\ pc' = [pc EXCEPT ![t] = "waiting"]
    /\ UNCHANGED <<catalog, session, claim, answer, asks, basis, tries, reply, seen>>

\* finishAIWrite: the model's proposal counts only if nothing it depended on
\* has changed; otherwise, and when it failed or is refused, keywords decide.
\* Who holds the claim by now is not asked.
TurnWrites(t) ==
    /\ pc[t] = "calling"
    /\ Fresh(t)
    /\ session.pending = {}
    /\ \/ \E plan \in Plans(session, catalog) : Saves(t, plan, FALSE)
       \/ /\ Fingerprint(session, catalog) = basis[t]
          /\ \E plan \in AiPlans(session, catalog) : Saves(t, plan, TRUE)

\* waitForCompletedClaim reads without a lock until the claim is COMPLETE.
WaiterReplays(t) ==
    /\ pc[t] = "waiting"
    /\ ClaimOf(t).status = "COMPLETE"
    /\ Replies(t, "answer", AnswerTo(t))
    /\ UNCHANGED <<session, claim, answer>>

\* Mutant: only another owner ends the wait.
WaitIsOverWhenTakenOver(t) ==
    /\ pc[t] = "waiting"
    /\ ClaimOf(t).status = "PENDING"
    /\ ClaimOf(t).owner # watched[t]

\* The lease it waits for ran out, or was taken over and the waiter's own
\* deadline, one lease long, has passed.
WaitIsOver(t) ==
    /\ pc[t] = "waiting"
    /\ ClaimOf(t).status = "PENDING"
    /\ ClaimOf(t).lease = "expired" \/ ClaimOf(t).owner # watched[t]

\* Mutant: a waiter takes the claim over before it goes round again, where
\* it then waits for itself.
WaiterTakesOver(t) ==
    /\ WaitIsOver(t)
    /\ tries[t] + 1 < MaxTries
    /\ tries' = [tries EXCEPT ![t] = @ + 1]
    /\ pc' = [pc EXCEPT ![t] = "begin"]
    /\ claim' = [claim EXCEPT ![Request(t)].owner = t, ![Request(t)].lease = "live"]
    /\ UNCHANGED <<catalog, session, answer, asks, basis, watched, reply, seen>>

WaiterTriesAgain(t) ==
    /\ WaitIsOver(t)
    /\ tries[t] + 1 < MaxTries
    /\ tries' = [tries EXCEPT ![t] = @ + 1]
    /\ pc' = [pc EXCEPT ![t] = "begin"]
    /\ UNCHANGED <<catalog, session, claim, answer, asks, basis, watched, reply, seen>>

WaiterGivesUp(t) ==
    /\ WaitIsOver(t)
    /\ tries[t] + 1 >= MaxTries
    /\ Replies(t, "exhausted", None)
    /\ UNCHANGED <<session, claim, answer>>

\* The client hangs up, a transaction fails or the process dies.
AttemptIsLost(t) ==
    /\ pc[t] # "done"
    /\ Replies(t, "lost", None)
    /\ UNCHANGED <<session, claim, answer>>

AttemptStep(t) ==
    \/ TurnConflicts(t) \/ TurnReplays(t) \/ TurnReplaysLegacy(t) \/ TurnDecides(t)
    \/ TurnClaims(t) \/ TurnWaits(t) \/ TurnWrites(t)
    \/ WaiterReplays(t) \/ WaiterTriesAgain(t) \/ WaiterGivesUp(t)

-----------------------------------------------------------------------------

\* claim_expires_at passes.
ClaimLeaseExpires(r) ==
    /\ claim[r].lease = "live"
    /\ claim' = [claim EXCEPT ![r].lease = "expired"]
    /\ UNCHANGED <<catalog, session, answer, attempt>>

\* activation.Service.Activate makes a newer version the active one.
Activate(p) ==
    /\ catalog[p] < MaxVersion
    /\ catalog' = [catalog EXCEPT ![p] = @ + 1]
    /\ UNCHANGED <<session, claim, answer, attempt>>

Next ==
    \/ \E t \in Attempts : AttemptStep(t) \/ AttemptIsLost(t)
    \/ \E r \in Requests : ClaimLeaseExpires(r)
    \/ \E p \in Procedures : Activate(p)

Spec == Init /\ [][Next]_vars

(* An attempt whose client and process are there goes on, and leases run    *)
(* out.  Nobody has to send a request or to activate a version.             *)
Started(t) == pc[t] # "begin" \/ tries[t] > 0

FairSpec ==
    /\ Spec
    /\ \A t \in Attempts : WF_vars(Started(t) /\ AttemptStep(t))
    /\ \A r \in Requests : WF_vars(ClaimLeaseExpires(r))

-----------------------------------------------------------------------------
(* Properties.                                                              *)

\* A request is answered once: whatever attempts overlap, lose their claim,
\* or write after it was taken over, the recorded answer is never replaced.
OneAnswerPerRequest ==
    [][\A r \in Requests : answer[r] # None => answer'[r] = answer[r]]_vars

\* Every attempt that got an answer got the recorded one, given to the very
\* message it sent.
RepliesAgree ==
    \A t \in Attempts : reply[t].kind = "answer" =>
        reply[t].answer = AnswerTo(t) /\ AnswerTo(t) # None /\ AnswerTo(t).payload = Payload(t)

\* The two records of a turn agree: a COMPLETE claim has its answer, to the
\* same message, and a PENDING one has none yet.
ClaimTellsTheAnswer ==
    \A r \in Requests :
        /\ claim[r].status = "PENDING" => answer[r] = None
        /\ claim[r].status = "COMPLETE" =>
               answer[r] # None /\ answer[r].payload = claim[r].payload

\* While a session stays with a procedure it stays with the version it
\* pinned, through activations and through questions about other procedures.
PinIsStable ==
    [][\A v \in Versioned :
          session.pin = v /\ session'.pin # v => session'.pin.proc # v.proc]_vars

\* Attempt t records what the model proposed to it.
RecordsProposal(t) ==
    /\ pc[t] = "calling"
    /\ AnswerTo(t) = None
    /\ AnswerTo(t)' # None /\ AnswerTo(t)'.by = t /\ AnswerTo(t)'.ai

\* A proposal of the model overwrites nothing that its attempt did not see before the
\* call: the pin, the question and every slot row it changes are as they were then,
\* though other attempts and activations may have come between, and whatever it
\* newly brings into the session was active then.
ProposalOverwritesOnlyWhatItSaw ==
    [][\A t \in Attempts : RecordsProposal(t) =>
          LET was == seen[t].session IN
          /\ session.pin = was.pin /\ session.pending = was.pending
          /\ \A p \in Procedures :
                 session'.slots[p] # session.slots[p] => session.slots[p] = was.slots[p]
          /\ session'.pending \cup ({AnswerTo(t)'.on} \ {None, session.pin})
                 \subseteq InCatalog(seen[t].catalog)]_vars

\* Nobody waits for what cannot come: a waiter has its answer, or goes round
\* again, or the lease it waits for is running and its holder is in its model
\* call or gone, and never itself one that waits or is about to.
WaitsAreForWork ==
    \A t \in Attempts : pc[t] = "waiting" =>
        \/ ClaimOf(t).status = "COMPLETE"
        \/ WaitIsOver(t)
        \/ ClaimOf(t).lease = "live" /\ pc[ClaimOf(t).owner] \in {"calling", "done"}

\* Waiting ends, also behind an attempt that died with its claim and behind
\* those that wait for the same claim.
WaitersEnd == \A t \in Attempts : pc[t] = "waiting" ~> pc[t] = "done"

\* The attempts at a session's turns implement Conversation: an answer that
\* Conversation records is the message pair of the request.
Spoken(a) == IF a = None THEN None ELSE [by |-> a.by, payload |-> a.payload]

Promised == INSTANCE Conversation WITH
    Clients <- Attempts,
    Memories <- Session,
    asks <- [t \in Attempts |-> [request |-> asks[t].request, payload |-> asks[t].payload]],
    answered <- [r \in Requests |-> Spoken(answer[r])],
    replied <- [t \in Attempts |-> Spoken(reply[t].answer)],
    memory <- session

ImplementsConversation == Promised!Spec

-----------------------------------------------------------------------------
(* What the documents say and the code does not keep.                       *)

\* docs/phase-0/db/data-model.md, 6b: the decision reads the definition of
\* the pinned version, not the newest active one.
DecidedByThePinnedVersion ==
    [][\A r \in Requests :
          answer[r] = None /\ answer'[r] # None /\ answer'[r].on # None
          => session'.pin = answer'[r].on]_vars

=============================================================================
