---------------------------- MODULE ChatProofs ----------------------------
(***************************************************************************)
(* Theorems of the turns of a chat session, for every number of attempts,  *)
(* requests, messages, procedures and versions.                            *)
(***************************************************************************)
EXTENDS ChatTurn, TLAPS

\* What an attempt that has not answered yet knows: a waiter waits for a
\* claim to its own message, and only an answer carries an answer.
AttemptInv(t) ==
    /\ pc[t] = "waiting" => ClaimOf(t).status # "none" /\ ClaimOf(t).payload = Payload(t)
    /\ pc[t] # "done" => reply[t].kind = "none"
    /\ reply[t].kind # "answer" => reply[t].answer = None

\* Only a claim whose turn is not decided has a lease.
LeaseInv == \A r \in Requests : claim[r].lease # "none" => claim[r].status = "PENDING"

\* The inductive invariant of ChatTurn.
ChatInv ==
    /\ TypeOK
    /\ ClaimTellsTheAnswer
    /\ RepliesAgree
    /\ LeaseInv
    /\ \A t \in Attempts : AttemptInv(t)

-----------------------------------------------------------------------------
(* The planner and the session row.                                         *)

\* A plan that decides names a version; the candidates of a question are versions.
Sound(plan) ==
    /\ plan.on \in Versioned \cup {None}
    /\ plan.candidates \in SUBSET Versioned
    /\ plan.action = "decide" => plan.on \in Versioned

\* The catalog offers versions that exist.
LEMMA CatalogIsVersioned ==
    ASSUME NEW cat \in [Procedures -> 0 .. MaxVersion] PROVE InCatalog(cat) \subseteq Versioned
BY ChatAssumption DEF InCatalog, Versioned

\* Whatever keywords or the model propose, what the turn writes is sound:
\* planTurn and planTurnAI build it from rows they have read.
LEMMA PlansAreSound ==
    ASSUME NEW s \in Session, NEW cat \in [Procedures -> 0 .. MaxVersion],
           NEW plan \in Plans(s, cat) \cup (IF s.pending = {} THEN AiPlans(s, cat) ELSE {})
    PROVE  Sound(plan)
<1>1. InCatalog(cat) \subseteq Versioned
  BY CatalogIsVersioned
<1>2. s.pin \in Versioned \cup {None} /\ s.pending \subseteq Versioned
  BY DEF Session
<1>3. Sound(Scope)
  BY DEF Sound, Scope
<1>4. ASSUME NEW c \in SUBSET Versioned PROVE Sound(Confirm(c))
  BY <1>4 DEF Sound, Confirm
<1>5. ASSUME NEW v \in Versioned PROVE Sound(Decide(v))
  BY <1>5 DEF Sound, Decide
<1>6. CASE plan \in PendingPlans(s)
  BY <1>2, <1>3, <1>4, <1>5, <1>6 DEF PendingPlans
<1>7. CASE plan \in KeywordPlans(s, cat)
  BY <1>1, <1>2, <1>3, <1>4, <1>5, <1>7 DEF KeywordPlans
<1>8. CASE plan \in AiPlans(s, cat)
  BY <1>1, <1>2, <1>4, <1>5, <1>8 DEF AiPlans
<1> QED BY <1>6, <1>7, <1>8 DEF Plans

\* SaveTurn leaves a session row of the right type.
LEMMA ResumedIsSession ==
    ASSUME NEW s \in Session, NEW plan, Sound(plan), NEW full \in BOOLEAN
    PROVE  Resumed(s, plan, full) \in Session
<1>1. Repinned(s.pin, plan) \in Versioned \cup {None}
  BY DEF Repinned, Sound, Session
<1>2. Reslotted(s.slots, plan, full) \in [Procedures -> SlotRow]
  <2>1. CASE plan.action # "decide"
    BY <2>1 DEF Reslotted, Session
  <2>2. CASE plan.action = "decide"
    <3>1. plan.on.proc \in Procedures /\ plan.on.version \in 0 .. MaxVersion
      BY <2>2, ChatAssumption DEF Sound, Versioned
    <3>2. s.slots \in [Procedures -> SlotRow]
      BY DEF Session
    <3> QED BY <2>2, <3>1, <3>2 DEF Reslotted, SlotRow
  <2> QED BY <2>1, <2>2
<1> QED BY <1>1, <1>2 DEF Resumed, Session, Sound

\* A session that stays with a procedure stays with its version.
LEMMA RepinnedKeepsVersion ==
    ASSUME NEW v \in Versioned, NEW plan, Repinned(v, plan) # v
    PROVE  Repinned(v, plan).proc # v.proc
BY NoneAssumption DEF Repinned

-----------------------------------------------------------------------------
(* The transactions.                                                        *)

\* Answering the client leaves the attempt's own variables well typed.
LEMMA RepliesType ==
    ASSUME TypeOK, NEW t \in Attempts, NEW kind \in {"conflict", "lost", "exhausted", "answer"},
           NEW a \in Answer \cup {None}, Replies(t, kind, a)
    PROVE  /\ catalog' \in [Procedures -> 0 .. MaxVersion]
           /\ asks' \in [Attempts -> [request : Requests, payload : Payloads, mode : {"ai", "keyword"}]]
           /\ pc' \in [Attempts -> {"begin", "calling", "waiting", "done"}]
           /\ watched' \in [Attempts -> Attempts \cup {None}]
           /\ tries' \in [Attempts -> 0 .. MaxTries - 1]
           /\ reply' \in [Attempts -> Reply]
           /\ seen' \in [Attempts -> Seen \cup {None}]
BY ChatAssumption DEF TypeOK, Replies, Reply

\* An attempt that ends without an answer changes nothing but itself.
LEMMA EndsUnanswered ==
    ASSUME ChatInv, NEW t \in Attempts, NEW kind \in {"conflict", "lost", "exhausted"},
           Replies(t, kind, None), UNCHANGED <<session, claim, answer>>
    PROVE  ChatInv'
<1>1. TypeOK'
  BY RepliesType DEF ChatInv, TypeOK
<1>2. ClaimTellsTheAnswer' /\ LeaseInv'
  BY DEF ChatInv, ClaimTellsTheAnswer, LeaseInv
<1>3. reply' = [reply EXCEPT ![t] = [kind |-> kind, answer |-> None]] /\ asks' = asks
      /\ reply \in [Attempts -> Reply] /\ pc' = [pc EXCEPT ![t] = "done"]
      /\ pc \in [Attempts -> {"begin", "calling", "waiting", "done"}]
  BY DEF Replies, ChatInv, TypeOK
<1>4. RepliesAgree'
  BY <1>3 DEF ChatInv, RepliesAgree, AnswerTo, Request, Payload
<1>5. \A u \in Attempts : AttemptInv(u)'
  BY <1>3 DEF ChatInv, AttemptInv, ClaimOf, Request, Payload
<1> QED BY <1>1, <1>2, <1>4, <1>5 DEF ChatInv

\* A turn that is replayed from its messages, whether the claim has to be
\* completed first or not.
LEMMA EndsReplayed ==
    ASSUME ChatInv, NEW t \in Attempts, Replies(t, "answer", AnswerTo(t)),
           AnswerTo(t) # None, AnswerTo(t).payload = Payload(t),
           UNCHANGED <<session, answer>>,
           UNCHANGED claim \/ (Complete(t) /\ ClaimOf(t).status = "none")
    PROVE  ChatInv'
<1>1. /\ asks' = asks
      /\ reply' = [reply EXCEPT ![t] = [kind |-> "answer", answer |-> AnswerTo(t)]]
      /\ pc' = [pc EXCEPT ![t] = "done"]
      /\ reply \in [Attempts -> Reply]
      /\ pc \in [Attempts -> {"begin", "calling", "waiting", "done"}]
      /\ claim \in [Requests -> Claim]
      /\ \A u \in Attempts : Request(u) \in Requests /\ Payload(u) \in Payloads
  BY DEF Replies, ChatInv, TypeOK, Request, Payload
<1>2. AnswerTo(t) \in Answer \cup {None}
  BY <1>1 DEF ChatInv, TypeOK, AnswerTo
<1>3. claim' \in [Requests -> Claim]
  BY <1>1 DEF Complete, Claim
<1>4. TypeOK'
  BY <1>2, <1>3, RepliesType DEF ChatInv, TypeOK
<1>5. ClaimTellsTheAnswer' /\ LeaseInv'
  BY <1>1 DEF ChatInv, ClaimTellsTheAnswer, LeaseInv, Complete, AnswerTo, ClaimOf
<1>6. RepliesAgree'
  BY <1>1 DEF ChatInv, RepliesAgree, AnswerTo, Request, Payload
<1>7. \A u \in Attempts : AttemptInv(u)'
  BY <1>1 DEF ChatInv, AttemptInv, ClaimOf, Request, Payload, Complete
<1> QED BY <1>4, <1>5, <1>6, <1>7 DEF ChatInv

\* A turn that may decide has no answer yet.
LEMMA FreshIsUnanswered ==
    ASSUME ChatInv, NEW t \in Attempts, Fresh(t) PROVE AnswerTo(t) = None
<1>1. Request(t) \in Requests
  BY DEF ChatInv, TypeOK, Request
<1> QED BY <1>1 DEF ChatInv, ClaimTellsTheAnswer, Fresh, ClaimOf, AnswerTo

\* finishPlan: the messages, the session and the claim fit together.
LEMMA EndsSaved ==
    ASSUME ChatInv, NEW t \in Attempts, Fresh(t), NEW plan, Sound(plan), NEW ai \in BOOLEAN,
           Saves(t, plan, ai)
    PROVE  ChatInv'
<1> DEFINE a == [by |-> t, payload |-> Payload(t), on |-> plan.on, ai |-> ai]
<1>1. /\ claim \in [Requests -> Claim]
      /\ answer \in [Requests -> Answer \cup {None}]
      /\ reply \in [Attempts -> Reply]
      /\ pc \in [Attempts -> {"begin", "calling", "waiting", "done"}]
      /\ \A u \in Attempts : Request(u) \in Requests /\ Payload(u) \in Payloads
  BY DEF ChatInv, TypeOK, Request, Payload
<1>2. a \in Answer /\ a # None /\ a.payload = Payload(t)
  BY <1>1, NoneAssumption DEF Answer, Sound
<1>3. answer' = [answer EXCEPT ![Request(t)] = a] /\ answer'[Request(t)] = a
  BY <1>1 DEF Saves
<1>4. Replies(t, "answer", a)
  BY <1>3 DEF Saves
<1>5. /\ asks' = asks
      /\ reply' = [reply EXCEPT ![t] = [kind |-> "answer", answer |-> a]]
      /\ pc' = [pc EXCEPT ![t] = "done"]
  BY <1>4 DEF Replies
<1>6. /\ claim' = [claim EXCEPT ![Request(t)] =
                     [status |-> "COMPLETE", payload |-> Payload(t), owner |-> None, lease |-> "none"]]
      /\ claim' \in [Requests -> Claim]
  BY <1>1 DEF Saves, Complete, Claim
<1>7. session' \in Session
  BY ResumedIsSession DEF Saves, ChatInv, TypeOK
<1>8. TypeOK'
  BY <1>1, <1>2, <1>3, <1>4, <1>6, <1>7, RepliesType DEF ChatInv, TypeOK
<1>9. ClaimTellsTheAnswer' /\ LeaseInv'
  BY <1>1, <1>2, <1>3, <1>6 DEF ChatInv, ClaimTellsTheAnswer, LeaseInv
<1>10. RepliesAgree'
  BY <1>1, <1>2, <1>3, <1>5, FreshIsUnanswered
  DEF ChatInv, RepliesAgree, AnswerTo, Request, Payload
<1>11. ClaimOf(t).status = "none" \/ ClaimOf(t).payload = Payload(t)
  BY DEF Saves
<1>12. \A u \in Attempts : AttemptInv(u)'
  BY <1>1, <1>5, <1>6, <1>11 DEF ChatInv, AttemptInv, ClaimOf, Request, Payload
<1> QED BY <1>8, <1>9, <1>10, <1>12 DEF ChatInv

\* A turn that writes saves a sound plan, having found no answer.
LEMMA DecisionsAreSaved ==
    ASSUME TypeOK, NEW t \in Attempts, TurnDecides(t) \/ TurnWrites(t)
    PROVE  Fresh(t) /\ \E plan, ai : Sound(plan) /\ ai \in BOOLEAN /\ Saves(t, plan, ai)
<1>1. session \in Session /\ catalog \in [Procedures -> 0 .. MaxVersion]
  BY DEF TypeOK
<1>2. CASE TurnDecides(t)
  <2>1. PICK plan \in Plans(session, catalog) : Saves(t, plan, FALSE)
    BY <1>2 DEF TurnDecides
  <2>2. Sound(plan)
    BY <1>1, PlansAreSound
  <2> QED BY <1>2, <2>1, <2>2 DEF TurnDecides
<1>3. CASE TurnWrites(t)
  <2>1. PICK plan, ai : /\ plan \in Plans(session, catalog) \/ plan \in AiPlans(session, catalog)
                        /\ ai \in BOOLEAN /\ Saves(t, plan, ai)
    BY <1>3 DEF TurnWrites
  <2>2. session.pending = {}
    BY <1>3 DEF TurnWrites
  <2>3. Sound(plan)
    BY <1>1, <2>1, <2>2, PlansAreSound
  <2> QED BY <1>3, <2>1, <2>3 DEF TurnWrites
<1> QED BY <1>2, <1>3

\* Every step preserves the invariant.
LEMMA ChatInvStep == ASSUME ChatInv, [Next]_vars PROVE ChatInv'
<1>0. CASE UNCHANGED vars
  BY <1>0 DEF vars, ChatInv, TypeOK, ClaimTellsTheAnswer, RepliesAgree, LeaseInv, AttemptInv,
     ClaimOf, AnswerTo, Request, Payload
<1>1. ASSUME NEW t \in Attempts, AttemptStep(t) \/ AttemptIsLost(t) PROVE ChatInv'
  <2>0. /\ TypeOK
        /\ Request(t) \in Requests
        /\ claim[Request(t)] \in Claim
        /\ claim \in [Requests -> Claim]
    BY DEF ChatInv, TypeOK, Request
  <2>1. CASE TurnConflicts(t) \/ WaiterGivesUp(t) \/ AttemptIsLost(t)
    BY <2>1, EndsUnanswered DEF TurnConflicts, WaiterGivesUp, AttemptIsLost
  <2>2. CASE TurnReplays(t) \/ WaiterReplays(t)
    <3>1. ClaimOf(t).status = "COMPLETE" /\ ClaimOf(t).payload = Payload(t)
      BY <2>2 DEF TurnReplays, WaiterReplays, ChatInv, AttemptInv
    <3>2. AnswerTo(t) # None /\ AnswerTo(t).payload = Payload(t)
      BY <2>0, <3>1 DEF ChatInv, ClaimTellsTheAnswer, AnswerTo, ClaimOf
    <3> QED BY <2>2, <3>2, EndsReplayed DEF TurnReplays, WaiterReplays
  <2>3. CASE TurnReplaysLegacy(t)
    BY <2>3, EndsReplayed DEF TurnReplaysLegacy
  <2>4. CASE TurnDecides(t) \/ TurnWrites(t)
    BY <2>0, <2>4, DecisionsAreSaved, EndsSaved
  <2>5. CASE TurnClaims(t)
    <3>1. AnswerTo(t) = None
      BY <2>5, FreshIsUnanswered DEF TurnClaims
    <3>2. ClaimOf(t).status = "none" \/ ClaimOf(t).payload = Payload(t)
      BY <2>5 DEF TurnClaims, Fresh, SeesClaim
    <3>3. /\ claim' = [claim EXCEPT ![Request(t)] =
                         [status |-> "PENDING", payload |-> Payload(t), owner |-> t, lease |-> "live"]]
          /\ pc' = [pc EXCEPT ![t] = "calling"]
          /\ UNCHANGED <<catalog, session, answer, asks, watched, tries, reply>>
          /\ seen' = [seen EXCEPT ![t] = [session |-> session, catalog |-> catalog]]
      BY <2>5 DEF TurnClaims
    <3>4. TypeOK'
      BY <2>0, <3>3 DEF TypeOK, Claim, Payload, Seen
    <3>5. ClaimTellsTheAnswer' /\ LeaseInv'
      BY <2>0, <3>1, <3>3 DEF ChatInv, ClaimTellsTheAnswer, LeaseInv, AnswerTo
    <3>6. RepliesAgree'
      BY <3>3 DEF ChatInv, RepliesAgree, AnswerTo, Request, Payload
    <3>7. \A u \in Attempts : AttemptInv(u)'
      <4> SUFFICES ASSUME NEW u \in Attempts PROVE AttemptInv(u)'
        OBVIOUS
      <4>1. AttemptInv(u) /\ Request(u) \in Requests /\ pc[t] = "begin"
            /\ pc \in [Attempts -> {"begin", "calling", "waiting", "done"}]
        BY <2>5 DEF ChatInv, TypeOK, Request, TurnClaims
      <4> QED BY <2>0, <3>2, <3>3, <4>1 DEF AttemptInv, ClaimOf, Request, Payload
    <3> QED BY <3>4, <3>5, <3>6, <3>7 DEF ChatInv
  <2>6. CASE TurnWaits(t)
    <3>1. ClaimOf(t).status # "none" /\ ClaimOf(t).payload = Payload(t)
      BY <2>6, <2>0 DEF TurnWaits, Fresh, SeesClaim, ChatInv, LeaseInv, ClaimOf
    <3>2. TypeOK'
      BY <2>6, <2>0 DEF TypeOK, TurnWaits, ClaimOf, Claim
    <3>3. ClaimTellsTheAnswer' /\ RepliesAgree' /\ LeaseInv'
      BY <2>6 DEF ChatInv, ClaimTellsTheAnswer, RepliesAgree, LeaseInv, AnswerTo, Request, Payload, TurnWaits
    <3>4. \A u \in Attempts : AttemptInv(u)'
      BY <2>6, <2>0, <3>1 DEF ChatInv, TypeOK, AttemptInv, ClaimOf, Request, Payload, TurnWaits
    <3> QED BY <3>2, <3>3, <3>4 DEF ChatInv
  <2>7. CASE WaiterTriesAgain(t)
    <3>1. TypeOK'
      BY <2>7, <2>0, ChatAssumption DEF TypeOK, WaiterTriesAgain
    <3>2. ClaimTellsTheAnswer' /\ RepliesAgree' /\ LeaseInv'
      BY <2>7 DEF ChatInv, ClaimTellsTheAnswer, RepliesAgree, LeaseInv, AnswerTo, Request, Payload,
         WaiterTriesAgain
    <3>3. \A u \in Attempts : AttemptInv(u)'
      BY <2>7, <2>0 DEF ChatInv, TypeOK, AttemptInv, ClaimOf, Request, Payload,
         WaiterTriesAgain, WaitIsOver
    <3> QED BY <3>1, <3>2, <3>3 DEF ChatInv
  <2> QED BY <1>1, <2>1, <2>2, <2>3, <2>4, <2>5, <2>6, <2>7 DEF AttemptStep
<1>2. ASSUME NEW r \in Requests, ClaimLeaseExpires(r) PROVE ChatInv'
  <2>1. /\ claim' = [claim EXCEPT ![r] = [claim[r] EXCEPT !.lease = "expired"]]
        /\ claim[r].lease = "live"
        /\ claim \in [Requests -> Claim]
        /\ UNCHANGED <<catalog, session, answer, asks, pc, basis, watched, tries, reply, seen>>
    BY <1>2 DEF ClaimLeaseExpires, ChatInv, TypeOK, attempt
  <2>2. /\ claim' \in [Requests -> Claim]
        /\ \A x \in Requests : claim'[x].status = claim[x].status /\ claim'[x].payload = claim[x].payload
        /\ \A x \in Requests : claim'[x].lease # "none" => claim[x].lease # "none"
    BY <2>1 DEF Claim
  <2>3. TypeOK' /\ ClaimTellsTheAnswer' /\ RepliesAgree' /\ LeaseInv'
    BY <2>1, <2>2 DEF ChatInv, TypeOK, ClaimTellsTheAnswer, RepliesAgree, LeaseInv, AnswerTo, Request, Payload
  <2>4. \A u \in Attempts : AttemptInv(u)'
    BY <2>1, <2>2 DEF ChatInv, TypeOK, AttemptInv, ClaimOf, Request, Payload
  <2> QED BY <2>3, <2>4 DEF ChatInv
<1>3. ASSUME NEW p \in Procedures, Activate(p) PROVE ChatInv'
  <2>1. TypeOK'
    BY <1>3, ChatAssumption DEF ChatInv, TypeOK, Activate, attempt
  <2> QED BY <1>3, <2>1 DEF Activate, attempt, ChatInv, ClaimTellsTheAnswer, RepliesAgree,
          LeaseInv, AttemptInv, ClaimOf, AnswerTo, Request, Payload
<1> QED BY <1>0, <1>1, <1>2, <1>3 DEF Next

\* The first state, with whatever messages and pins it finds.
LEMMA ChatInvInit == ASSUME Init PROVE ChatInv
<1>1. session \in Session
  <2>1. NewSession \in Session
    BY ChatAssumption DEF NewSession, SlotRow, Session
  <2>2. ASSUME NEW v \in Versioned, NEW full \in BOOLEAN PROVE AnsweredSession(v, full) \in Session
    <3>1. [version |-> v.version, full |-> full] \in SlotRow
      BY ChatAssumption DEF Versioned, SlotRow
    <3>2. NewSession.slots \in [Procedures -> SlotRow]
      BY <2>1 DEF Session
    <3>3. [NewSession.slots EXCEPT ![v.proc] = [version |-> v.version, full |-> full]]
            \in [Procedures -> SlotRow]
      BY <3>1, <3>2
    <3> QED BY <3>3 DEF AnsweredSession, Session
  <2>3. session \in FirstSessions(catalog)
    BY DEF Init
  <2> QED BY <2>1, <2>2, <2>3 DEF FirstSessions
<1>2. TypeOK
  <2>1. catalog \in [Procedures -> 0 .. MaxVersion]
    BY ChatAssumption DEF Init
  <2>2. claim \in [Requests -> Claim]
    BY DEF Init, Claim, NoClaim
  <2>3. answer \in [Requests -> Answer \cup {None}]
    BY DEF Init, Answer
  <2>4. reply \in [Attempts -> Reply]
    BY DEF Init, Reply
  <2>5. tries \in [Attempts -> 0 .. MaxTries - 1]
    BY ChatAssumption DEF Init
  <2>6. /\ watched \in [Attempts -> Attempts \cup {None}] /\ seen \in [Attempts -> {None}]
        /\ pc \in [Attempts -> {"begin"}]
    BY DEF Init
  <2> QED BY <1>1, <2>1, <2>2, <2>3, <2>4, <2>5, <2>6 DEF Init, TypeOK
<1> QED BY <1>2 DEF Init, ChatInv, ClaimTellsTheAnswer, RepliesAgree, LeaseInv, AttemptInv,
        NoClaim, ClaimOf, Request

-----------------------------------------------------------------------------
(* The theorems.                                                            *)

\* The invariant holds throughout.
THEOREM Invariance == Spec => []ChatInv
<1>1. ChatInv /\ [Next]_vars => ChatInv'
  BY ChatInvStep
<1> QED BY <1>1, ChatInvInit, PTL DEF Spec

\* The rows and the attempts keep their types: no round of waiting beyond
\* the last, no pin or slot row of a version that does not exist.
THEOREM TypeCorrect == Spec => []TypeOK
<1>1. ChatInv => TypeOK
  BY DEF ChatInv
<1> QED BY <1>1, Invariance, PTL

\* turn_idempotency and conversation_messages tell the same of every request.
THEOREM ClaimsTellTheAnswers == Spec => []ClaimTellsTheAnswer
<1>1. ChatInv => ClaimTellsTheAnswer
  BY DEF ChatInv
<1> QED BY <1>1, Invariance, PTL

\* Every attempt that is answered gets the recorded answer to its message.
THEOREM EveryReplyAgrees == Spec => []RepliesAgree
<1>1. ChatInv => RepliesAgree
  BY DEF ChatInv
<1> QED BY <1>1, Invariance, PTL

\* What each step does to the recorded answers.
LEMMA AnswerStep ==
    ASSUME ChatInv, [Next]_vars
    PROVE  \/ answer' = answer
           \/ \E t \in Attempts : \E plan, ai :
                 /\ TurnDecides(t) \/ TurnWrites(t)
                 /\ AnswerTo(t) = None
                 /\ Sound(plan) /\ ai \in BOOLEAN /\ Saves(t, plan, ai)
<1> SUFFICES ASSUME NEW t \in Attempts, TurnDecides(t) \/ TurnWrites(t)
             PROVE  \E plan, ai :
                       /\ AnswerTo(t) = None
                       /\ Sound(plan) /\ ai \in BOOLEAN /\ Saves(t, plan, ai)
  BY DEF Next, AttemptStep, vars, attempt, TurnConflicts, TurnReplays, TurnReplaysLegacy,
     TurnClaims, TurnWaits, WaiterReplays, WaiterTriesAgain, WaiterGivesUp, AttemptIsLost,
     ClaimLeaseExpires, Activate
<1> QED BY DecisionsAreSaved, FreshIsUnanswered DEF ChatInv

\* A request that has an answer keeps it, whichever attempts are still at it.
THEOREM AnsweredOnce == Spec => OneAnswerPerRequest
<1>1. ASSUME ChatInv, [Next]_vars, NEW r \in Requests, answer[r] # None
      PROVE  answer'[r] = answer[r]
  <2>1. CASE answer' = answer
    BY <2>1
  <2>2. ASSUME NEW t \in Attempts, NEW plan, NEW ai, AnswerTo(t) = None, Saves(t, plan, ai)
        PROVE  answer'[r] = answer[r]
    BY <1>1, <2>2 DEF Saves, AnswerTo
  <2> QED BY <1>1, <2>1, <2>2, AnswerStep
<1>2. ChatInv /\ [Next]_vars =>
          [\A r \in Requests : answer[r] # None => answer'[r] = answer[r]]_vars
  BY <1>1
<1> QED BY <1>2, Invariance, PTL DEF Spec, OneAnswerPerRequest

\* A session leaves the version it is pinned to only for another procedure.
THEOREM PinStable == Spec => PinIsStable
<1>1. ASSUME ChatInv, [Next]_vars, NEW v \in Versioned, session.pin = v, session'.pin # v
      PROVE  session'.pin.proc # v.proc
  <2>1. ASSUME NEW t \in Attempts, NEW plan, NEW ai, Saves(t, plan, ai)
        PROVE  session'.pin.proc # v.proc
    <3>1. PICK full \in BOOLEAN : session' = Resumed(session, plan, full)
      BY <2>1 DEF Saves
    <3>2. session'.pin = Repinned(v, plan)
      BY <1>1, <3>1 DEF Resumed
    <3> QED BY <1>1, <3>2, RepinnedKeepsVersion
  <2>2. session' = session \/ \E t \in Attempts : \E plan, ai : Saves(t, plan, ai)
    BY <1>1 DEF Next, AttemptStep, vars, attempt, TurnConflicts, TurnReplays, TurnReplaysLegacy,
       TurnDecides, TurnWrites, TurnClaims, TurnWaits, WaiterReplays, WaiterTriesAgain,
       WaiterGivesUp, AttemptIsLost, ClaimLeaseExpires, Activate
  <2> QED BY <1>1, <2>1, <2>2
<1>2. ChatInv /\ [Next]_vars =>
          [\A v \in Versioned :
              session.pin = v /\ session'.pin # v => session'.pin.proc # v.proc]_vars
  BY <1>1
<1> QED BY <1>2, Invariance, PTL DEF Spec, PinIsStable

-----------------------------------------------------------------------------
(* A proposal and its context.                                              *)

\* The row of the procedure a session is pinned to exists, and no row before the first pin.
PinnedRow(s) ==
    IF s.pin = None THEN s.slots = NewSession.slots ELSE s.slots[s.pin.proc].version # 0

\* The rows of session s are in session u, of the same versions.
RowsKept(s, u) ==
    \A p \in Procedures : s.slots[p].version # 0 => u.slots[p].version = s.slots[p].version

\* An attempt in its call has the fingerprint of what it saw, and no slot row it
\* saw has changed its version since.
SeenInv(t) ==
    pc[t] = "calling" =>
        /\ seen[t] \in Seen
        /\ basis[t] = Fingerprint(seen[t].session, seen[t].catalog)
        /\ PinnedRow(seen[t].session)
        /\ RowsKept(seen[t].session, session)

ContextInv ==
    /\ DOMAIN basis = Attempts
    /\ PinnedRow(session)
    /\ \A t \in Attempts : SeenInv(t)

\* A saved turn keeps the rows there were and makes the one it pins.
LEMMA ResumedKeepsRows ==
    ASSUME NEW s \in Session, PinnedRow(s), NEW plan, Sound(plan), NEW full \in BOOLEAN
    PROVE  PinnedRow(Resumed(s, plan, full)) /\ RowsKept(s, Resumed(s, plan, full))
<1> DEFINE u == Resumed(s, plan, full)
<1>1. /\ u.pin = Repinned(s.pin, plan) /\ u.slots = Reslotted(s.slots, plan, full)
      /\ s.slots \in [Procedures -> SlotRow] /\ s.pin \in Versioned \cup {None}
  BY DEF Resumed, Session
<1>2. CASE plan.action # "decide"
  <2>1. u.pin = s.pin /\ u.slots = s.slots
    BY <1>1, <1>2 DEF Repinned, Reslotted
  <2> QED BY <2>1 DEF PinnedRow, RowsKept
<1>3. CASE plan.action = "decide"
  <2> DEFINE p == plan.on.proc
             row == [version |-> IF s.slots[p].version = 0 THEN plan.on.version ELSE s.slots[p].version,
                     full |-> full]
  <2>1. plan.on \in Versioned /\ p \in Procedures /\ plan.on.version # 0 /\ plan.on # None
    BY <1>3, NoneAssumption DEF Sound, Versioned
  <2>2. u.slots = [s.slots EXCEPT ![p] = row]
    BY <1>1, <1>3 DEF Reslotted
  <2>3. row.version # 0 /\ (s.slots[p].version # 0 => row.version = s.slots[p].version)
    BY <2>1
  <2>4. u.slots[p] = row /\ \A q \in Procedures : q # p => u.slots[q] = s.slots[q]
    BY <1>1, <2>1, <2>2
  <2>5. RowsKept(s, u)
    BY <2>3, <2>4 DEF RowsKept
  <2>6. u.pin # None /\ u.pin.proc = p
    BY <1>1, <1>3, <2>1 DEF Repinned
  <2>7. u.slots[u.pin.proc].version # 0
    BY <2>3, <2>4, <2>6
  <2> HIDE DEF u
  <2>8. PinnedRow(u)
    BY <2>6, <2>7 DEF PinnedRow
  <2> QED BY <2>5, <2>8 DEF u
<1> QED BY <1>2, <1>3

\* What each step does to the session.
LEMMA SessionStep ==
    ASSUME ChatInv, [Next]_vars
    PROVE  \/ session' = session
           \/ \E t \in Attempts : \E plan, ai : Sound(plan) /\ ai \in BOOLEAN /\ Saves(t, plan, ai)
<1> SUFFICES ASSUME NEW t \in Attempts, TurnDecides(t) \/ TurnWrites(t)
             PROVE  \E plan, ai : Sound(plan) /\ ai \in BOOLEAN /\ Saves(t, plan, ai)
  BY DEF Next, AttemptStep, vars, attempt, TurnConflicts, TurnReplays, TurnReplaysLegacy,
     TurnClaims, TurnWaits, WaiterReplays, WaiterTriesAgain, WaiterGivesUp, AttemptIsLost,
     ClaimLeaseExpires, Activate
<1> QED BY DecisionsAreSaved DEF ChatInv

\* An attempt takes its fingerprint when it claims and keeps it until it ends.
LEMMA BasisStep ==
    ASSUME ChatInv, ContextInv, [Next]_vars, NEW t \in Attempts, pc'[t] = "calling"
    PROVE  \/ UNCHANGED <<pc[t], basis[t], seen[t]>>
           \/ /\ basis'[t] = Fingerprint(session, catalog) /\ session' = session
              /\ seen'[t] = [session |-> session, catalog |-> catalog]
<1> USE DEF ChatInv, TypeOK
<1>1. ASSUME NEW u \in Attempts, NEW kind, NEW a, Replies(u, kind, a)
      PROVE  UNCHANGED <<pc[t], basis[t], seen[t]>>
  <2>1. t # u
    BY <1>1 DEF Replies
  <2>2. /\ pc' = [pc EXCEPT ![u] = "done"] /\ basis' = [basis EXCEPT ![u] = None]
        /\ seen' = [seen EXCEPT ![u] = None]
    BY <1>1 DEF Replies
  <2> QED BY <2>1, <2>2 DEF ContextInv
<1>2. ASSUME NEW u \in Attempts, AttemptStep(u) \/ AttemptIsLost(u), ~TurnClaims(u), ~TurnWaits(u),
             ~WaiterTriesAgain(u)
      PROVE  \E kind, a : Replies(u, kind, a)
  BY <1>2 DEF AttemptStep, TurnConflicts, TurnReplays, TurnReplaysLegacy, TurnDecides, TurnWrites,
     WaiterReplays, WaiterGivesUp, AttemptIsLost, Saves
<1>3. ASSUME NEW u \in Attempts, TurnClaims(u)
      PROVE  \/ UNCHANGED <<pc[t], basis[t], seen[t]>>
             \/ /\ basis'[t] = Fingerprint(session, catalog) /\ session' = session
                /\ seen'[t] = [session |-> session, catalog |-> catalog]
  <2>1. /\ pc' = [pc EXCEPT ![u] = "calling"] /\ session' = session
        /\ basis' = [basis EXCEPT ![u] = Fingerprint(session, catalog)]
        /\ seen' = [seen EXCEPT ![u] = [session |-> session, catalog |-> catalog]]
    BY <1>3 DEF TurnClaims
  <2>2. CASE t = u
    BY <2>1, <2>2 DEF ContextInv
  <2>3. CASE t # u
    BY <2>1, <2>3 DEF ContextInv
  <2> QED BY <2>2, <2>3
<1>4. ASSUME NEW u \in Attempts, TurnWaits(u) \/ WaiterTriesAgain(u)
      PROVE  UNCHANGED <<pc[t], basis[t], seen[t]>>
  <2>1. PICK at \in {"waiting", "begin"} : pc' = [pc EXCEPT ![u] = at] /\ UNCHANGED <<basis, seen>>
    BY <1>4 DEF TurnWaits, WaiterTriesAgain
  <2> QED BY <2>1
<1>5. ASSUME UNCHANGED <<pc, basis, seen>> PROVE UNCHANGED <<pc[t], basis[t], seen[t]>>
  BY <1>5
<1>6. (\E r \in Requests : ClaimLeaseExpires(r)) \/ (\E p \in Procedures : Activate(p))
          \/ UNCHANGED vars => UNCHANGED <<pc, basis, seen>>
  BY DEF ClaimLeaseExpires, Activate, vars, attempt
<1> QED BY <1>1, <1>2, <1>3, <1>4, <1>5, <1>6 DEF Next

\* What an attempt saw before its call, and what its fingerprint is of.
LEMMA ContextStep == ASSUME ChatInv, ContextInv, [Next]_vars PROVE ContextInv'
<1>0. ChatInv'
  BY ChatInvStep
<1>1. DOMAIN basis' = Attempts
  BY DEF ContextInv, Next, AttemptStep, vars, attempt, TurnConflicts, TurnReplays,
     TurnReplaysLegacy, TurnDecides, TurnWrites, Saves, TurnClaims, TurnWaits, WaiterReplays,
     WaiterTriesAgain, WaiterGivesUp, AttemptIsLost, ClaimLeaseExpires, Activate, Replies
<1>2. PinnedRow(session') /\ RowsKept(session, session')
  <2>1. CASE session' = session
    BY <2>1 DEF ContextInv, RowsKept
  <2>2. ASSUME NEW t \in Attempts, NEW plan, NEW ai, Sound(plan), Saves(t, plan, ai)
        PROVE  PinnedRow(session') /\ RowsKept(session, session')
    BY <2>2, ResumedKeepsRows DEF Saves, ContextInv, ChatInv, TypeOK
  <2> QED BY <2>1, <2>2, SessionStep
<1>3. ASSUME NEW t \in Attempts PROVE SeenInv(t)'
  <2> SUFFICES ASSUME pc'[t] = "calling"
               PROVE  /\ seen'[t] \in Seen
                      /\ basis'[t] = Fingerprint(seen'[t].session, seen'[t].catalog)
                      /\ PinnedRow(seen'[t].session)
                      /\ RowsKept(seen'[t].session, session')
    BY DEF SeenInv
  <2>1. CASE UNCHANGED <<pc[t], basis[t], seen[t]>>
    <3>1. SeenInv(t) /\ pc[t] = "calling"
      BY <2>1 DEF ContextInv
    <3>2. RowsKept(seen[t].session, session')
      BY <1>2, <3>1 DEF SeenInv, RowsKept
    <3> QED BY <2>1, <3>1, <3>2 DEF SeenInv
  <2>2. CASE /\ basis'[t] = Fingerprint(session, catalog) /\ session' = session
             /\ seen'[t] = [session |-> session, catalog |-> catalog]
    BY <2>2 DEF ContextInv, ChatInv, TypeOK, Seen, RowsKept
  <2> QED BY <2>1, <2>2, BasisStep
<1> QED BY <1>1, <1>2, <1>3 DEF ContextInv

\* A proposal that is recorded was made in the session it is recorded in, but for
\* the slot rows of other procedures.
LEMMA RecordedInContext ==
    ASSUME ChatInv, ContextInv, [Next]_vars, NEW t \in Attempts, RecordsProposal(t)
    PROVE  /\ Fingerprint(session, catalog) = basis[t]
           /\ \E plan \in AiPlans(session, catalog), full \in BOOLEAN :
                 session' = Resumed(session, plan, full) /\ AnswerTo(t)'.on = plan.on
<1> USE DEF RecordsProposal
<1>1. answer' # answer /\ asks' = asks
  BY DEF AnswerTo, Request, ChatInv, TypeOK, Next, AttemptStep, vars, attempt,
     TurnConflicts, TurnReplays, TurnReplaysLegacy, TurnDecides, TurnWrites, TurnClaims,
     TurnWaits, WaiterReplays, WaiterTriesAgain, WaiterGivesUp, AttemptIsLost,
     ClaimLeaseExpires, Activate, Saves, Replies
<1>2. PICK u \in Attempts : TurnDecides(u) \/ TurnWrites(u)
  BY <1>1 DEF Next, AttemptStep, vars, attempt, TurnConflicts, TurnReplays,
     TurnReplaysLegacy, TurnClaims, TurnWaits, WaiterReplays, WaiterTriesAgain,
     WaiterGivesUp, AttemptIsLost, ClaimLeaseExpires, Activate
<1>3. ASSUME NEW plan, NEW ai, Saves(u, plan, ai) PROVE u = t /\ ai /\ AnswerTo(t)'.on = plan.on
  <2>1. answer' = [answer EXCEPT ![Request(u)] =
                      [by |-> u, payload |-> Payload(u), on |-> plan.on, ai |-> ai]]
    BY <1>3 DEF Saves
  <2>2. answer \in [Requests -> Answer \cup {None}] /\ Request(t) \in Requests
    BY DEF ChatInv, TypeOK, Request
  <2>3. AnswerTo(t)' = answer'[Request(t)]
    BY <1>1 DEF Request, AnswerTo
  <2>4. Request(u) = Request(t)
    BY <2>1, <2>2, <2>3 DEF AnswerTo
  <2>5. answer'[Request(t)] = [by |-> u, payload |-> Payload(u), on |-> plan.on, ai |-> ai]
    BY <2>1, <2>2, <2>4
  <2> QED BY <2>3, <2>5
<1>4. ~(\E plan \in Plans(session, catalog) : Saves(u, plan, FALSE))
  BY <1>3
<1>5. PICK plan \in AiPlans(session, catalog) : Saves(u, plan, TRUE)
  BY <1>2, <1>4 DEF TurnDecides, TurnWrites
<1>6. u = t /\ AnswerTo(t)'.on = plan.on /\ Fingerprint(session, catalog) = basis[u]
  BY <1>2, <1>3, <1>4, <1>5 DEF TurnDecides, TurnWrites
<1> QED BY <1>5, <1>6 DEF Saves

\* What a proposal does to the session it is recorded in.
LEMMA ProposalEffect ==
    ASSUME NEW s \in Session, NEW cat \in [Procedures -> 0 .. MaxVersion],
           NEW plan \in AiPlans(s, cat), NEW full \in BOOLEAN
    PROVE  /\ plan.candidates \cup ({plan.on} \ {None, s.pin}) \subseteq InCatalog(cat)
           /\ \A p \in Procedures : Resumed(s, plan, full).slots[p] # s.slots[p] =>
                  s.pin = None \/ s.pin.proc = p
<1>1. s.slots \in [Procedures -> SlotRow]
  BY DEF Session
<1>2. Resumed(s, plan, full).slots = Reslotted(s.slots, plan, full)
  BY DEF Resumed
<1>3. CASE s.pin = None
  <2>1. plan.candidates \cup ({plan.on} \ {None, s.pin}) \subseteq InCatalog(cat)
    BY <1>3 DEF AiPlans, Decide, Confirm
  <2> QED BY <1>3, <2>1
<1>4. CASE s.pin # None
  <2>1. /\ plan.candidates \cup ({plan.on} \ {None, s.pin}) \subseteq InCatalog(cat)
        /\ plan.action # "decide" \/ plan.on = s.pin
    BY <1>4 DEF AiPlans, Decide, Confirm
  <2> QED BY <1>1, <1>2, <2>1 DEF Reslotted
<1> QED BY <1>3, <1>4

\* Nothing that came between a model call and its result is overwritten: the
\* fingerprint, taken again, covers all that the result changes or relies on.
THEOREM ProposalsOverwriteOnlyWhatTheySaw == Spec => ProposalOverwritesOnlyWhatItSaw
<1> DEFINE A(t) ==
      LET was == seen[t].session IN
      /\ session.pin = was.pin /\ session.pending = was.pending
      /\ \A p \in Procedures :
             session'.slots[p] # session.slots[p] => session.slots[p] = was.slots[p]
      /\ session'.pending \cup ({AnswerTo(t)'.on} \ {None, session.pin})
             \subseteq InCatalog(seen[t].catalog)
<1>1. ASSUME ChatInv, ContextInv, [Next]_vars, NEW t \in Attempts, RecordsProposal(t) PROVE A(t)
  <2> DEFINE was == seen[t].session
  <2>1. PICK plan \in AiPlans(session, catalog), full \in BOOLEAN :
            session' = Resumed(session, plan, full) /\ AnswerTo(t)'.on = plan.on
    BY <1>1, RecordedInContext
  <2>2. /\ seen[t] \in Seen /\ basis[t] = Fingerprint(was, seen[t].catalog)
        /\ PinnedRow(was) /\ RowsKept(was, session) /\ PinnedRow(session)
    BY <1>1 DEF ContextInv, SeenInv, RecordsProposal
  <2>3. Fingerprint(session, catalog) = Fingerprint(was, seen[t].catalog)
    BY <1>1, <2>2, RecordedInContext
  <2>4. /\ session.pin = was.pin /\ session.pending = was.pending /\ catalog = seen[t].catalog
        /\ session.pin # None =>
               session.slots[session.pin.proc].full = was.slots[session.pin.proc].full
    BY <2>3 DEF Fingerprint
  <2>5. /\ session \in Session /\ was \in Session /\ catalog \in [Procedures -> 0 .. MaxVersion]
        /\ session.slots \in [Procedures -> SlotRow] /\ was.slots \in [Procedures -> SlotRow]
    BY <1>1, <2>2 DEF ChatInv, TypeOK, Seen, Session
  <2> HIDE DEF was
  <2>6. ASSUME NEW p \in Procedures, session'.slots[p] # session.slots[p]
        PROVE  session.slots[p] = was.slots[p]
    <3>1. CASE session.pin = None
      BY <2>2, <2>4, <3>1 DEF PinnedRow
    <3>2. CASE session.pin # None
      <4>1. session.pin.proc = p
        BY <2>1, <2>5, <2>6, <3>2, ProposalEffect
      <4>2. was.slots[p].version # 0 /\ session.slots[p].version = was.slots[p].version
        BY <2>2, <2>4, <3>2, <4>1 DEF PinnedRow, RowsKept
      <4>3. session.slots[p].full = was.slots[p].full
        BY <2>4, <3>2, <4>1
      <4> QED BY <2>5, <4>2, <4>3 DEF SlotRow
    <3> QED BY <3>1, <3>2
  <2>7. session'.pending = plan.candidates
    BY <2>1 DEF Resumed
  <2>8. session'.pending \cup ({AnswerTo(t)'.on} \ {None, session.pin}) \subseteq InCatalog(catalog)
    BY <2>1, <2>5, <2>7, ProposalEffect
  <2> QED BY <2>4, <2>6, <2>8 DEF was
<1>2. Init => ContextInv
  <2> SUFFICES ASSUME Init PROVE ContextInv
    OBVIOUS
  <2>1. PinnedRow(NewSession)
    BY DEF PinnedRow, NewSession
  <2>2. ASSUME NEW v \in Versioned, NEW full \in BOOLEAN PROVE PinnedRow(AnsweredSession(v, full))
    <3>1. v # None /\ v.proc \in Procedures /\ v.version # 0
      BY NoneAssumption DEF Versioned
    <3> QED BY <3>1 DEF PinnedRow, AnsweredSession, NewSession
  <2>3. PinnedRow(session)
    BY <2>1, <2>2 DEF Init, FirstSessions
  <2> QED BY <2>3 DEF Init, ContextInv, SeenInv
<1>3. ChatInv /\ ContextInv /\ [Next]_vars => ContextInv'
  BY ContextStep
<1>4. ChatInv /\ ContextInv /\ [Next]_vars => [\A t \in Attempts : RecordsProposal(t) => A(t)]_vars
  BY <1>1
<1> QED BY <1>2, <1>3, <1>4, Invariance, PTL DEF Spec, ProposalOverwritesOnlyWhatItSaw

-----------------------------------------------------------------------------
(* Refinement.                                                              *)

\* An answer that was given is seen as one by Conversation.
LEMMA SpokenAnswer ==
    ASSUME NEW a \in Answer
    PROVE  a # None /\ Spoken(a) = [by |-> a.by, payload |-> a.payload] /\ Spoken(a) # None
BY NoneAssumption DEF Spoken, Answer

\* The first state is one of Conversation's.
LEMMA ConversationInit == ASSUME Init PROVE Promised!Init
<1>1. TypeOK
  BY ChatInvInit DEF ChatInv
<1>2. ASSUME NEW a \in Answer \cup {None} PROVE Spoken(a) \in Promised!Answers \cup {None}
  BY <1>2, SpokenAnswer DEF Spoken, Promised!Answers, Answer
<1>3. \A t \in Attempts : Spoken(reply[t].answer) = None
  BY DEF Init, Spoken
<1> QED BY <1>1, <1>2, <1>3 DEF Promised!Init, TypeOK

\* Nothing Conversation speaks of changes when these are left alone.
LEMMA ConversationStutter ==
    ASSUME ChatInv, UNCHANGED <<asks, answer, session>>,
           \A t \in Attempts : reply'[t].answer = reply[t].answer
    PROVE  UNCHANGED Promised!cvars
BY DEF Promised!cvars, Spoken

\* A replayed turn is a reply of Conversation.
LEMMA ConversationReplay ==
    ASSUME ChatInv, NEW t \in Attempts, Replies(t, "answer", AnswerTo(t)),
           AnswerTo(t) # None, AnswerTo(t).payload = Payload(t), UNCHANGED <<session, answer>>
    PROVE  Promised!Replay(t)
<1>1. AnswerTo(t) \in Answer /\ Request(t) \in Requests /\ reply \in [Attempts -> Reply]
  BY DEF ChatInv, TypeOK, AnswerTo, Request
<1>2. reply' = [reply EXCEPT ![t] = [kind |-> "answer", answer |-> AnswerTo(t)]] /\ asks' = asks
  BY DEF Replies
<1>3. Spoken(AnswerTo(t)) # None /\ Spoken(AnswerTo(t)).payload = Payload(t)
  BY <1>1, SpokenAnswer
<1>4. [u \in Attempts |-> Spoken(reply[u].answer)]'
        = [[u \in Attempts |-> Spoken(reply[u].answer)] EXCEPT ![t] = Spoken(AnswerTo(t))]
  BY <1>1, <1>2 DEF Spoken
<1> QED BY <1>1, <1>2, <1>3, <1>4 DEF Promised!Replay, AnswerTo, Request, Payload, Spoken

\* A saved turn is an answer of Conversation.
LEMMA ConversationAnswer ==
    ASSUME ChatInv, NEW t \in Attempts, AnswerTo(t) = None, NEW plan, Sound(plan),
           NEW ai \in BOOLEAN, Saves(t, plan, ai)
    PROVE  Promised!Answer(t)
<1> DEFINE a == [by |-> t, payload |-> Payload(t), on |-> plan.on, ai |-> ai]
<1>1. /\ Request(t) \in Requests /\ Payload(t) \in Payloads
      /\ answer \in [Requests -> Answer \cup {None}] /\ reply \in [Attempts -> Reply]
  BY DEF ChatInv, TypeOK, Request, Payload
<1>2. a \in Answer
  BY <1>1 DEF Answer, Sound
<1>3. answer' = [answer EXCEPT ![Request(t)] = a] /\ answer'[Request(t)] = a
  BY <1>1 DEF Saves
<1>4. reply' = [reply EXCEPT ![t] = [kind |-> "answer", answer |-> a]] /\ asks' = asks
  BY <1>3 DEF Saves, Replies
<1>5. session' \in Session
  BY ResumedIsSession DEF Saves, ChatInv, TypeOK
<1>6. Spoken(a) = [by |-> t, payload |-> Payload(t)]
  BY <1>2, SpokenAnswer
<1>7. [r \in Requests |-> Spoken(answer[r])]'
        = [[r \in Requests |-> Spoken(answer[r])] EXCEPT ![Request(t)] = Spoken(a)]
  BY <1>1, <1>3 DEF Spoken
<1>8. [u \in Attempts |-> Spoken(reply[u].answer)]'
        = [[u \in Attempts |-> Spoken(reply[u].answer)] EXCEPT ![t] = Spoken(a)]
  BY <1>1, <1>4 DEF Spoken
<1>9. [r \in Requests |-> Spoken(answer[r])][Request(t)] = None
  BY <1>1 DEF AnswerTo, Spoken
<1> QED BY <1>1, <1>4, <1>5, <1>6, <1>7, <1>8, <1>9 DEF Promised!Answer, Request, Payload

\* Every step is a step of Conversation or changes nothing it speaks of.
LEMMA ConversationStep ==
    ASSUME ChatInv, [Next]_vars PROVE [Promised!Next]_(Promised!cvars)
<1>1. CASE UNCHANGED vars
  BY <1>1, ConversationStutter DEF vars
<1>2. ASSUME NEW t \in Attempts, AttemptStep(t) \/ AttemptIsLost(t)
      PROVE  [Promised!Next]_(Promised!cvars)
  <2>0. Request(t) \in Requests /\ reply \in [Attempts -> Reply] /\ AttemptInv(t)
    BY DEF ChatInv, TypeOK, Request
  <2>1. CASE TurnConflicts(t) \/ WaiterGivesUp(t) \/ AttemptIsLost(t)
    <3>0. PICK kind \in {"conflict", "exhausted", "lost"} :
              Replies(t, kind, None) /\ UNCHANGED <<session, claim, answer>>
      BY <2>1 DEF TurnConflicts, WaiterGivesUp, AttemptIsLost
    <3>1. /\ UNCHANGED <<session, claim, answer, asks>>
          /\ reply' = [reply EXCEPT ![t] = [kind |-> kind, answer |-> None]]
      BY <3>0 DEF Replies
    <3>2. reply[t].answer = None
      BY <2>0, <2>1 DEF AttemptInv, TurnConflicts, WaiterGivesUp, AttemptIsLost,
         InTransaction, WaitIsOver
    <3>3. \A u \in Attempts : reply'[u].answer = reply[u].answer
      BY <2>0, <3>1, <3>2
    <3> QED BY <3>1, <3>3, ConversationStutter
  <2>2. CASE TurnReplays(t) \/ WaiterReplays(t) \/ TurnReplaysLegacy(t)
    <3>1. /\ Replies(t, "answer", AnswerTo(t)) /\ UNCHANGED <<session, answer>>
          /\ \/ AnswerTo(t) # None /\ AnswerTo(t).payload = Payload(t)
             \/ ClaimOf(t).status = "COMPLETE" /\ ClaimOf(t).payload = Payload(t)
      BY <2>0, <2>2 DEF TurnReplays, WaiterReplays, TurnReplaysLegacy, AttemptInv
    <3>2. AnswerTo(t) # None /\ AnswerTo(t).payload = Payload(t)
      BY <2>0, <3>1 DEF ChatInv, ClaimTellsTheAnswer, AnswerTo, ClaimOf
    <3> QED BY <3>1, <3>2, ConversationReplay DEF Promised!Next
  <2>3. CASE TurnDecides(t) \/ TurnWrites(t)
    <3>1. PICK plan, ai : Sound(plan) /\ ai \in BOOLEAN /\ Saves(t, plan, ai)
      BY <2>3, DecisionsAreSaved DEF ChatInv
    <3>2. AnswerTo(t) = None
      BY <2>3, DecisionsAreSaved, FreshIsUnanswered DEF ChatInv
    <3> QED BY <3>1, <3>2, ConversationAnswer DEF Promised!Next
  <2>4. CASE TurnClaims(t) \/ TurnWaits(t) \/ WaiterTriesAgain(t)
    BY <2>4, ConversationStutter DEF TurnClaims, TurnWaits, WaiterTriesAgain
  <2> QED BY <1>2, <2>1, <2>2, <2>3, <2>4 DEF AttemptStep
<1>3. CASE (\E r \in Requests : ClaimLeaseExpires(r)) \/ (\E p \in Procedures : Activate(p))
  BY <1>3, ConversationStutter DEF ClaimLeaseExpires, Activate, attempt
<1> QED BY <1>1, <1>2, <1>3 DEF Next

\* The turns of a session, with their claims, leases, waits and lost
\* attempts, implement a conversation that answers each request once.
THEOREM ConversationImplemented == Spec => ImplementsConversation
<1>1. ChatInv /\ [Next]_vars => [Promised!Next]_(Promised!cvars)
  BY ConversationStep
<1> QED BY <1>1, ConversationInit, Invariance, PTL DEF Spec, ImplementsConversation, Promised!Spec

-----------------------------------------------------------------------------
(* Waiting.                                                                 *)

\* A claim whose turn is not decided has a lease and a holder, which is in its
\* model call or has ended.
HolderOk(r) ==
    claim[r].status = "PENDING" =>
        /\ claim[r].lease \in {"live", "expired"}
        /\ claim[r].owner \in Attempts
        /\ pc[claim[r].owner] \in {"calling", "done"}

HolderInv == \A r \in Requests : HolderOk(r)

\* An attempt that ends, or moves without having been in its call, leaves the
\* holders of the claims it does not touch.
LEMMA HoldersStay ==
    ASSUME ChatInv, NEW r \in Requests, HolderOk(r), NEW t \in Attempts, NEW at,
           pc' = [pc EXCEPT ![t] = at], at = "done" \/ pc[t] \in {"begin", "waiting"},
           claim'[r] = claim[r] \/ claim'[r].status = "COMPLETE"
    PROVE  HolderOk(r)'
BY DEF HolderOk, ChatInv, TypeOK

\* One step keeps the holders at work.
LEMMA HolderStep ==
    ASSUME ChatInv, HolderInv, [Next]_vars
    PROVE  HolderInv'
<1> SUFFICES ASSUME NEW r \in Requests PROVE HolderOk(r)'
  BY DEF HolderInv
<1>0. HolderOk(r) /\ claim \in [Requests -> Claim] /\ pc \in [Attempts -> {"begin", "calling", "waiting", "done"}]
  BY DEF HolderInv, ChatInv, TypeOK
<1>1. ASSUME NEW t \in Attempts, AttemptStep(t) \/ AttemptIsLost(t) PROVE HolderOk(r)'
  <2>0. Request(t) \in Requests
    BY DEF ChatInv, TypeOK, Request
  <2>1. CASE TurnClaims(t)
    <3>1. CASE r = Request(t)
      <4>1. claim'[r] = [status |-> "PENDING", payload |-> Payload(t), owner |-> t, lease |-> "live"]
        BY <1>0, <2>0, <2>1, <3>1 DEF TurnClaims
      <4>2. pc'[t] = "calling"
        BY <1>0, <2>1 DEF TurnClaims
      <4> QED BY <4>1, <4>2 DEF HolderOk
    <3>2. CASE r # Request(t)
      <4>1. claim'[r] = claim[r] /\ pc' = [pc EXCEPT ![t] = "calling"] /\ pc[t] = "begin"
        BY <1>0, <2>1, <3>2 DEF TurnClaims
      <4> QED BY <1>0, <4>1, HoldersStay
    <3> QED BY <3>1, <3>2
  <2>2. CASE TurnWaits(t) \/ WaiterTriesAgain(t)
    <3>1. PICK at \in {"waiting", "begin"} :
            pc' = [pc EXCEPT ![t] = at] /\ pc[t] \in {"begin", "waiting"} /\ claim' = claim
      BY <2>2 DEF TurnWaits, WaiterTriesAgain, WaitIsOver
    <3> QED BY <1>0, <3>1, HoldersStay
  <2>3. CASE TurnReplaysLegacy(t) \/ TurnDecides(t) \/ TurnWrites(t)
    <3>1. pc' = [pc EXCEPT ![t] = "done"] /\ Complete(t)
      BY <2>3 DEF TurnReplaysLegacy, TurnDecides, TurnWrites, Saves, Replies
    <3>2. claim'[r] = claim[r] \/ claim'[r].status = "COMPLETE"
      BY <1>0, <2>0, <3>1 DEF Complete
    <3> QED BY <1>0, <3>1, <3>2, HoldersStay
  <2>4. CASE \/ TurnConflicts(t) \/ TurnReplays(t) \/ WaiterReplays(t) \/ WaiterGivesUp(t)
             \/ AttemptIsLost(t)
    <3>1. pc' = [pc EXCEPT ![t] = "done"] /\ claim' = claim
      BY <2>4 DEF TurnConflicts, TurnReplays, WaiterReplays, WaiterGivesUp, AttemptIsLost, Replies
    <3> QED BY <1>0, <3>1, HoldersStay
  <2> QED BY <1>1, <2>1, <2>2, <2>3, <2>4 DEF AttemptStep
<1>2. ASSUME NEW q \in Requests, ClaimLeaseExpires(q) PROVE HolderOk(r)'
  <2>1. /\ claim'[r].status = claim[r].status /\ claim'[r].owner = claim[r].owner
        /\ claim'[r].lease \in {claim[r].lease, "expired"} /\ pc' = pc
    <3>1. claim[r] \in Claim /\ claim' = [claim EXCEPT ![q].lease = "expired"] /\ pc' = pc
      BY <1>0, <1>2 DEF ClaimLeaseExpires, attempt
    <3>2. CASE q = r
      BY <1>0, <3>1, <3>2 DEF Claim
    <3>3. CASE q # r
      BY <1>0, <3>1, <3>3
    <3> QED BY <3>1, <3>2, <3>3
  <2> QED BY <1>0, <2>1 DEF HolderOk
<1>3. CASE UNCHANGED vars \/ \E p \in Procedures : Activate(p)
  <2>1. claim' = claim /\ pc' = pc
    BY <1>3 DEF vars, Activate, attempt
  <2> QED BY <1>0, <2>1 DEF HolderOk
<1> QED BY <1>1, <1>2, <1>3 DEF Next

\* Whoever waits has its answer, may go round again, or waits for a lease whose
\* holder is at work or gone: no circle of waiting attempts, none that waits
\* for itself.
THEOREM NobodyWaitsInVain == Spec => []WaitsAreForWork
<1>1. Init => HolderInv
  BY DEF Init, HolderInv, HolderOk, NoClaim
<1>2. ChatInv /\ HolderInv /\ [Next]_vars => HolderInv'
  BY HolderStep
<1>3. ChatInv /\ HolderInv => WaitsAreForWork
  <2> SUFFICES ASSUME ChatInv, HolderInv, NEW t \in Attempts, pc[t] = "waiting",
                      ClaimOf(t).status # "COMPLETE", ~WaitIsOver(t)
               PROVE  ClaimOf(t).lease = "live" /\ pc[ClaimOf(t).owner] \in {"calling", "done"}
    BY DEF WaitsAreForWork
  <2>1. Request(t) \in Requests /\ claim[Request(t)] \in Claim /\ AttemptInv(t)
    BY DEF ChatInv, TypeOK, Request
  <2>2. ClaimOf(t).status = "PENDING"
    BY <2>1 DEF AttemptInv, ClaimOf, Claim
  <2> QED BY <2>1, <2>2 DEF HolderInv, HolderOk, ClaimOf, WaitIsOver
<1> QED BY <1>1, <1>2, <1>3, Invariance, PTL DEF Spec

=============================================================================
