-------------------------- MODULE ActivationProofs --------------------------
(***************************************************************************)
(* Theorems of the activation saga, for any sets of versions, drafts and   *)
(* calls.                                                                  *)
(***************************************************************************)
EXTENDS DraftActivation, TLAPS

\* A version that is or was the active one.
Live(v) == status[v] \in {"ACTIVE", "ARCHIVED"}

Running(c) == pc[c] \notin {"idle", "done"}

\* The call has read that its draft has no version yet.
Creating(c) == pc[c] \in {"create", "persist"}

\* The call goes on with the version its draft names.
Pursuing(c) == Running(c) /\ ~Creating(c)

\* One ACTIVE version, and one version per draft.
VersionInv ==
    /\ ActiveIsPointed
    /\ \A v \in Versions : source[v] # None => Exists(v)
    /\ \A v, w \in Versions : source[v] # None /\ source[v] = source[w] => v = w

\* What rows and stored answers say of versions.
DraftInv ==
    \A d \in Drafts :
        /\ draft[d].version \in Versions => source[draft[d].version] = d
        /\ draft[d].status = "PUBLISHED" => draft[d].version \in Versions /\ Live(draft[d].version)
        /\ created[d] # None =>
              (created[d].version \in Versions => source[created[d].version] = d)
        /\ d \in linkedBy => draft[d].version \in Versions
        /\ activated[d] # None => Live(activated[d].version)

\* A call and the row it read: a version once named is never exchanged, and
\* only a call that read the row without one may still name it.
RowOk(c) ==
    /\ pc[c] # "idle" => call[c] # None
    /\ Creating(c) =>
          /\ call[c].stamp <= draft[call[c].draft].stamp
          /\ call[c].stamp = draft[call[c].draft].stamp => draft[call[c].draft].version = None
    /\ pc[c] = "persist" =>
          /\ call[c].version # None
          /\ call[c].version \in Versions => source[call[c].version] = call[c].draft
    /\ Pursuing(c) =>
          /\ call[c].version # None
          /\ call[c].version = draft[call[c].draft].version

\* What a call may answer.
AnswerOk(c) ==
    /\ Running(c) => \A v \in Versions : status[v] = "ACTIVE" => v \in lived[c]
    /\ pc[c] = "activate" => call[c].version \in lived[c] \/ status[call[c].version] = "APPROVED"
    /\ pc[c] = "publish" => call[c].version \in lived[c] /\ Live(call[c].version)
    /\ answer[c] = "activated" => pc[c] = "done" /\ call[c].version \in lived[c]

CallInv == \A c \in Calls : RowOk(c) /\ AnswerOk(c)

IInv == TypeOK /\ VersionInv /\ DraftInv /\ CallInv

-----------------------------------------------------------------------------
\* A row that a call has read.
CallRow == [draft : Drafts, status : {"APPROVED", "PUBLISHED"},
            version : MaybeVersion \cup {Nil}, stamp : Nat]

\* A row is not None.
LEMMA RowIsNotNone == \A row \in CallRow : row # None
BY ActivationAssumption DEF CallRow, MaybeVersion

\* A call that has begun has read a row.
LEMMA HasRow ==
    ASSUME IInv, NEW c \in Calls, pc[c] # "idle"
    PROVE  call[c] \in CallRow
BY DEF IInv, TypeOK, CallInv, RowOk, CallRow

\* A call whose version is exchanged still holds a row.
LEMMA NewVersion ==
    ASSUME IInv, NEW c \in Calls, pc[c] # "idle", NEW v \in MaybeVersion \cup {Nil},
           call' = [call EXCEPT ![c].version = v]
    PROVE  /\ call' \in [Calls -> {None} \cup CallRow]
           /\ call'[c] \in CallRow /\ call'[c] # None
           /\ call'[c] = [call[c] EXCEPT !.version = v]
           /\ call'[c].draft = call[c].draft /\ call'[c].version = v /\ call'[c].stamp = call[c].stamp
           /\ \A b \in Calls \ {c} : call'[b] = call[b]
<1>1. call[c] \in CallRow /\ call \in [Calls -> {None} \cup CallRow]
  BY HasRow DEF IInv, TypeOK, CallRow
<1>2. call'[c] = [call[c] EXCEPT !.version = v]
  BY <1>1
<1>3. call'[c] \in CallRow
  BY <1>1, <1>2 DEF CallRow
<1>4. /\ call'[c].draft = call[c].draft /\ call'[c].version = v /\ call'[c].stamp = call[c].stamp
      /\ \A b \in Calls \ {c} : call'[b] = call[b]
  BY <1>1, <1>2 DEF CallRow
<1>5. call' \in [Calls -> {None} \cup CallRow]
  BY <1>1, <1>3
<1> QED BY <1>2, <1>3, <1>4, <1>5, RowIsNotNone

\* A save leaves a version that is there, and moves the stamp.
DraftEffect(d) ==
    /\ draft[d].version # None => draft'[d].version = draft[d].version
    /\ draft'[d] = draft[d] \/ draft'[d].stamp = draft[d].stamp + 1

\* What a step may do to versions: they appear, go live once and are replaced,
\* and a source once set stays.
VersionEffect ==
    /\ \A v \in Versions :
          /\ Exists(v) => Exists(v)'
          /\ Live(v) => Live(v)'
          /\ source[v] # None => source'[v] = source[v]
          /\ status'[v] = "ACTIVE" =>
                status[v] = "ACTIVE" \/ \A c \in Calls : Running(c) => v \in lived'[c]
          /\ status[v] = "APPROVED" => status'[v] \in {"APPROVED", "ACTIVE"}
    /\ \A c \in Calls : pc[c] # "idle" => lived[c] \subseteq lived'[c]

\* Activation of an eligible version and the calls that see it.
LEMMA MakeActiveEffect ==
    ASSUME IInv, NEW v \in Versions, status[v] = "APPROVED", MakeActive(v), lived' = Witnessed(v)
    PROVE  /\ VersionEffect
           /\ VersionInv'
           /\ status' \in [Versions -> VersionStatus] /\ active' \in MaybeVersion
           /\ source' \in [Versions -> Drafts \cup {None}]
           /\ lived' \in [Calls -> SUBSET Versions]
<1> USE DEF IInv, TypeOK, MakeActive, Witnessed, VersionStatus, MaybeVersion
<1>1. VersionEffect
  BY DEF VersionEffect, Live, Exists, Running
<1>2. VersionInv'
  BY DEF VersionInv, ActiveIsPointed, Exists
<1> QED BY <1>1, <1>2

\* A step that leaves the versions and only lets calls begin or end.
LEMMA NoVersionEffect ==
    ASSUME IInv, UNCHANGED versionRows,
           \A c \in Calls : pc[c] # "idle" => lived'[c] = lived[c]
    PROVE  VersionEffect /\ VersionInv'
BY DEF IInv, versionRows, VersionEffect, VersionInv, ActiveIsPointed, Live, Exists

\* A version that becomes a draft's, a new one or one that had no source.
TakenFor(v, d) ==
    /\ source' = [source EXCEPT ![v] = d]
    /\ source[v] = d \/ (source[v] = None /\ VersionsOf(d) = {})
    /\ status' = status \/ (status[v] = "none" /\ status' = [status EXCEPT ![v] = "APPROVED"])
    /\ Exists(v)'
    /\ UNCHANGED <<active, lived>>

LEMMA TakenEffect ==
    ASSUME IInv, NEW v \in Versions, NEW d \in Drafts, TakenFor(v, d)
    PROVE  /\ VersionEffect /\ VersionInv'
           /\ status' \in [Versions -> VersionStatus]
           /\ source' \in [Versions -> Drafts \cup {None}]
           /\ source'[v] = d
<1> USE ActivationAssumption DEF IInv, TypeOK, TakenFor, VersionInv, Exists
<1>1. /\ status' \in [Versions -> VersionStatus]
      /\ source' \in [Versions -> Drafts \cup {None}]
      /\ source'[v] = d
  BY DEF VersionStatus
<1>2. VersionEffect
  BY DEF VersionEffect, Live
<1>3. ActiveIsPointed'
  BY DEF ActiveIsPointed
<1>4. \A w \in Versions : source'[w] # None => Exists(w)'
  BY DEF VersionStatus
<1>5. \A w, x \in Versions : source'[w] # None /\ source'[w] = source'[x] => w = x
  BY DEF VersionsOf
<1> QED BY <1>1, <1>2, <1>3, <1>4, <1>5

\* A create request that stores an answer.
LEMMA CreateEffect ==
    ASSUME IInv, NEW c \in Calls, NEW v \in Versions, CreateNext(c, v) \/ CreateInTarget(c, v)
    PROVE  /\ TakenFor(v, call[c].draft)
           /\ created' \in [Drafts -> {None} \cup [target : MaybeVersion, version : Versions \cup {Nil}]]
           /\ \A d \in Drafts : created'[d] = created[d]
                 \/ (d = call[c].draft /\ created'[d].version \in {v, Nil})
           /\ call' = [call EXCEPT ![c].version = v]
           /\ pc[c] = "create" /\ pc' = [pc EXCEPT ![c] = "persist"]
           /\ UNCHANGED <<active, link, draft, linkedBy, indexedBy, activated, answer, lived>>
<1>0. call[c] \in CallRow /\ pc[c] = "create"
  BY HasRow DEF CreateNext, CreateInTarget
<1>1. call[c].draft \in Drafts /\ None \notin Drafts /\ Nil \notin Versions
  BY <1>0, ActivationAssumption DEF CallRow
<1> USE <1>1 DEF IInv, TypeOK, VersionInv, Exists, VersionsOf, MaybeVersion, versionRows, TakenFor,
                 StoreCreated, TakesVersion, Goto
<1>2. CASE CreateNext(c, v)
  <2>1. CASE VersionsOf(call[c].draft) # {}
    BY <1>0, <1>2, <2>1 DEF CreateNext
  <2>2. CASE VersionsOf(call[c].draft) = {}
    BY <1>0, <1>2, <2>2 DEF CreateNext
  <2> QED BY <2>1, <2>2
<1>3. CASE CreateInTarget(c, v)
  <2>1. CASE source[v] = call[c].draft
    BY <1>0, <1>3, <2>1 DEF CreateInTarget, Fillable
  <2>2. CASE source[v] # call[c].draft
    BY <1>0, <1>3, <2>2 DEF CreateInTarget, Fillable
  <2> QED BY <2>1, <2>2
<1> QED BY <1>2, <1>3

-----------------------------------------------------------------------------
\* What a save leaves: the call's version in the draft's row, and the call
\* with the new row.
Saved(c, s) ==
    /\ call[c] \in CallRow /\ call'[c] \in CallRow
    /\ \A d \in Drafts \ {call[c].draft} : draft'[d] = draft[d]
    /\ draft'[call[c].draft] = [status |-> s, version |-> call[c].version,
                                stamp |-> draft[call[c].draft].stamp + 1]
    /\ draft' \in [Drafts -> [status : {"APPROVED", "PUBLISHED"},
                              version : MaybeVersion \cup {Nil}, stamp : Nat]]
    /\ call' = [call EXCEPT ![c] = call'[c]]
    /\ call'[c].draft = call[c].draft /\ call'[c].version = call[c].version

\* A call that saves its draft: the row it read is the row there is.
LEMMA SaveEffect ==
    ASSUME IInv, NEW c \in Calls, Running(c), NEW s \in {"APPROVED", "PUBLISHED"},
           SaveDraft(c, s, call[c].version)
    PROVE  Saved(c, s) /\ \A d \in Drafts : DraftEffect(d)
<1>1. call[c] \in CallRow /\ call[c].stamp = draft[call[c].draft].stamp
  BY HasRow DEF Running, SaveDraft, UnchangedRow
<1>2. Creating(c) => draft[call[c].draft].version = None
  BY <1>1 DEF IInv, CallInv, RowOk
<1>3. ~Creating(c) => draft[call[c].draft].version = call[c].version
  BY <1>1 DEF IInv, CallInv, RowOk, Pursuing
<1>4. draft[call[c].draft].stamp \in Nat
  BY <1>1 DEF IInv, TypeOK, CallRow
<1> QED BY <1>1, <1>2, <1>3, <1>4 DEF SaveDraft, Saved, IInv, TypeOK, CallRow, DraftEffect, UnchangedRow

\* A step of one call leaves the others' rows and positions alone.
Mine(c) ==
    \A b \in Calls \ {c} : pc'[b] = pc[b] /\ call'[b] = call[b] /\ answer'[b] = answer[b]

\* What each step of a call does to versions and drafts.
LEMMA SagaEffect ==
    ASSUME IInv, NEW c \in Calls, Saga(c)
    PROVE  /\ VersionEffect /\ VersionInv'
           /\ \A d \in Drafts : DraftEffect(d)
           /\ Mine(c)
<1> USE DEF IInv, TypeOK, DraftEffect, Mine, Goto, Ends
<1>1. ASSUME NEW d \in Drafts, Begin(c, d)
      PROVE  VersionEffect /\ VersionInv' /\ (\A e \in Drafts : DraftEffect(e)) /\ Mine(c)
  BY <1>1, NoVersionEffect DEF Begin
<1>2. ASSUME UNCHANGED <<versionRows, draft, lived>>, Mine(c)
      PROVE  VersionEffect /\ VersionInv' /\ \A e \in Drafts : DraftEffect(e)
  BY <1>2, NoVersionEffect
<1>3. CASE Reconcile(c) \/ Resume(c) \/ Link(c) \/ Look(c) \/ Index(c) \/ Check(c) \/ Stops(c)
  BY <1>2, <1>3 DEF Reconcile, Resume, Link, Look, Index, Check, Stops
<1>4. ASSUME NEW v \in Versions, CreateNext(c, v) \/ CreateInTarget(c, v)
      PROVE  VersionEffect /\ VersionInv' /\ (\A e \in Drafts : DraftEffect(e)) /\ Mine(c)
  BY <1>4, CreateEffect, TakenEffect, HasRow DEF CallRow
<1>5. ASSUME NEW t \in MaybeVersion, CreateReplays(c, t) \/ ActivateReplays(c, t)
      PROVE  VersionEffect /\ VersionInv' /\ (\A e \in Drafts : DraftEffect(e)) /\ Mine(c)
  BY <1>2, <1>5 DEF CreateReplays, ActivateReplays, TakesVersion
<1>6. CASE Persist(c)
  <2>1. VersionEffect /\ VersionInv'
    BY <1>6, NoVersionEffect DEF Persist
  <2>2. CASE SaveDraft(c, "APPROVED", call[c].version) /\ Goto(c, "link")
    <3>1. Running(c)
      BY <1>6 DEF Persist, Running
    <3> QED BY <2>1, <2>2, <3>1, SaveEffect DEF Saved
  <2>3. CASE UNCHANGED draft /\ (Ends(c) \/ (call' = [call EXCEPT ![c] = RowOf(call[c].draft)] /\ Goto(c, "link")))
    BY <2>1, <2>3
  <2> QED BY <1>6, <2>1, <2>2, <2>3 DEF Persist
<1>7. CASE Note(c)
  <2>1. VersionEffect /\ VersionInv'
    BY <1>7, NoVersionEffect DEF Note
  <2>2. Running(c) /\ \A b \in Calls \ {c} : pc'[b] = pc[b] /\ answer'[b] = answer[b]
    BY <1>7 DEF Note, Running
  <2>3. CASE SaveDraft(c, "APPROVED", call[c].version)
    BY <2>1, <2>2, <2>3, SaveEffect DEF Saved
  <2>4. CASE UNCHANGED <<draft, call>>
    BY <2>1, <2>2, <2>4
  <2> QED BY <1>7, <2>3, <2>4 DEF Note
<1>8. CASE Publish(c)
  BY <1>8, NoVersionEffect, SaveEffect DEF Saved, Publish, Running
<1>9. ASSUME NEW e \in MaybeVersion, Activate(c, e)
      PROVE  VersionEffect /\ VersionInv' /\ (\A d \in Drafts : DraftEffect(d)) /\ Mine(c)
  BY <1>9, NoVersionEffect, MakeActiveEffect DEF Activate, Eligible
<1> QED BY <1>1, <1>3, <1>4, <1>5, <1>6, <1>7, <1>8, <1>9 DEF Saga

\* A call that does not move keeps its part of the invariant.
LEMMA CallStands ==
    ASSUME IInv, VersionEffect, \A d \in Drafts : DraftEffect(d), NEW b \in Calls,
           pc'[b] = pc[b], call'[b] = call[b], answer'[b] = answer[b]
    PROVE  RowOk(b)' /\ AnswerOk(b)'
<1> USE DEF IInv, TypeOK, CallInv, Running, Creating, Pursuing
<1>1. CASE pc[b] = "idle"
  BY <1>1 DEF RowOk, AnswerOk
<1>2. CASE pc[b] # "idle"
  <2>1. call[b] \in CallRow /\ call[b].draft \in Drafts
    BY <1>2, HasRow DEF CallRow
  <2>2. DraftEffect(call[b].draft) /\ draft[call[b].draft].stamp \in Nat /\ call[b].stamp \in Nat
    BY <2>1 DEF CallRow
  <2>3. RowOk(b)'
    BY <1>2, <2>1, <2>2, ActivationAssumption DEF RowOk, DraftEffect, VersionEffect, CallRow, MaybeVersion
  <2>4. AnswerOk(b)'
    BY <1>2, <2>1 DEF AnswerOk, VersionEffect, CallRow, Steps, Live, VersionStatus
  <2> QED BY <2>3, <2>4
<1> QED BY <1>1, <1>2

\* Rows and answers that stand.
LEMMA DraftsStand ==
    ASSUME IInv, VersionEffect, UNCHANGED <<draft, created, linkedBy, activated>>
    PROVE  DraftInv'
BY ActivationAssumption DEF IInv, TypeOK, DraftInv, VersionEffect, MaybeVersion

\* A running call that reaches neither its activation nor its publication.
LEMMA MovesOn ==
    ASSUME IInv, VersionEffect, NEW c \in Calls, Running(c), answer'[c] = answer[c],
           pc'[c] \notin {"activate", "publish"}
    PROVE  AnswerOk(c)'
<1>1. answer'[c] # "activated"
  BY DEF IInv, CallInv, AnswerOk, Running
<1>2. \A v \in Versions : status'[v] = "ACTIVE" => v \in lived'[c]
  BY DEF IInv, CallInv, AnswerOk, Running, VersionEffect, TypeOK
<1> QED BY <1>1, <1>2 DEF AnswerOk

\* A call that keeps its version on the way to the end.
LEMMA KeepsVersion ==
    ASSUME IInv, NEW c \in Calls, Running(c), \A d \in Drafts : DraftEffect(d),
           call'[c] = call[c], pc'[c] = "done" \/ (Pursuing(c) /\ pc'[c] \notin {"idle", "create", "persist"})
    PROVE  RowOk(c)'
<1>1. call[c] \in CallRow /\ DraftEffect(call[c].draft)
  BY HasRow DEF Running, CallRow
<1>2. call'[c] # None
  BY DEF IInv, CallInv, RowOk, Running
<1> QED BY <1>1, <1>2 DEF IInv, CallInv, RowOk, Running, Creating, Pursuing, DraftEffect

\* The steps that change nothing but the call's position.
LEMMA QuietSteps ==
    ASSUME IInv, NEW c \in Calls,
           \/ Resume(c) \/ Look(c) \/ Check(c) \/ Stops(c)
           \/ Reconcile(c)
           \/ \E e \in MaybeVersion : ActivateReplays(c, e)
    PROVE  TypeOK' /\ DraftInv' /\ RowOk(c)' /\ AnswerOk(c)'
<1>1. /\ VersionEffect /\ \A d \in Drafts : DraftEffect(d)
      /\ UNCHANGED <<versionRows, link, draft, answers, call, lived>>
      /\ Running(c)
  BY SagaEffect DEF Saga, Resume, Look, Check, Stops, Reconcile, ActivateReplays, Goto, Ends, Running
<1>2. DraftInv'
  BY <1>1, DraftsStand DEF answers
<1>3. call[c] \in CallRow
  BY <1>1, HasRow DEF Running
<1> USE <1>1, <1>3 DEF Goto, Ends, Steps, versionRows, answers
<1>4. CASE Resume(c)
  <2>1. TypeOK'
    BY <1>4 DEF Resume, IInv, TypeOK
  <2>2. pc[c] = "reconcile" /\ pc'[c] = "link" /\ answer' = answer
    BY <1>4 DEF Resume, IInv, TypeOK
  <2> QED BY <1>2, <2>1, <2>2, MovesOn, KeepsVersion DEF Pursuing, Creating
<1>5. CASE Look(c)
  <2>1. TypeOK' /\ pc[c] = "look" /\ answer' = answer /\ pc'[c] \in {"activate", "index", "done"}
    BY <1>5 DEF Look, IInv, TypeOK
  <2>2. RowOk(c)'
    BY <2>1, KeepsVersion DEF Pursuing, Creating
  <2>3. AnswerOk(c)'
    <3>1. CASE pc'[c] = "activate"
      BY <1>5, <2>1, <3>1 DEF Look, Eligible, AnswerOk, IInv, TypeOK, CallInv, Running
    <3>2. CASE pc'[c] # "activate"
      BY <2>1, <3>2, MovesOn
    <3> QED BY <3>1, <3>2
  <2> QED BY <1>2, <2>1, <2>2, <2>3
<1>6. CASE Check(c)
  <2>1. TypeOK' /\ pc[c] = "check" /\ answer' = answer /\ pc'[c] \in {"activate", "done"}
    BY <1>6 DEF Check, IInv, TypeOK
  <2>2. RowOk(c)'
    BY <2>1, KeepsVersion DEF Pursuing, Creating
  <2>3. AnswerOk(c)'
    <3>1. CASE pc'[c] = "activate"
      BY <1>6, <2>1, <3>1 DEF Check, Eligible, AnswerOk, IInv, TypeOK, CallInv, Running
    <3>2. CASE pc'[c] # "activate"
      BY <2>1, <3>2, MovesOn
    <3> QED BY <3>1, <3>2
  <2> QED BY <1>2, <2>1, <2>2, <2>3
<1>7. CASE Stops(c)
  <2>1. TypeOK' /\ answer' = answer /\ pc'[c] = "done"
    BY <1>7 DEF Stops, IInv, TypeOK
  <2> QED BY <1>2, <2>1, MovesOn, KeepsVersion
<1>8. CASE Reconcile(c)
  <2>1. /\ TypeOK' /\ pc[c] = "reconcile" /\ pc'[c] \in {"publish", "done"}
        /\ answer'[c] = answer[c] \/ (answer'[c] = "activated" /\ pc'[c] = "done")
    BY <1>8 DEF Reconcile, IInv, TypeOK
  <2>2. call[c].version \in lived[c] /\ Live(call[c].version)
    BY <1>8 DEF Reconcile, IInv, CallInv, AnswerOk, Running, Live
  <2>3. AnswerOk(c)'
    BY <2>1, <2>2 DEF IInv, CallInv, AnswerOk, Running, Live
  <2> QED BY <1>2, <2>1, <2>3, KeepsVersion DEF Pursuing, Creating
<1>9. ASSUME NEW e \in MaybeVersion, ActivateReplays(c, e)
      PROVE  TypeOK' /\ DraftInv' /\ RowOk(c)' /\ AnswerOk(c)'
  <2>1. TypeOK' /\ pc[c] = "activate" /\ answer' = answer /\ pc'[c] \in {"publish", "done"}
    BY <1>9 DEF ActivateReplays, IInv, TypeOK
  <2>2. RowOk(c)'
    BY <2>1, KeepsVersion DEF Pursuing, Creating
  <2>3. AnswerOk(c)'
    <3>1. CASE pc'[c] = "publish"
      <4>1. activated[call[c].draft] = [version |-> call[c].version, expected |-> e]
        BY <1>9, <3>1 DEF ActivateReplays, IInv, TypeOK
      <4>2. Live(call[c].version)
        BY <1>9, <4>1 DEF ActivateReplays, IInv, DraftInv, CallRow
      <4> QED BY <2>1, <3>1, <4>2 DEF IInv, CallInv, AnswerOk, Running, Live
    <3>2. CASE pc'[c] # "publish"
      BY <2>1, <3>2, MovesOn
    <3> QED BY <3>1, <3>2
  <2> QED BY <1>2, <2>1, <2>2, <2>3
<1> QED BY <1>4, <1>5, <1>6, <1>7, <1>8, <1>9

\* The steps that begin a call, find its version and link it.
LEMMA VersionSteps ==
    ASSUME IInv, NEW c \in Calls,
           \/ \E d \in Drafts : Begin(c, d)
           \/ \E t \in MaybeVersion : CreateReplays(c, t)
           \/ \E v \in Versions : CreateNext(c, v) \/ CreateInTarget(c, v)
           \/ Link(c) \/ Index(c)
    PROVE  TypeOK' /\ DraftInv' /\ RowOk(c)' /\ AnswerOk(c)'
<1>1. VersionEffect /\ \A d \in Drafts : DraftEffect(d)
  BY SagaEffect DEF Saga
<1> USE DEF Goto, Ends, Steps, versionRows, answers
<1>2. ASSUME NEW d \in Drafts, Begin(c, d) PROVE TypeOK' /\ DraftInv' /\ RowOk(c)' /\ AnswerOk(c)'
  <2>1. TypeOK' /\ call'[c] \in CallRow /\ pc'[c] \in {"create", "reconcile"}
    BY <1>2 DEF Begin, RowOf, CallRow, IInv, TypeOK
  <2>2. DraftInv'
    BY <1>1, <1>2, DraftsStand DEF Begin
  <2>3. RowOk(c)'
    <3>1. draft' = draft /\ call'[c] = RowOf(d)
      BY <1>2 DEF Begin, IInv, TypeOK
    <3>2. pc'[c] = IF draft[d].version = None THEN "create" ELSE "reconcile"
      BY <1>2 DEF Begin, IInv, TypeOK
    <3>3. call'[c] # None
      BY <2>1, RowIsNotNone
    <3> QED BY <3>1, <3>2, <3>3 DEF RowOk, RowOf, Creating, Pursuing, Running, IInv, TypeOK
  <2>4. AnswerOk(c)'
    BY <1>2, <2>1 DEF Begin, IInv, TypeOK, CallInv, AnswerOk, Running
  <2> QED BY <2>1, <2>2, <2>3, <2>4
<1>3. ASSUME NEW t \in MaybeVersion, CreateReplays(c, t)
      PROVE  TypeOK' /\ DraftInv' /\ RowOk(c)' /\ AnswerOk(c)'
  <2>1. Running(c) /\ call[c] \in CallRow /\ pc[c] = "create" /\ created[call[c].draft] # None
    BY <1>3, HasRow DEF CreateReplays, Running
  <2>2. created[call[c].draft].version \in Versions \cup {Nil}
    BY <2>1 DEF IInv, TypeOK, CallRow
  <2>3. DraftInv'
    BY <1>1, <1>3, DraftsStand DEF CreateReplays
  <2>4. TypeOK' /\ answer' = answer /\ pc'[c] \in {"persist", "done"}
    <3>1. CASE Ends(c)
      BY <1>3, <2>1, <3>1 DEF CreateReplays, IInv, TypeOK
    <3>2. CASE TakesVersion(c, created[call[c].draft].version)
      <4>1. call' \in [Calls -> {None} \cup CallRow] /\ pc'[c] = "persist"
        BY <1>3, <2>1, <2>2, <3>2, NewVersion DEF TakesVersion, MaybeVersion, IInv, TypeOK
      <4>2. \A b \in Calls \ {c} : call'[b] = call[b]
        BY <1>3, <2>1, <2>2, <3>2, NewVersion DEF TakesVersion, MaybeVersion
      <4> QED BY <1>3, <3>2, <4>1, <4>2 DEF CreateReplays, TakesVersion, IInv, TypeOK, CallRow
    <3> QED BY <1>3, <3>1, <3>2 DEF CreateReplays
  <2>5. RowOk(c)'
    <3>1. CASE Ends(c)
      BY <1>1, <2>1, <3>1, KeepsVersion DEF IInv, TypeOK
    <3>2. CASE TakesVersion(c, created[call[c].draft].version)
      <4>1. /\ pc'[c] = "persist" /\ draft' = draft /\ source' = source
            /\ call'[c] = [call[c] EXCEPT !.version = created[call[c].draft].version]
        BY <1>3, <3>2 DEF CreateReplays, TakesVersion, IInv, TypeOK
      <4>2. call'[c] \in CallRow /\ call'[c] # None
        BY <1>3, <2>2, <3>2, <2>1, NewVersion DEF TakesVersion, MaybeVersion, Running
      <4> QED BY <2>1, <2>2, <4>1, <4>2, ActivationAssumption
              DEF IInv, CallInv, DraftInv, RowOk, Creating, Pursuing, Running, CallRow
    <3> QED BY <1>3, <3>1, <3>2 DEF CreateReplays
  <2> QED BY <1>1, <2>1, <2>3, <2>4, <2>5, MovesOn
<1>4. ASSUME NEW v \in Versions, CreateNext(c, v) \/ CreateInTarget(c, v)
      PROVE  TypeOK' /\ DraftInv' /\ RowOk(c)' /\ AnswerOk(c)'
  <2>1. Running(c) /\ call[c] \in CallRow /\ pc[c] = "create" /\ call[c].draft \in Drafts
    BY <1>4, HasRow DEF CreateNext, CreateInTarget, Running, CallRow
  <2>2. source'[v] = call[c].draft /\ source[v] \in {None, call[c].draft}
    BY <1>4, <2>1, CreateEffect, TakenEffect DEF TakenFor
  <2>3. TypeOK'
    <3>1. /\ call' \in [Calls -> {None} \cup CallRow]
          /\ \A b \in Calls \ {c} : call'[b] = call[b]
      BY <1>4, <2>1, CreateEffect, NewVersion DEF MaybeVersion, Running
    <3>2. /\ status' \in [Versions -> VersionStatus]
          /\ source' \in [Versions -> Drafts \cup {None}]
      BY <1>4, <2>1, CreateEffect, TakenEffect
    <3>3. /\ created' \in [Drafts -> {None} \cup [target : MaybeVersion, version : Versions \cup {Nil}]]
          /\ pc' = [pc EXCEPT ![c] = "persist"]
          /\ UNCHANGED <<active, link, draft, linkedBy, indexedBy, activated, answer, lived>>
      BY <1>4, CreateEffect
    <3> QED BY <3>1, <3>2, <3>3 DEF IInv, TypeOK, CallRow
  <2>4. DraftInv'
    <3>1. UNCHANGED <<draft, linkedBy, activated>>
      BY <1>4, CreateEffect
    <3>2. \A d \in Drafts : created'[d] = created[d]
             \/ (d = call[c].draft /\ created'[d].version \in {v, Nil})
      BY <1>4, CreateEffect
    <3> QED BY <1>1, <2>1, <2>2, <3>1, <3>2, ActivationAssumption
            DEF IInv, TypeOK, DraftInv, VersionEffect, MaybeVersion
  <2>5. call'[c] = [call[c] EXCEPT !.version = v] /\ pc'[c] = "persist" /\ UNCHANGED <<draft, answer>>
    BY <1>4, <2>1, CreateEffect DEF IInv, TypeOK
  <2>6. RowOk(c)'
    BY <2>1, <2>2, <2>5, ActivationAssumption
       DEF IInv, TypeOK, CallInv, RowOk, Creating, Pursuing, Running, CallRow
  <2> QED BY <1>1, <2>1, <2>3, <2>4, <2>5, <2>6, MovesOn
<1>5. CASE Link(c)
  <2>1. Running(c) /\ call[c] \in CallRow /\ pc[c] = "link" /\ call[c].draft \in Drafts
    BY <1>5, HasRow DEF Link, Running, CallRow
  <2>2. call[c].version = draft[call[c].draft].version
    BY <2>1 DEF IInv, CallInv, RowOk, Pursuing, Creating
  <2>3. pc'[c] = "look" => call[c].version \in Versions
    BY <1>5, <2>1, <2>2 DEF Link, IInv, DraftInv, TypeOK
  <2>4. TypeOK' /\ answer' = answer /\ pc'[c] \in {"look", "done"}
    <3>1. /\ pc' = [pc EXCEPT ![c] = pc'[c]] /\ pc'[c] \in {"look", "done"}
          /\ answer' = answer /\ lived' = lived
      BY <1>5 DEF Link, IInv, TypeOK
    <3>2. linkedBy' \subseteq Drafts /\ link' \in [Versions -> LinkStatus]
      <4>1. CASE UNCHANGED <<link, linkedBy>>
        BY <4>1 DEF IInv, TypeOK
      <4>2. CASE link' = [link EXCEPT ![call[c].version] = "UPLOADED"]
                 /\ linkedBy' = linkedBy \cup {call[c].draft}
        BY <2>1, <4>2 DEF IInv, TypeOK, LinkStatus
      <4> QED BY <1>5, <4>1, <4>2 DEF Link
    <3>3. UNCHANGED <<versionRows, draft, created, indexedBy, activated, call>>
      BY <1>5 DEF Link
    <3> QED BY <2>1, <2>3, <3>1, <3>2, <3>3 DEF IInv, TypeOK
  <2>5. linkedBy' = linkedBy \/ (linkedBy' = linkedBy \cup {call[c].draft} /\ call[c].version \in Versions)
    BY <1>5 DEF Link
  <2>6. DraftInv'
    BY <1>1, <1>5, <2>1, <2>2, <2>5, ActivationAssumption
       DEF Link, IInv, TypeOK, DraftInv, VersionEffect, MaybeVersion
  <2>7. RowOk(c)'
    BY <1>1, <1>5, <2>1, <2>4, KeepsVersion DEF Link, Pursuing, Creating
  <2> QED BY <1>1, <2>1, <2>4, <2>6, <2>7, MovesOn
<1>6. CASE Index(c)
  <2>1. Running(c) /\ call[c] \in CallRow /\ pc[c] = "index" /\ call[c].draft \in Drafts
    BY <1>6, HasRow DEF Index, Running, CallRow
  <2>2. TypeOK' /\ answer' = answer /\ pc'[c] \in {"note", "noteReady", "done"}
    BY <1>6, <2>1 DEF Index, IInv, TypeOK, LinkStatus
  <2>3. DraftInv'
    BY <1>1, <1>6, DraftsStand DEF Index
  <2>4. RowOk(c)'
    BY <1>1, <1>6, <2>1, <2>2, KeepsVersion DEF Index, Pursuing, Creating
  <2> QED BY <1>1, <2>1, <2>2, <2>3, <2>4, MovesOn
<1> QED BY <1>2, <1>3, <1>4, <1>5, <1>6

\* The steps that save the draft, and the activation.
LEMMA SaveSteps ==
    ASSUME IInv, NEW c \in Calls,
           \/ Persist(c) \/ Note(c) \/ Publish(c)
           \/ \E e \in MaybeVersion : Activate(c, e)
    PROVE  TypeOK' /\ DraftInv' /\ RowOk(c)' /\ AnswerOk(c)'
<1>1. VersionEffect /\ \A d \in Drafts : DraftEffect(d)
  BY SagaEffect DEF Saga
<1>2. Running(c) /\ call[c] \in CallRow /\ call[c].draft \in Drafts
  BY HasRow DEF Persist, Note, Publish, Activate, Running, CallRow
<1> USE DEF Goto, Ends, Steps, versionRows, answers
\* A save whose version is the draft's or may become it.
<1>3. ASSUME NEW s \in {"APPROVED", "PUBLISHED"}, Saved(c, s),
             UNCHANGED <<versionRows, link, answers>>,
             call[c].version \in Versions => source[call[c].version] = call[c].draft,
             s = "PUBLISHED" => call[c].version \in Versions /\ Live(call[c].version)
      PROVE  DraftInv'
  <2>1. /\ draft'[call[c].draft].status = s /\ draft'[call[c].draft].version = call[c].version
        /\ \A d \in Drafts \ {call[c].draft} : draft'[d] = draft[d]
    BY <1>2, <1>3 DEF Saved
  <2>2. call[c].draft \in linkedBy => draft'[call[c].draft].version \in Versions
    BY <1>1, <1>2, ActivationAssumption DEF IInv, DraftInv, DraftEffect
  <2> QED BY <1>2, <1>3, <2>1, <2>2 DEF IInv, DraftInv, Live
<1>4. ASSUME NEW s \in {"APPROVED", "PUBLISHED"}, Saved(c, s),
             pc' = [pc EXCEPT ![c] = pc'[c]], pc'[c] \in {"link", "check", "done"},
             pc'[c] = "check" => call[c].version \in Versions,
             call[c].version # None,
             answer' \in [Calls -> {"none", "activated"}],
             UNCHANGED <<versionRows, link, answers, lived>>
      PROVE  TypeOK' /\ RowOk(c)'
  <2>1. TypeOK'
    <3>1. /\ call' \in [Calls -> {None} \cup CallRow]
          /\ \A b \in Calls \ {c} : call'[b] = call[b]
      BY <1>4 DEF Saved, IInv, TypeOK, CallRow
    <3>2. pc' \in [Calls -> Steps] /\ \A b \in Calls \ {c} : pc'[b] = pc[b]
      BY <1>4 DEF IInv, TypeOK
    <3>3. /\ call'[c].version = call[c].version
          /\ draft' \in [Drafts -> [status : {"APPROVED", "PUBLISHED"},
                                    version : MaybeVersion \cup {Nil}, stamp : Nat]]
      BY <1>4 DEF Saved
    <3>4. \A b \in Calls : pc'[b] \in {"look", "index", "note", "noteReady", "check", "activate", "publish"}
             => call'[b].version \in Versions
      BY <1>4, <3>1, <3>2, <3>3 DEF IInv, TypeOK
    <3> QED BY <1>4, <3>1, <3>2, <3>3, <3>4 DEF IInv, TypeOK, CallRow
  <2>2. call'[c].version = draft'[call'[c].draft].version /\ call'[c] \in CallRow
    BY <1>2, <1>4 DEF Saved
  <2>3. call'[c] # None
    BY <2>2, RowIsNotNone
  <2>4. call'[c].version # None
    BY <1>2, <1>4 DEF Saved
  <2> QED BY <1>4, <2>1, <2>2, <2>3, <2>4 DEF RowOk, Creating, Pursuing, Running
<1>5. CASE Persist(c)
  <2>1. /\ pc[c] = "persist" /\ call[c].version # None /\ answer' = answer
        /\ call[c].version \in Versions => source[call[c].version] = call[c].draft
    BY <1>5 DEF Persist, IInv, CallInv, RowOk
  <2>2. CASE SaveDraft(c, "APPROVED", call[c].version) /\ Goto(c, "link")
    <3>1. pc' = [pc EXCEPT ![c] = pc'[c]] /\ pc'[c] = "link"
      BY <2>2 DEF IInv, TypeOK
    <3>2. DraftInv'
      BY <1>2, <1>3, <1>5, <2>1, <2>2, SaveEffect DEF Persist
    <3>3. TypeOK' /\ RowOk(c)'
      BY <1>2, <1>4, <1>5, <2>1, <2>2, <3>1, SaveEffect DEF Persist, IInv, TypeOK
    <3> QED BY <1>1, <1>2, <2>1, <3>1, <3>2, <3>3, MovesOn
  <2>3. CASE /\ UNCHANGED draft
             /\ draft[call[c].draft].version = call[c].version
             /\ call' = [call EXCEPT ![c] = RowOf(call[c].draft)] /\ Goto(c, "link")
    <3>1. /\ draft' = draft /\ pc'[c] = "link" /\ call'[c] = RowOf(call[c].draft)
          /\ call'[c] \in CallRow
      BY <1>2, <2>3 DEF RowOf, CallRow, IInv, TypeOK
    <3>2. TypeOK'
      BY <1>5, <2>3, <3>1 DEF Persist, CallRow, IInv, TypeOK
    <3>3. DraftInv'
      BY <1>1, <1>5, <2>3, DraftsStand DEF Persist
    <3>4. call'[c] # None
      BY <3>1, RowIsNotNone
    <3>5. RowOk(c)'
      BY <2>1, <2>3, <3>1, <3>4 DEF RowOf, RowOk, Creating, Pursuing, Running
    <3> QED BY <1>1, <1>2, <2>1, <3>1, <3>2, <3>3, <3>5, MovesOn
  <2>4. CASE UNCHANGED draft /\ Ends(c)
    <3>1. TypeOK' /\ pc'[c] = "done" /\ call' = call
      BY <1>5, <2>4 DEF Persist, IInv, TypeOK
    <3>2. DraftInv'
      BY <1>1, <1>5, <2>4, DraftsStand DEF Persist
    <3> QED BY <1>1, <1>2, <2>1, <3>1, <3>2, MovesOn, KeepsVersion
  <2> QED BY <1>5, <2>2, <2>3, <2>4 DEF Persist
<1>6. CASE Note(c)
  <2>1. /\ pc[c] \in {"note", "noteReady"} /\ answer' = answer
        /\ call[c].version \in Versions /\ source[call[c].version] = call[c].draft
        /\ call[c].version # None
    BY <1>2, <1>6 DEF Note, IInv, TypeOK, CallInv, DraftInv, RowOk, Pursuing, Creating
  <2>2. CASE SaveDraft(c, "APPROVED", call[c].version) /\ Goto(c, IF pc[c] = "noteReady" THEN "check" ELSE "done")
    <3>1. pc' = [pc EXCEPT ![c] = pc'[c]] /\ pc'[c] \in {"check", "done"}
      BY <2>2 DEF IInv, TypeOK
    <3>2. DraftInv'
      BY <1>2, <1>3, <1>6, <2>1, <2>2, SaveEffect DEF Note
    <3>3. TypeOK' /\ RowOk(c)'
      BY <1>2, <1>4, <1>6, <2>1, <2>2, <3>1, SaveEffect DEF Note, IInv, TypeOK
    <3> QED BY <1>1, <1>2, <2>1, <3>1, <3>2, <3>3, MovesOn
  <2>3. CASE UNCHANGED draft /\ Ends(c)
    <3>1. TypeOK' /\ pc'[c] = "done" /\ call' = call
      BY <1>6, <2>3 DEF Note, IInv, TypeOK
    <3>2. DraftInv'
      BY <1>1, <1>6, <2>3, DraftsStand DEF Note
    <3> QED BY <1>1, <1>2, <2>1, <3>1, <3>2, MovesOn, KeepsVersion
  <2> QED BY <1>6, <2>2, <2>3 DEF Note
<1>7. CASE Publish(c)
  <2>1. /\ pc[c] = "publish" /\ call[c].version \in Versions /\ call[c].version # None
        /\ source[call[c].version] = call[c].draft
        /\ call[c].version \in lived[c] /\ Live(call[c].version)
    BY <1>2, <1>7 DEF Publish, IInv, TypeOK, CallInv, DraftInv, RowOk, AnswerOk, Pursuing, Creating
  <2>2. /\ pc' = [pc EXCEPT ![c] = pc'[c]] /\ pc'[c] = "done" /\ lived' = lived
        /\ answer' \in [Calls -> {"none", "activated"}] /\ UNCHANGED <<versionRows, link, answers>>
    BY <1>7 DEF Publish, IInv, TypeOK
  <2>3. CASE SaveDraft(c, "PUBLISHED", call[c].version)
    <3>1. DraftInv' /\ TypeOK' /\ RowOk(c)'
      BY <1>2, <1>3, <1>4, <2>1, <2>2, <2>3, SaveEffect
    <3>2. call'[c].version = call[c].version
      BY <1>2, <2>3, SaveEffect DEF Saved
    <3> QED BY <2>1, <2>2, <3>1, <3>2 DEF AnswerOk, Running
  <2>4. CASE UNCHANGED <<draft, call>>
    <3>1. TypeOK'
      BY <1>7, <2>2, <2>4 DEF Publish, IInv, TypeOK
    <3>2. DraftInv' /\ RowOk(c)'
      BY <1>1, <1>2, <2>2, <2>4, DraftsStand, KeepsVersion
    <3> QED BY <2>1, <2>2, <2>4, <3>1, <3>2 DEF AnswerOk, Running
  <2> QED BY <1>7, <2>3, <2>4 DEF Publish
<1>8. ASSUME NEW e \in MaybeVersion, Activate(c, e)
      PROVE  TypeOK' /\ DraftInv' /\ RowOk(c)' /\ AnswerOk(c)'
  <2>1. pc[c] = "activate" /\ call[c].version \in Versions
    BY <1>8 DEF Activate, IInv, TypeOK
  <2>2. /\ status' \in [Versions -> VersionStatus] /\ active' \in MaybeVersion
        /\ source' \in [Versions -> Drafts \cup {None}]
        /\ lived' \in [Calls -> SUBSET Versions]
    BY <1>8, <2>1, MakeActiveEffect DEF Activate, Eligible, IInv, TypeOK
  <2>3. TypeOK'
    BY <1>2, <1>8, <2>1, <2>2 DEF Activate, IInv, TypeOK
  <2>4. status'[call[c].version] \in {"ACTIVE", "ARCHIVED"} /\ call[c].version \in lived'[c]
    <3>1. CASE status[call[c].version] = "ACTIVE" /\ UNCHANGED <<versionRows, lived>>
      BY <1>2, <2>1, <3>1 DEF IInv, CallInv, AnswerOk
    <3>2. CASE MakeActive(call[c].version) /\ lived' = Witnessed(call[c].version)
      BY <2>1, <3>2 DEF MakeActive, Witnessed, IInv, TypeOK
    <3> QED BY <1>8, <3>1, <3>2 DEF Activate
  <2>5. /\ UNCHANGED <<draft, created, linkedBy, call, answer>> /\ pc'[c] = "publish"
        /\ \A d \in Drafts : activated'[d] = activated[d]
              \/ (d = call[c].draft /\ activated'[d].version = call[c].version)
    BY <1>2, <1>8 DEF Activate, IInv, TypeOK
  <2>6. DraftInv'
    BY <1>1, <2>1, <2>4, <2>5, ActivationAssumption
       DEF IInv, TypeOK, DraftInv, VersionEffect, MaybeVersion, Live
  <2>7. RowOk(c)'
    BY <1>1, <1>2, <2>1, <2>5, KeepsVersion DEF Pursuing, Creating
  <2>8. AnswerOk(c)'
    <3>1. answer[c] # "activated"
      BY <1>2 DEF IInv, CallInv, AnswerOk, Running
    <3>2. \A v \in Versions : status'[v] = "ACTIVE" => v \in lived'[c]
      BY <1>1, <1>2 DEF IInv, CallInv, AnswerOk, VersionEffect, Running, TypeOK
    <3> QED BY <2>4, <2>5, <3>1, <3>2 DEF AnswerOk, Live
  <2> QED BY <2>3, <2>6, <2>7, <2>8
<1> QED BY <1>5, <1>6, <1>7, <1>8

-----------------------------------------------------------------------------
\* What happens beside the saga leaves drafts and calls alone.
LEMMA AdminStep ==
    ASSUME IInv, NEW v \in Versions, Admin(v)
    PROVE  IInv'
<1>1. /\ TypeOK' /\ VersionEffect /\ VersionInv'
      /\ UNCHANGED <<draft, answers, pc, call, answer>>
  <2> USE DEF IInv, TypeOK, versionRows, answers, locals
  <2>1. CASE AdminCreates(v)
    BY <2>1 DEF AdminCreates, VersionEffect, VersionInv, ActiveIsPointed, Exists, Live, VersionStatus
  <2>2. ASSUME NEW d \in Drafts, AdminFills(v, d)
        PROVE  TypeOK' /\ VersionEffect /\ VersionInv' /\ UNCHANGED <<draft, answers, pc, call, answer>>
    <3>1. TakenFor(v, d)
      BY <2>2 DEF AdminFills, Fillable, TakenFor, Exists
    <3> QED BY <2>2, <3>1, TakenEffect DEF AdminFills
  <2>3. CASE AdminActivates(v)
    BY <2>3, MakeActiveEffect DEF AdminActivates, Eligible
  <2>4. ASSUME link' \in [Versions -> LinkStatus],
               UNCHANGED <<versionRows, draft, answers, locals>>
        PROVE  TypeOK' /\ VersionEffect /\ VersionInv' /\ UNCHANGED <<draft, answers, pc, call, answer>>
    BY <2>4, NoVersionEffect
  <2>5. CASE AdminLinks(v) \/ AdminUnlinks(v) \/ AdminIndexes(v) \/ IndexEnds(v)
    BY <2>4, <2>5 DEF AdminLinks, AdminUnlinks, AdminIndexes, IndexEnds, LinkStatus
  <2> QED BY <2>1, <2>2, <2>3, <2>5 DEF Admin
<1>2. \A d \in Drafts : DraftEffect(d)
  BY <1>1 DEF DraftEffect
<1>3. CallInv'
  BY <1>1, <1>2, CallStands DEF CallInv
<1>4. DraftInv'
  BY <1>1, DraftsStand DEF answers
<1> QED BY <1>1, <1>3, <1>4 DEF IInv

LEMMA InvStep == IInv /\ [Next]_vars => IInv'
<1> SUFFICES ASSUME IInv, [Next]_vars PROVE IInv'
  OBVIOUS
<1>1. CASE UNCHANGED vars
  BY <1>1 DEF vars, versionRows, answers, locals, IInv, TypeOK, VersionInv, DraftInv, CallInv,
              RowOk, AnswerOk, ActiveIsPointed, Live, Exists, Running, Creating, Pursuing
<1>2. ASSUME NEW c \in Calls, Saga(c) PROVE IInv'
  <2>1. TypeOK' /\ DraftInv' /\ RowOk(c)' /\ AnswerOk(c)'
    BY <1>2, QuietSteps, VersionSteps, SaveSteps DEF Saga
  <2>2. VersionInv' /\ \A b \in Calls \ {c} : RowOk(b)' /\ AnswerOk(b)'
    BY <1>2, SagaEffect, CallStands DEF Mine
  <2> QED BY <2>1, <2>2 DEF IInv, CallInv
<1> QED BY <1>1, <1>2, AdminStep DEF Next

\* The invariant that the theorems rest on.
THEOREM ActivationInvariant == Spec => []IInv
<1>1. Init => IInv
  BY ActivationAssumption
     DEF Init, IInv, TypeOK, VersionInv, DraftInv, CallInv, RowOk, AnswerOk, ActiveIsPointed, Live, Exists,
         Running, Creating, Pursuing, VersionStatus, MaybeVersion, LinkStatus, Steps
<1> QED BY <1>1, InvStep, PTL DEF Spec

\* Every variable keeps its type, and a saga past the link has a version.
THEOREM TypeCorrect == Spec => []TypeOK
BY ActivationInvariant, PTL DEF IInv

\* One ACTIVE version at most, the one the procedure points to
\* (activation.Service.Activate under the procedure's lock).
THEOREM OneActiveVersion == Spec => []ActiveIsPointed
BY ActivationInvariant, PTL DEF IInv, VersionInv

\* A version a draft names was made from it and no other version was.
THEOREM DraftsAndVersionsArePaired == Spec => []DraftNamesItsVersion
<1>1. IInv => DraftNamesItsVersion
  BY ActivationAssumption
     DEF IInv, TypeOK, VersionInv, DraftInv, DraftNamesItsVersion, VersionsOf
<1> QED BY <1>1, ActivationInvariant, PTL

\* A PUBLISHED draft's version is or was the active one.
THEOREM PublishedWentLive == Spec => []PublishedWasActive
<1>1. IInv => PublishedWasActive
  BY DEF IInv, DraftInv, PublishedWasActive, Live
<1> QED BY <1>1, ActivationInvariant, PTL

\* A call that answered "activated" saw its version ACTIVE while it ran.
THEOREM AnswersAreTrue == Spec => []AnswersTellTheTruth
<1>1. IInv => AnswersTellTheTruth
  BY DEF IInv, CallInv, AnswerOk, AnswersTellTheTruth
<1> QED BY <1>1, ActivationInvariant, PTL

-----------------------------------------------------------------------------
\* An activation replaces the abstract current version.
LEMMA Replacement ==
    ASSUME IInv, NEW v \in Versions, Eligible(v), MakeActive(v)
    PROVE  History!Replace(v)
<1>1. active' = v /\ active # v /\ v # None
  BY ActivationAssumption DEF Eligible, MakeActive, IInv, VersionInv, ActiveIsPointed
<1>2. {w \in Versions : status'[w] = "ARCHIVED"}
         = {w \in Versions : status[w] = "ARCHIVED"} \cup ({active} \ {None})
  BY ActivationAssumption
     DEF Eligible, MakeActive, IInv, TypeOK, MaybeVersion, VersionInv, ActiveIsPointed
<1> QED BY <1>1, <1>2 DEF History!Replace, Eligible

\* A step that leaves the versions' lives is a stutter of the abstract history.
LEMMA Stutter ==
    ASSUME IInv, active' = active,
           \A v \in Versions : status'[v] = "ARCHIVED" <=> status[v] = "ARCHIVED"
    PROVE  UNCHANGED History!vars
BY DEF History!vars

LEMMA HistoryStep == IInv /\ [Next]_vars => [History!Next]_(History!vars)
<1> SUFFICES ASSUME IInv, [Next]_vars PROVE History!Next \/ UNCHANGED History!vars
  OBVIOUS
<1>1. ASSUME UNCHANGED versionRows PROVE UNCHANGED History!vars
  BY <1>1, Stutter DEF versionRows
<1>2. ASSUME NEW c \in Calls, Saga(c) PROVE History!Next \/ UNCHANGED History!vars
  <2>1. ASSUME NEW e \in MaybeVersion, Activate(c, e) PROVE History!Next \/ UNCHANGED History!vars
    <3>1. call[c].version \in Versions
      BY <2>1 DEF Activate, IInv, TypeOK
    <3>2. UNCHANGED versionRows \/ (Eligible(call[c].version) /\ MakeActive(call[c].version))
      BY <2>1 DEF Activate
    <3> QED BY <1>1, <3>1, <3>2, Replacement DEF History!Next
  <2>2. ASSUME NEW v \in Versions, CreateNext(c, v) \/ CreateInTarget(c, v)
        PROVE  UNCHANGED History!vars
    BY <2>2, CreateEffect, Stutter DEF TakenFor, IInv, TypeOK
  <2> QED
    BY <1>1, <1>2, <2>1, <2>2
    DEF Saga, Begin, Reconcile, Resume, CreateReplays, Persist, Link, Look, Index, Note, Check,
        ActivateReplays, Publish, Stops
<1>3. ASSUME NEW v \in Versions, Admin(v) PROVE History!Next \/ UNCHANGED History!vars
  <2>1. CASE AdminActivates(v)
    BY <2>1, Replacement DEF AdminActivates, History!Next
  <2>2. CASE AdminCreates(v)
    BY <2>2, Stutter DEF AdminCreates, Exists, IInv, TypeOK
  <2>3. ASSUME NEW d \in Drafts, AdminFills(v, d) PROVE UNCHANGED History!vars
    BY <2>3, Stutter DEF AdminFills
  <2> QED BY <1>1, <1>3, <2>1, <2>2, <2>3 DEF Admin, AdminLinks, AdminUnlinks, AdminIndexes, IndexEnds
<1>4. CASE UNCHANGED vars
  BY <1>1, <1>4 DEF vars, versionRows
<1> QED BY <1>2, <1>3, <1>4 DEF Next

\* The versions of the procedure are the abstract register.
THEOREM Refinement == Spec => ImplementsActiveVersion
<1>1. Init => History!Init
  BY DEF Init, History!Init
<1> QED BY <1>1, HistoryStep, ActivationInvariant, PTL DEF Spec, ImplementsActiveVersion, History!Spec
=============================================================================
