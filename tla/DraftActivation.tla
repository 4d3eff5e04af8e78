-------------------------- MODULE DraftActivation --------------------------
(***************************************************************************)
(* Versions of one procedure and the saga that turns an approved AI draft  *)
(* into its active version: drafting.Service.Activate creates the version, *)
(* links the draft's document to it, has it indexed, activates it and      *)
(* publishes the draft, each in a transaction of its own.  Every operation *)
(* carries a request id derived from the draft, so that a repeated call    *)
(* replays what an earlier one did.  Administrators create, fill, link,    *)
(* unlink, index and activate versions beside it.                          *)
(*                                                                         *)
(* One document: the draft's source.  A version's link to it stands for    *)
(* its generation too: IndexSystem shows that READY goes with a published  *)
(* generation.  A call is one HTTP request; it may stop between any two of *)
(* its steps, by a crash or by an error that rolls a transaction back.     *)
(***************************************************************************)
EXTENDS Naturals

CONSTANTS
    Versions,  \* ids of procedure_versions rows
    Drafts,    \* approved drafts of the procedure
    Calls,     \* requests to activate a draft
    None,      \* no version, no answer
    Nil        \* the version id of a stored answer "{}", uuid.Nil

ASSUME ActivationAssumption ==
    /\ None \notin Versions \cup Drafts
    /\ Nil \notin Versions \cup {None}
    /\ None \notin [draft : Drafts, status : {"APPROVED", "PUBLISHED"},
                    version : Versions \cup {None, Nil}, stamp : Nat]

VARIABLES
    status,     \* procedure_versions.status, by version
    source,     \* .source_draft_id
    active,     \* procedures.active_version_id
    link,       \* index status of the version's link to the document
    draft,      \* procedure_drafts: status, published version, updated_at
    created,    \* stored answers to the create request of each draft
    linkedBy,   \* drafts whose link request has a stored answer
    indexedBy,  \* drafts whose index request has a job
    activated,  \* stored answers to the activate request of each draft
    pc,         \* the next step of a call
    call,       \* what a call holds: its draft, the row it read, its version
    answer,     \* what a call told its client
    lived       \* history: versions that were ACTIVE at some time during a call

versionRows == <<status, source, active>>
answers == <<created, linkedBy, indexedBy, activated>>
locals == <<pc, call, answer, lived>>
vars == <<status, source, active, link, draft, answers, locals>>

-----------------------------------------------------------------------------
VersionStatus == {"none", "APPROVED", "ACTIVE", "ARCHIVED"}
LinkStatus == {"unlinked", "UPLOADED", "PROCESSING", "READY", "FAILED"}
Steps == {"idle", "reconcile", "create", "persist", "link", "look", "index",
          "note", "noteReady", "check", "activate", "publish", "done"}
MaybeVersion == Versions \cup {None}

\* A saga that got past the link has a version that exists.
TypeOK ==
    /\ status \in [Versions -> VersionStatus]
    /\ source \in [Versions -> Drafts \cup {None}]
    /\ active \in MaybeVersion
    /\ link \in [Versions -> LinkStatus]
    /\ draft \in [Drafts -> [status : {"APPROVED", "PUBLISHED"},
                             version : MaybeVersion \cup {Nil}, stamp : Nat]]
    /\ created \in [Drafts -> {None} \cup [target : MaybeVersion, version : Versions \cup {Nil}]]
    /\ linkedBy \subseteq Drafts
    /\ indexedBy \subseteq Drafts
    /\ activated \in [Drafts -> {None} \cup [version : Versions, expected : MaybeVersion]]
    /\ pc \in [Calls -> Steps]
    /\ call \in [Calls -> {None} \cup [draft : Drafts, status : {"APPROVED", "PUBLISHED"},
                                       version : MaybeVersion \cup {Nil}, stamp : Nat]]
    /\ answer \in [Calls -> {"none", "activated"}]
    /\ lived \in [Calls -> SUBSET Versions]
    /\ \A c \in Calls :
          pc[c] \in {"look", "index", "note", "noteReady", "check", "activate", "publish"}
             => call[c].version \in Versions

Init ==
    /\ status = [v \in Versions |-> "none"]
    /\ source = [v \in Versions |-> None]
    /\ active = None
    /\ link = [v \in Versions |-> "unlinked"]
    /\ draft = [d \in Drafts |-> [status |-> "APPROVED", version |-> None, stamp |-> 1]]
    /\ created = [d \in Drafts |-> None]
    /\ linkedBy = {}
    /\ indexedBy = {}
    /\ activated = [d \in Drafts |-> None]
    /\ pc = [c \in Calls |-> "idle"]
    /\ call = [c \in Calls |-> None]
    /\ answer = [c \in Calls |-> "none"]
    /\ lived = [c \in Calls |-> {}]

-----------------------------------------------------------------------------
(* Helpers.                                                                 *)

Exists(v) == status[v] # "none"

VersionsOf(d) == {v \in Versions : source[v] = d}

\* evaluateEligibility with the one document as the version's SOURCE.
Eligible(v) == status[v] = "APPROVED" /\ link[v] = "READY"

Goto(c, step) == pc' = [pc EXCEPT ![c] = step] /\ UNCHANGED <<answer, lived>>

\* The answer of a call that ends without an activation.
Ends(c) == Goto(c, "done") /\ UNCHANGED call

\* What a call keeps of the draft's row.
RowOf(d) == [draft |-> d, status |-> draft[d].status, version |-> draft[d].version,
             stamp |-> draft[d].stamp]

\* DraftRepo.UpdateStatus: only over the row the caller read.
UnchangedRow(d, stamp) == draft[d].stamp = stamp

SaveDraft(c, newStatus, v) ==
    LET d == call[c].draft
        saved == [status |-> newStatus, version |-> v, stamp |-> draft[d].stamp + 1]
    IN  /\ UnchangedRow(d, call[c].stamp)
        /\ draft' = [draft EXCEPT ![d] = saved]
        /\ call' = [call EXCEPT ![c].version = v, ![c].stamp = saved.stamp]

\* Activation moves the pointer and both statuses in one transaction.
MakeActive(v) ==
    /\ status' = [w \in Versions |-> IF w = v THEN "ACTIVE"
                                     ELSE IF status[w] = "ACTIVE" THEN "ARCHIVED"
                                     ELSE status[w]]
    /\ active' = v
    /\ UNCHANGED source

\* Calls in progress while v becomes ACTIVE.
Witnessed(v) == [c \in Calls |-> IF pc[c] \in {"idle", "done"} THEN lived[c]
                                 ELSE lived[c] \cup {v}]

-----------------------------------------------------------------------------
(* The saga.                                                                *)

\* The draft's row is read; one that names a version is resumed.
Begin(c, d) ==
    /\ pc[c] = "idle"
    /\ call' = [call EXCEPT ![c] = RowOf(d)]
    /\ pc' = [pc EXCEPT ![c] = IF draft[d].version = None THEN "create" ELSE "reconcile"]
    /\ lived' = [lived EXCEPT ![c] = {v \in Versions : status[v] = "ACTIVE"}]
    /\ UNCHANGED <<versionRows, link, draft, answers, answer>>

\* Mutant: a resumed draft is taken for activated.
ReconcileAny(c) ==
    /\ pc[c] = "reconcile"
    /\ call[c].status = "APPROVED"
    /\ Goto(c, "publish")
    /\ UNCHANGED <<versionRows, link, draft, answers, call>>

\* The version a resumed draft names is ACTIVE: the draft is published if it
\* is not, and the call tells so.
Reconcile(c) ==
    LET v == call[c].version
    IN  /\ pc[c] = "reconcile"
        /\ v \in Versions
        /\ status[v] = "ACTIVE"
        /\ IF call[c].status = "PUBLISHED"
           THEN /\ pc' = [pc EXCEPT ![c] = "done"]
                /\ answer' = [answer EXCEPT ![c] = "activated"]
                /\ UNCHANGED lived
           ELSE Goto(c, "publish")
        /\ UNCHANGED <<versionRows, link, draft, answers, call>>

\* The version is not ACTIVE, or reading it failed: the saga goes on with it.
Resume(c) ==
    /\ pc[c] = "reconcile"
    /\ Goto(c, "link")
    /\ UNCHANGED <<versionRows, link, draft, answers, call>>

\* Takes the version a create transaction answered with.
TakesVersion(c, v) ==
    /\ call' = [call EXCEPT ![c].version = v]
    /\ Goto(c, "persist")

\* The create request again: the stored answer, the empty one read as Nil.
CreateReplays(c, target) ==
    LET d == call[c].draft
    IN  /\ pc[c] = "create"
        /\ created[d] # None
        /\ IF created[d].target = target THEN TakesVersion(c, created[d].version) ELSE Ends(c)
        /\ UNCHANGED <<versionRows, link, draft, answers>>

StoreCreated(d, target, v) ==
    /\ created' = [created EXCEPT ![d] = [target |-> target, version |-> v]]
    /\ UNCHANGED <<linkedBy, indexedBy, activated>>

\* Without a target: the version that already came from the draft, or a new one.
CreateNext(c, v) ==
    LET d == call[c].draft
    IN  /\ pc[c] = "create"
        /\ created[d] = None
        /\ IF VersionsOf(d) # {}
           THEN v \in VersionsOf(d) /\ UNCHANGED versionRows
           ELSE /\ ~Exists(v)
                /\ status' = [status EXCEPT ![v] = "APPROVED"]
                /\ source' = [source EXCEPT ![v] = d]
                /\ UNCHANGED active
        /\ StoreCreated(d, None, v)
        /\ TakesVersion(c, v)
        /\ UNCHANGED <<link, draft>>

\* Mutant: a version another draft filled is taken.
FillableByAnyone(v, d) ==
    /\ status[v] = "APPROVED"
    /\ VersionsOf(d) = {}

\* fillFromDraft: an unused version of the Admin's, for a draft without one.
Fillable(v, d) ==
    /\ status[v] = "APPROVED"
    /\ source[v] = None
    /\ VersionsOf(d) = {}

\* With a target: it is filled, or it was filled from this draft before; then
\* the claim of the request id is committed with its empty answer.
CreateInTarget(c, v) ==
    LET d == call[c].draft
    IN  /\ pc[c] = "create"
        /\ created[d] = None
        /\ \/ /\ source[v] = d
              /\ StoreCreated(d, v, Nil)
              /\ UNCHANGED versionRows
           \/ /\ Fillable(v, d)
              /\ source' = [source EXCEPT ![v] = d]
              /\ StoreCreated(d, v, v)
              /\ UNCHANGED <<status, active>>
        /\ TakesVersion(c, v)
        /\ UNCHANGED <<link, draft>>

\* The version is saved in the draft, or another call saved the same one.
Persist(c) ==
    LET d == call[c].draft
    IN  /\ pc[c] = "persist"
        /\ \/ SaveDraft(c, "APPROVED", call[c].version) /\ Goto(c, "link")
           \/ /\ ~UnchangedRow(d, call[c].stamp)
              /\ UNCHANGED draft
              /\ IF draft[d].version = call[c].version
                 THEN call' = [call EXCEPT ![c] = RowOf(d)] /\ Goto(c, "link")
                 ELSE Ends(c)
        /\ UNCHANGED <<versionRows, link, answers>>

\* A replayed or duplicate link goes on whatever became of the link since; an
\* archived or missing version blocks the saga.
Link(c) ==
    LET d == call[c].draft
        v == call[c].version
    IN  /\ pc[c] = "link"
        /\ \/ d \in linkedBy /\ Goto(c, "look") /\ UNCHANGED <<link, linkedBy>>
           \/ /\ d \notin linkedBy
              /\ v \in Versions
              /\ status[v] # "ARCHIVED"
              /\ IF link[v] = "unlinked"
                 THEN /\ link' = [link EXCEPT ![v] = "UPLOADED"]
                      /\ linkedBy' = linkedBy \cup {d}
                 ELSE UNCHANGED <<link, linkedBy>>
              /\ Goto(c, "look")
           \/ /\ d \notin linkedBy
              /\ v \in Versions => status[v] = "ARCHIVED"
              /\ Goto(c, "done")
              /\ UNCHANGED <<link, linkedBy>>
        /\ UNCHANGED <<versionRows, draft, created, indexedBy, activated, call>>

\* Mutant: the version's status is not asked for.
LookAtSource(c) ==
    LET v == call[c].version
    IN  /\ pc[c] = "look"
        /\ \/ link[v] = "READY" /\ Goto(c, "activate")
           \/ link[v] \in {"unlinked", "UPLOADED"} /\ Goto(c, "index")
           \/ link[v] \in {"PROCESSING", "FAILED"} /\ Goto(c, "done")
        /\ UNCHANGED <<versionRows, link, draft, answers, call>>

\* GetVersion after the link: its eligibility and its source's index state are
\* one read.
Look(c) ==
    LET v == call[c].version
    IN  /\ pc[c] = "look"
        /\ \/ Eligible(v) /\ Goto(c, "activate")
           \/ link[v] \in {"unlinked", "UPLOADED"} /\ Goto(c, "index")
           \/ ~Eligible(v) /\ link[v] \notin {"unlinked", "UPLOADED"} /\ Goto(c, "done")
        /\ UNCHANGED <<versionRows, link, draft, answers, call>>

\* The index request: a job of an earlier one answers with the link's status.
Index(c) ==
    LET d == call[c].draft
        v == call[c].version
    IN  /\ pc[c] = "index"
        /\ \/ /\ link[v] # "unlinked"
              /\ d \in indexedBy
              /\ Goto(c, IF link[v] = "READY" THEN "noteReady" ELSE "note")
              /\ UNCHANGED <<link, indexedBy>>
           \/ /\ link[v] = "UPLOADED"
              /\ d \notin indexedBy
              /\ link' = [link EXCEPT ![v] = "PROCESSING"]
              /\ indexedBy' = indexedBy \cup {d}
              /\ Goto(c, "note")
           \/ /\ link[v] = "unlinked" \/ (d \notin indexedBy /\ link[v] # "UPLOADED")
              /\ Goto(c, "done")
              /\ UNCHANGED <<link, indexedBy>>
        /\ UNCHANGED <<versionRows, draft, created, linkedBy, activated, call>>

\* The job's id is saved with the draft, which makes it APPROVED again; the
\* saga goes on if the index service answered READY.
Note(c) ==
    /\ pc[c] \in {"note", "noteReady"}
    /\ \/ /\ SaveDraft(c, "APPROVED", call[c].version)
          /\ Goto(c, IF pc[c] = "noteReady" THEN "check" ELSE "done")
       \/ /\ ~UnchangedRow(call[c].draft, call[c].stamp)
          /\ UNCHANGED draft
          /\ Ends(c)
    /\ UNCHANGED <<versionRows, link, answers>>

Check(c) ==
    /\ pc[c] = "check"
    /\ Goto(c, IF Eligible(call[c].version) THEN "activate" ELSE "done")
    /\ UNCHANGED <<versionRows, link, draft, answers, call>>

\* The activate request again, with the same expectation.
ActivateReplays(c, expected) ==
    LET d == call[c].draft
        payload == [version |-> call[c].version, expected |-> expected]
    IN  /\ pc[c] = "activate"
        /\ activated[d] # None
        /\ Goto(c, IF activated[d] = payload THEN "publish" ELSE "done")
        /\ UNCHANGED <<versionRows, link, draft, answers, call>>

\* Mutant: neither the eligibility nor the status is asked for under the lock.
ActivateUnchecked(c, expected) ==
    LET d == call[c].draft
        v == call[c].version
    IN  /\ pc[c] = "activate"
        /\ activated[d] = None
        /\ expected = active
        /\ MakeActive(v)
        /\ lived' = Witnessed(v)
        /\ pc' = [pc EXCEPT ![c] = "publish"]
        /\ activated' = [activated EXCEPT ![d] = [version |-> v, expected |-> expected]]
        /\ UNCHANGED <<link, draft, created, linkedBy, indexedBy, call, answer>>

\* activation.Service.Activate: a compare-and-set on the active version.  A
\* version that is ACTIVE already is a success that changes nothing but the
\* stored answer; any other must still be eligible.
Activate(c, expected) ==
    LET d == call[c].draft
        v == call[c].version
    IN  /\ pc[c] = "activate"
        /\ activated[d] = None
        /\ expected = active
        /\ \/ /\ status[v] = "ACTIVE"
              /\ active = v
              /\ UNCHANGED <<versionRows, lived>>
           \/ /\ Eligible(v)
              /\ MakeActive(v)
              /\ lived' = Witnessed(v)
        /\ pc' = [pc EXCEPT ![c] = "publish"]
        /\ activated' = [activated EXCEPT ![d] = [version |-> v, expected |-> expected]]
        /\ UNCHANGED <<link, draft, created, linkedBy, indexedBy, call, answer>>

\* The version is active whether the draft can be published or not.
Publish(c) ==
    /\ pc[c] = "publish"
    /\ \/ SaveDraft(c, "PUBLISHED", call[c].version)
       \/ UNCHANGED <<draft, call>>
    /\ pc' = [pc EXCEPT ![c] = "done"]
    /\ answer' = [answer EXCEPT ![c] = "activated"]
    /\ UNCHANGED <<versionRows, link, answers, lived>>

\* The process dies, the database fails, the request is stale or refused.
Stops(c) ==
    /\ pc[c] \notin {"idle", "done"}
    /\ Ends(c)
    /\ UNCHANGED <<versionRows, link, draft, answers>>

-----------------------------------------------------------------------------
(* What administrators and the index service do beside the saga, each with  *)
(* request ids of its own.                                                  *)

AdminCreates(v) ==
    /\ ~Exists(v)
    /\ status' = [status EXCEPT ![v] = "APPROVED"]
    /\ UNCHANGED <<source, active, link, draft, answers, locals>>

\* The create request of the API takes a target and a source draft too.
AdminFills(v, d) ==
    /\ Fillable(v, d)
    /\ source' = [source EXCEPT ![v] = d]
    /\ UNCHANGED <<status, active, link, draft, answers, locals>>

AdminActivates(v) ==
    /\ Eligible(v)
    /\ MakeActive(v)
    /\ lived' = Witnessed(v)
    /\ UNCHANGED <<link, draft, answers, pc, call, answer>>

AdminLinks(v) ==
    /\ status[v] \notin {"none", "ARCHIVED"}
    /\ link[v] = "unlinked"
    /\ link' = [link EXCEPT ![v] = "UPLOADED"]
    /\ UNCHANGED <<versionRows, draft, answers, locals>>

AdminUnlinks(v) ==
    /\ link[v] \in {"UPLOADED", "READY", "FAILED"}
    /\ link' = [link EXCEPT ![v] = "unlinked"]
    /\ UNCHANGED <<versionRows, draft, answers, locals>>

\* A first index request or a retry.
AdminIndexes(v) ==
    /\ link[v] \in {"UPLOADED", "FAILED"}
    /\ link' = [link EXCEPT ![v] = "PROCESSING"]
    /\ UNCHANGED <<versionRows, draft, answers, locals>>

\* A run ends; one from before an unlink may end on a link made again.
IndexEnds(v) ==
    /\ link[v] \in {"UPLOADED", "PROCESSING"}
    /\ \E outcome \in {"READY", "FAILED"} : link' = [link EXCEPT ![v] = outcome]
    /\ UNCHANGED <<versionRows, draft, answers, locals>>

-----------------------------------------------------------------------------
Saga(c) ==
    \/ \E d \in Drafts : Begin(c, d)
    \/ Reconcile(c)
    \/ Resume(c)
    \/ \E target \in MaybeVersion : CreateReplays(c, target)
    \/ \E v \in Versions : CreateNext(c, v)
    \/ \E v \in Versions : CreateInTarget(c, v)
    \/ Persist(c)
    \/ Link(c)
    \/ Look(c)
    \/ Index(c)
    \/ Note(c)
    \/ Check(c)
    \/ \E expected \in MaybeVersion : ActivateReplays(c, expected)
    \/ \E expected \in MaybeVersion : Activate(c, expected)
    \/ Publish(c)
    \/ Stops(c)

Admin(v) ==
    \/ AdminCreates(v)
    \/ \E d \in Drafts : AdminFills(v, d)
    \/ AdminActivates(v)
    \/ AdminLinks(v)
    \/ AdminUnlinks(v)
    \/ AdminIndexes(v)
    \/ IndexEnds(v)

Next == (\E c \in Calls : Saga(c)) \/ (\E v \in Versions : Admin(v))

Spec == Init /\ [][Next]_vars

-----------------------------------------------------------------------------
(* Properties.                                                              *)

\* The procedure's pointer names its one ACTIVE version, whatever activations
\* race (Activate's compare-and-set and the transaction that archives, sets
\* ACTIVE and moves the pointer).
ActiveIsPointed == \A v \in Versions : status[v] = "ACTIVE" <=> active = v

\* A version a draft names was made from that draft and from no other, also
\* after crashed, repeated and concurrent calls and fills by hand.
DraftNamesItsVersion ==
    \A d \in Drafts : draft[d].version \in Versions => VersionsOf(d) = {draft[d].version}

\* A PUBLISHED draft's version is, or was, the active one: no order of
\* repeated calls publishes a draft whose version never went live.
PublishedWasActive ==
    \A d \in Drafts :
        draft[d].status = "PUBLISHED" =>
            draft[d].version \in Versions /\ status[draft[d].version] \in {"ACTIVE", "ARCHIVED"}

\* A call that told its client "activated" is right: its version was ACTIVE at
\* some time between the call's first read and its answer, also when the
\* answer of an older activation was replayed.
AnswersTellTheTruth ==
    \A c \in Calls : answer[c] = "activated" => call[c].version \in lived[c]

\* Retries lead to the version of the first attempt, as activate.go says of
\* the create request.
RetriesKeepTheVersion ==
    \A d \in Drafts : draft[d].version # Nil

\* The versions of the procedure seen as one register.
History == INSTANCE ActiveVersion WITH
    current <- active,
    past <- {v \in Versions : status[v] = "ARCHIVED"}

\* The procedure goes from version to version without a gap and never back.
ImplementsActiveVersion == History!Spec
=============================================================================
