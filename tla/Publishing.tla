----------------------------- MODULE Publishing -----------------------------
(***************************************************************************)
(* The life of one versioned resource: a draft row that principals create  *)
(* and edit, and the immutable versions frozen from it.  A behaviour is    *)
(* about one resource, of a kind chosen in the initial state: journeys,    *)
(* forms, landing pages, connector pipelines, templates, feature flags,    *)
(* prompts and scoring models share the tables' shape and differ in what   *)
(* they lock, compare and refuse.  A request that reads before it writes   *)
(* is a session of its principal, so that requests interleave where the    *)
(* code leaves the row unlocked.  Content stands for the canonical         *)
(* document and for its digest; a manifest is the content it froze.        *)
(***************************************************************************)
EXTENDS Naturals, FiniteSets

CONSTANTS Users,        \* authenticated people
          Keys,         \* API keys, which are not human
          Contents,     \* the documents a client may send
          Invalid,      \* the ones the kind's validator refuses
          Kinds,        \* the kinds of resource of this instance
          MaxVersions,  \* bound on version numbers
          MaxSessions,  \* bound on the requests in progress
          NoRow, NoContent, NoOne

ASSUME BoundAssumption == MaxVersions \in Nat \ {0} /\ MaxSessions \in Nat
ASSUME ContentAssumption == Invalid \subseteq Contents /\ NoContent \notin Contents
ASSUME PrincipalAssumption == NoOne \notin Users \cup Keys

\* The code tells published from the rest, active from the rest, passed from
\* the rest: archived rows and versions stand with the drafts, failed
\* evaluations with the pending ones.
JourneyStatus == {"draft", "published"}
FlagStatus == {"draft", "published", "disabled"}
PipelineStatus == {"draft", "enabled", "disabled"}
PromptStatus == {"draft", "active"}
EvalStatus == {"pending", "passed"}
Status == JourneyStatus \cup FlagStatus \cup PipelineStatus

\* A draft row, and a version.
Row == [content: Contents, status: Status, latest: Nat, current: Nat]
Version == [content: Contents, manifest: Contents \cup {NoContent}, status: PromptStatus \cup {"paused"},
            eval: EvalStatus]
ASSUME RowAssumption == NoRow \notin Row

VARIABLES kind,      \* the kind of the resource
          row,       \* its draft row
          versions,  \* version number -> version, a partial function
          audit,     \* <<resource type, actor>> pairs of its audit_events
          policy,    \* maker_checker_policies.require_checker for the kind
          blobs,     \* the contents put in the blob store
          session    \* the request each principal has in progress

vars == <<kind, row, versions, audit, policy, blobs, session>>

Principals == Users \cup Keys
isHuman(p) == p \in Users

Idle == [step |-> "idle", row |-> NoRow]

-----------------------------------------------------------------------------
(* Common steps                                                            *)

Ends(p) == session' = [session EXCEPT ![p] = Idle]
Begins(p, s, r) == session' = [session EXCEPT ![p] = [step |-> s, row |-> r]]
Audits(t, p) == audit' = audit \cup {<<t, p>>}

\* The row a version is numbered against: the kinds without a latest_version
\* column take the maximum over the versions they have.
Latest == IF DOMAIN versions = {} THEN 0
          ELSE CHOOSE n \in DOMAIN versions : \A m \in DOMAIN versions : m <= n

Insert(n, v) == versions' = [i \in DOMAIN versions \cup {n} |-> IF i = n THEN v ELSE versions[i]]

\* INSERT of a new draft row: nothing is published yet.
NewRow(c, s, n) == [content |-> c, status |-> s, latest |-> n, current |-> 0]

Creates(r) ==
    /\ row = NoRow
    /\ row' = r
    /\ UNCHANGED <<kind, versions, policy, blobs, session>>

\* UPDATE of the draft row, in one statement.
Edits(r) ==
    /\ row # NoRow
    /\ row' = r
    /\ UNCHANGED <<kind, versions, policy, blobs>>

\* The request fails and changes nothing.
Fails(p, a) == UNCHANGED <<kind, row, versions, audit, policy, blobs>>

-----------------------------------------------------------------------------
(* Maker-checker                                                           *)

\* The type the publishers pass, which is what CheckMakerChecker looks up ...
ResourceType == [journey |-> "journeys", form |-> "forms", page |-> "pages", prompt |-> "prompts"]

AuditActors(t) == {p \in Principals : <<t, p>> \in audit}

EvaluateMakerChecker(required, approver, actors) ==
    required => actors # {} /\ approver \notin actors

\* Runs on the pool, before the transaction that publishes.
CheckMakerChecker(p) ==
    /\ session[p].step = "uploaded" /\ kind \in DOMAIN ResourceType
    /\ \/ /\ EvaluateMakerChecker(policy, p, AuditActors(ResourceType[kind]))
          /\ session' = [session EXCEPT ![p].step = "checked"]
          /\ UNCHANGED <<kind, row, versions, audit, policy, blobs>>
       \/ /\ ~EvaluateMakerChecker(policy, p, AuditActors(ResourceType[kind]))
          /\ Ends(p)
          /\ Fails(p, "self_approval_forbidden")

\* Audited under the policy's own id.
SetMakerCheckerPolicy(p, required) ==
    /\ policy' = required
    /\ UNCHANGED <<kind, row, versions, audit, blobs, session>>

\* The policies nobody looks up are left out.
setMakerCheckerPolicy(p) ==
    kind \in DOMAIN ResourceType /\ \E required \in BOOLEAN : policy # required /\ SetMakerCheckerPolicy(p, required)

-----------------------------------------------------------------------------
(* Publication: freeze the draft in a content-addressed blob, check, then  *)
(* commit in a transaction that locks the row.                             *)

\* A human's request reads the draft, validates it and puts the manifest.
Uploads(p, c) ==
    /\ isHuman(p) /\ c \notin Invalid
    /\ blobs' = blobs \cup {c}
    /\ Begins(p, "uploaded", NewRow(c, "draft", 0))
    /\ UNCHANGED <<kind, row, versions, audit, policy>>

Rejects(p) == isHuman(p) /\ row.content \in Invalid /\ UNCHANGED session /\ Fails(p, "invalid")

\* journey.Publish up to the call of the store.
Publish(p) == Uploads(p, row.content) \/ Rejects(p)

publishJourney(p) == kind = "journey" /\ row # NoRow /\ Publish(p)

\* Mutant: latest_version is left behind.
PromotesUncounted(p, n, v) ==
    /\ n <= MaxVersions
    /\ Insert(n, v)
    /\ row' = [row EXCEPT !.status = "published", !.current = n]
    /\ Ends(p)
    /\ UNCHANGED <<kind, policy, blobs>>

\* The journey's version and row; audited under the singular type.
Promotes(p, n, v) ==
    /\ n <= MaxVersions
    /\ Insert(n, v)
    /\ row' = [row EXCEPT !.status = "published", !.current = n, !.latest = n]
    /\ Ends(p)
    /\ UNCHANGED <<kind, policy, blobs>>

Frozen(p, c) == [content |-> c, manifest |-> session[p].row.content, status |-> "active",
                 eval |-> "pending"]

\* Mutant: the manifest is not compared with the locked draft.
DraftUnchangedIgnored(p) == TRUE

\* The digest of the locked draft must be the uploaded manifest's.
DraftUnchanged(p) == row.content = session[p].row.content

PublishJourney(p) ==
    /\ kind = "journey" /\ session[p].step = "checked"
    /\ IF row.content \notin Invalid /\ DraftUnchanged(p)
       THEN Promotes(p, row.latest + 1, Frozen(p, row.content)) /\ Audits("journey", p)
       ELSE Ends(p) /\ Fails(p, "retry")

\* Mutant: the current version is not looked at.
SameAsCurrentIgnored(p) == FALSE

\* A retried publication of what is current returns the version it made.
SameAsCurrent(p) == row.current # 0 /\ versions[row.current].manifest = session[p].row.content

Returns(p) == Ends(p) /\ Fails(p, "published")

CommitForm(p) ==
    IF SameAsCurrent(p) THEN Returns(p)
    ELSE Promotes(p, row.latest + 1, Frozen(p, session[p].row.content)) /\ UNCHANGED audit

publishForm(p) == kind = "form" /\ row # NoRow /\ Publish(p)
PublishForm(p) == kind = "form" /\ session[p].step = "checked" /\ CommitForm(p)

publishLandingPage(p) == kind = "page" /\ row # NoRow /\ Uploads(p, row.content)
PublishLandingPage(p) == kind = "page" /\ session[p].step = "checked" /\ CommitForm(p)

\* The mapping comes in the request and no checker is asked.
publishConnectorPipeline(p) ==
    kind = "pipeline" /\ row # NoRow /\ \E c \in Contents : Uploads(p, c)

PublishConnectorPipeline(p) ==
    /\ kind = "pipeline" /\ session[p].step = "uploaded"
    /\ IF SameAsCurrent(p) THEN Returns(p)
       ELSE /\ Latest + 1 <= MaxVersions
            /\ Insert(Latest + 1, Frozen(p, session[p].row.content))
            /\ row' = [row EXCEPT !.status = "enabled", !.current = Latest + 1]
            /\ Ends(p)
            /\ UNCHANGED <<kind, audit, policy, blobs>>

\* The request is abandoned between two steps: a timeout, a failed put, a
\* restart of the server.
Abandon(p) ==
    /\ session[p].step # "idle"
    /\ Ends(p)
    /\ UNCHANGED <<kind, row, versions, audit, policy, blobs>>

-----------------------------------------------------------------------------
(* Journeys                                                                *)

CreateJourney(p, c, s) == Creates(NewRow(c, s, 0)) /\ Audits("journey", p)

createJourney(p) == kind = "journey" /\ \E c \in Contents, s \in JourneyStatus : CreateJourney(p, c, s)

\* The row is read on the pool and the missing fields filled from it ...
UpdateJourneyReads(p, c, s) ==
    IF row.status = "published" /\ s # "draft"
    THEN UNCHANGED session /\ Fails(p, "published journeys cannot be edited")
    ELSE /\ Begins(p, "updating", NewRow(IF c = NoContent THEN row.content ELSE c,
                                         IF s = "" THEN row.status ELSE s, 0))
         /\ UNCHANGED <<kind, row, versions, audit, policy, blobs>>

\* ... and written back, over whatever was written in between.
UpdateJourney(p) ==
    /\ kind = "journey" /\ session[p].step = "updating"
    /\ Edits([row EXCEPT !.content = session[p].row.content, !.status = session[p].row.status])
    /\ Audits("journey", p) /\ Ends(p)

updateJourney(p) ==
    /\ kind = "journey" /\ row # NoRow
    /\ \E c \in Contents \cup {NoContent}, s \in JourneyStatus \cup {""} : UpdateJourneyReads(p, c, s)

SetJourneyVersionStatus(p, n, s) ==
    /\ versions' = [versions EXCEPT ![n].status = s]
    /\ UNCHANGED <<kind, row, audit, policy, blobs, session>>

setJourneyVersionStatus(p) ==
    kind = "journey" /\ \E n \in DOMAIN versions, s \in {"active", "paused"} :
        SetJourneyVersionStatus(p, n, s)

-----------------------------------------------------------------------------
(* Forms and landing pages: edits are not audited                          *)

CreateForm(p, c) == Creates(NewRow(c, "draft", 0)) /\ Audits("form", p)
createForm(p) == kind = "form" /\ \E c \in Contents : CreateForm(p, c)

UpdateForm(p, c) == Edits([row EXCEPT !.content = c]) /\ UNCHANGED <<audit, session>>
updateForm(p) == kind = "form" /\ \E c \in Contents : UpdateForm(p, c)

CreateLandingPage(p, c) == Creates(NewRow(c, "draft", 0)) /\ UNCHANGED audit
createLandingPage(p) == kind = "page" /\ \E c \in Contents : CreateLandingPage(p, c)

UpdateLandingPage(p, c) == Edits([row EXCEPT !.content = c]) /\ UNCHANGED <<audit, session>>
updateLandingPage(p) == kind = "page" /\ \E c \in Contents : UpdateLandingPage(p, c)

-----------------------------------------------------------------------------
(* Connector pipelines                                                     *)

\* Any principal may create a pipeline in any status.
CreateConnectorPipeline(p, c, s) == Creates(NewRow(c, s, 0)) /\ UNCHANGED audit
createConnectorPipeline(p) ==
    kind = "pipeline" /\ \E c \in Contents, s \in PipelineStatus : CreateConnectorPipeline(p, c, s)

\* An enabled pipeline stays enabled.
UpdateConnectorPipeline(p, c, s) ==
    /\ Edits([row EXCEPT !.content = c, !.status = IF @ = "enabled" \/ s = "" THEN @ ELSE s])
    /\ UNCHANGED <<audit, session>>

updateConnectorPipeline(p) ==
    /\ kind = "pipeline"
    /\ \E c \in Contents, s \in PipelineStatus \cup {""} :
         (s = "enabled" => isHuman(p)) /\ UpdateConnectorPipeline(p, c, s)

-----------------------------------------------------------------------------
(* Templates: the version counts the edits of the content                  *)

validateTemplate(c) == c \notin Invalid

CreateTemplate(p, c) == Creates(NewRow(c, "draft", 1)) /\ Audits("template", p)
createTemplate(p) == kind = "template" /\ \E c \in Contents : validateTemplate(c) /\ CreateTemplate(p, c)

\* The existing template is read unlocked, and the version counted from it.
UpdateTemplateReads(p, c) ==
    /\ row.latest + (IF c # row.content THEN 1 ELSE 0) <= MaxVersions
    /\ Begins(p, "updating", [row EXCEPT !.content = c, !.latest = IF c # row.content THEN @ + 1 ELSE @])
    /\ UNCHANGED <<kind, row, versions, audit, policy, blobs>>

UpdateTemplate(p) ==
    /\ kind = "template" /\ session[p].step = "updating"
    /\ Edits(session[p].row) /\ Audits("template", p) /\ Ends(p)

updateTemplate(p) ==
    kind = "template" /\ row # NoRow /\ \E c \in Contents : validateTemplate(c) /\ UpdateTemplateReads(p, c)

-----------------------------------------------------------------------------
(* Feature flags: the row itself is what is served                         *)

CreateFeatureFlag(p, c, s) == Creates(NewRow(c, s, 0)) /\ Audits("flag", p)
createFeatureFlag(p) == kind = "flag" /\ \E c \in Contents, s \in FlagStatus : CreateFeatureFlag(p, c, s)

UpdateFeatureFlag(p, c, s) ==
    Edits([row EXCEPT !.content = c, !.status = s]) /\ Audits("flag", p)
updateFeatureFlag(p) ==
    kind = "flag" /\ UNCHANGED session /\ \E c \in Contents, s \in FlagStatus : UpdateFeatureFlag(p, c, s)

\* The handler reads the whole flag ...
setFlagStatus(p) ==
    /\ kind = "flag" /\ row # NoRow /\ isHuman(p)
    /\ \E s \in FlagStatus : Begins(p, "updating", NewRow(row.content, s, 0))
    /\ UNCHANGED <<kind, row, versions, audit, policy, blobs>>

\* ... and writes the whole flag back.
SetsFlagStatus(p) ==
    /\ kind = "flag" /\ session[p].step = "updating"
    /\ UpdateFeatureFlag(p, session[p].row.content, session[p].row.status) /\ Ends(p)

\* The handler passes no manifest key, which the store requires.
publishFeatureFlag(p) ==
    kind = "flag" /\ isHuman(p) /\ row # NoRow /\ UNCHANGED session /\ Fails(p, "manifest key is required")

-----------------------------------------------------------------------------
(* Prompts and scoring models: a version is inserted, then evaluated and   *)
(* published by UPDATEs that the append-only triggers of migration 063     *)
(* refuse.  Nothing compares their texts: a version has the row's content. *)

CreatePrompt(p) == Creates(NewRow(CHOOSE c \in Contents : TRUE, "draft", 0)) /\ Audits("prompt", p)
createPrompt(p) == kind = "prompt" /\ CreatePrompt(p)

\* current_version_id and latest_version are the client's, read some time ago
\* (or left out, hence zero).
UpdatePrompt(p) ==
    /\ kind = "prompt" /\ session[p].step = "updating"
    /\ Ends(p)
    /\ IF row = NoRow THEN Fails(p, "not_found")
       ELSE /\ \E seen \in {session[p].row.latest, 0} : Edits([row EXCEPT !.latest = seen])
            /\ Audits("prompt", p)

updatePrompt(p) ==
    /\ kind = "prompt" /\ row # NoRow
    /\ Begins(p, "updating", NewRow(row.content, "draft", row.latest))
    /\ UNCHANGED <<kind, row, versions, audit, policy, blobs>>

\* The cascade to prompt_versions meets the trigger once a version exists.
DeletePrompt(p) ==
    IF DOMAIN versions # {} THEN UNCHANGED session /\ Fails(p, "append-only")
    ELSE /\ row' = NoRow
         /\ Audits("prompt", p)
         /\ UNCHANGED <<kind, versions, policy, blobs, session>>

deletePrompt(p) == kind = "prompt" /\ row # NoRow /\ DeletePrompt(p)

\* UNIQUE (prompt_id, version) refuses a number that was used.  Audited under
\* the version's own id.
CreatePromptVersion(p, v) ==
    IF row.latest + 1 \in DOMAIN versions THEN Fails(p, "duplicate version")
    ELSE /\ row.latest + 1 <= MaxVersions
         /\ Insert(row.latest + 1, v)
         /\ row' = [row EXCEPT !.latest = @ + 1]
         /\ UNCHANGED <<kind, audit, policy, blobs>>

\* status and eval_status come in the request; published_by is NULL.
createPromptVersion(p) ==
    /\ kind = "prompt" /\ row # NoRow /\ UNCHANGED session
    /\ \E s \in PromptStatus, e \in EvalStatus :
         CreatePromptVersion(p, [content |-> row.content, manifest |-> NoContent, status |-> s,
                                 eval |-> e])

SetPromptVersionEvalStatus(p) == Fails(p, "append-only")
setPromptVersionEvalStatus(p) ==
    kind = "prompt" /\ DOMAIN versions # {} /\ UNCHANGED session /\ SetPromptVersionEvalStatus(p)

\* prompts.Publish puts the manifest of the stored version.
publishPromptVersion(p) ==
    /\ kind = "prompt" /\ isHuman(p)
    /\ \E n \in DOMAIN versions :
         /\ blobs' = blobs \cup {versions[n].content}
         /\ Begins(p, "uploaded", NewRow(versions[n].content, "draft", n))
    /\ UNCHANGED <<kind, row, versions, audit, policy>>

\* An active version is returned; the promotion of any other one is refused,
\* by the check of eval_status or by the trigger.
PublishAnswer(v) ==
    IF v.status = "active" THEN "published"
    ELSE IF v.eval # "passed" THEN "not passed" ELSE "append-only"

PublishPromptVersion(p) ==
    /\ kind = "prompt" /\ session[p].step = "checked"
    /\ Ends(p) /\ Fails(p, PublishAnswer(versions[session[p].row.latest]))

CreateScoringModel(p) == Creates(NewRow(CHOOSE c \in Contents : TRUE, "draft", 0)) /\ Audits("scoring_model", p)
createScoringModel(p) == kind = "scoring" /\ CreateScoringModel(p)

CreateScoringModelVersion(p, v) ==
    /\ row.latest + 1 <= MaxVersions
    /\ Insert(row.latest + 1, v)
    /\ row' = [row EXCEPT !.latest = @ + 1]
    /\ UNCHANGED <<kind, audit, policy, blobs>>

createScoringModelVersion(p) ==
    /\ kind = "scoring" /\ row # NoRow /\ UNCHANGED session
    /\ \E s \in PromptStatus, e \in EvalStatus :
         CreateScoringModelVersion(p, [content |-> row.content, manifest |-> NoContent, status |-> s,
                                       eval |-> e])

\* Two transactions, the model and then a draft version of it.
createLeadScoringModel(p) ==
    /\ kind = "scoring" /\ row = NoRow
    /\ \E c \in Contents \ Invalid :
         /\ row' = NewRow(c, "draft", 0)
         /\ Begins(p, "leading", NewRow(c, "draft", 0))
    /\ Audits("scoring_model", p)
    /\ UNCHANGED <<kind, versions, policy, blobs>>

CreateLeadVersion(p) ==
    /\ kind = "scoring" /\ session[p].step = "leading"
    /\ CreateScoringModelVersion(p, [content |-> session[p].row.content, manifest |-> NoContent,
                                    status |-> "draft", eval |-> "pending"])
    /\ Ends(p)

PublishScoringModelVersion(p, n) == Fails(p, PublishAnswer(versions[n]))

publishScoringModelVersion(p) ==
    /\ kind = "scoring" /\ isHuman(p) /\ UNCHANGED session
    /\ \E n \in DOMAIN versions : PublishScoringModelVersion(p, n)

-----------------------------------------------------------------------------
(* The specification                                                       *)

Requests(p) ==
    \/ setMakerCheckerPolicy(p)
    \/ createJourney(p) \/ updateJourney(p) \/ publishJourney(p) \/ setJourneyVersionStatus(p)
    \/ createForm(p) \/ updateForm(p) \/ publishForm(p)
    \/ createLandingPage(p) \/ updateLandingPage(p) \/ publishLandingPage(p)
    \/ createConnectorPipeline(p) \/ updateConnectorPipeline(p) \/ publishConnectorPipeline(p)
    \/ createTemplate(p) \/ updateTemplate(p)
    \/ createFeatureFlag(p) \/ updateFeatureFlag(p) \/ setFlagStatus(p) \/ publishFeatureFlag(p)
    \/ createPrompt(p) \/ updatePrompt(p) \/ deletePrompt(p)
    \/ createPromptVersion(p) \/ setPromptVersionEvalStatus(p) \/ publishPromptVersion(p)
    \/ createScoringModel(p) \/ createScoringModelVersion(p) \/ createLeadScoringModel(p)
    \/ publishScoringModelVersion(p)

Continues(p) ==
    \/ CheckMakerChecker(p) \/ Abandon(p)
    \/ UpdateJourney(p) \/ PublishJourney(p) \/ PublishForm(p) \/ PublishLandingPage(p)
    \/ PublishConnectorPipeline(p) \/ UpdateTemplate(p) \/ SetsFlagStatus(p)
    \/ UpdatePrompt(p) \/ PublishPromptVersion(p) \/ CreateLeadVersion(p)

Init ==
    /\ kind \in Kinds
    /\ row = NoRow
    /\ versions = [n \in {} |-> NoRow]
    /\ audit = {} /\ blobs = {}
    /\ policy \in IF kind \in DOMAIN ResourceType THEN BOOLEAN ELSE {FALSE}
    /\ session = [p \in Principals |-> Idle]

Busy == {p \in Principals : session[p].step # "idle"}

\* A principal has one request in progress, and MaxSessions principals have one.
Admits(p) == p \notin Busy /\ Cardinality(Busy) < MaxSessions

Next == \E p \in Principals : (Admits(p) /\ Requests(p)) \/ Continues(p)

Spec == Init /\ [][Next]_vars

-----------------------------------------------------------------------------
(* Properties                                                              *)

\* What a version froze is what its manifest holds and the manifest was put,
\* whoever edited the draft between the upload and the commit
\* (journey.Publish, PublishJourney, publishing.Publish).  Only a rolled out
\* version of a journey has no manifest.
FrozenContent ==
    kind \in {"journey", "form", "page", "pipeline"} =>
        \A n \in DOMAIN versions :
            \/ versions[n].content = versions[n].manifest /\ versions[n].content \in blobs
            \/ versions[n].manifest = NoContent /\ kind = "journey"

\* Publishing the same content again, concurrently or as a retry, makes no
\* second version: neighbours always differ (PublishForm,
\* PublishLandingPage, PublishConnectorPipeline).
RepublishAddsNothing ==
    kind \in {"form", "page", "pipeline"} =>
        \A n \in DOMAIN versions : n + 1 \in DOMAIN versions => versions[n].content # versions[n + 1].content

\* Versions are numbered without a gap and the row points at the newest one,
\* under concurrent publishers, edits and abandoned requests.
NumberedInOrder ==
    kind \in {"journey", "form", "page", "pipeline"} =>
        /\ DOMAIN versions = 1..Latest
        /\ row # NoRow => row.current = Latest /\ (kind # "pipeline" => row.latest = Latest)
=============================================================================
