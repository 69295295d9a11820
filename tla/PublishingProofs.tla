-------------------------- MODULE PublishingProofs --------------------------
(***************************************************************************)
(* What the immutable versions of journeys, forms, landing pages and       *)
(* connector pipelines keep, whoever edits, publishes, abandons and rolls  *)
(* out experiments at the same time, and however many do.                  *)
(***************************************************************************)
EXTENDS Experiments, FiniteSetTheorems, TLAPS

USE RowAssumption

Published == {"journey", "form", "page", "pipeline"}

\* The draft is a row or missing.
RowInv == row \in {NoRow} \cup Row

\* n versions, numbered from 1, and a row that points at the last one.
NumberedTo(n) ==
    /\ DOMAIN versions = 1..n
    /\ row = NoRow => n = 0
    /\ row # NoRow => row.current = n /\ (kind # "pipeline" => row.latest = n)

\* A record with the columns of a version.
IsVersion(v) ==
    v = [content |-> v.content, manifest |-> v.manifest, status |-> v.status, eval |-> v.eval]

VersionsInv ==
    /\ versions = [i \in DOMAIN versions |-> versions[i]]
    /\ \A i \in DOMAIN versions : IsVersion(versions[i])

\* A request in progress has read a draft, and has put what it will publish.
SessionOK(s, r, put) ==
    /\ s.step \in {"idle", "updating", "uploaded", "checked"}
    /\ s.step # "idle" => r # NoRow /\ s.row \in Row
    /\ s.step \in {"uploaded", "checked"} => s.row.content \in put

SessionInv ==
    /\ session = [p \in Principals |-> session[p]]
    /\ \A p \in Principals : SessionOK(session[p], row, blobs)

PInv ==
    kind \in Published =>
        /\ RowInv
        /\ \E n \in Nat : NumberedTo(n)
        /\ VersionsInv
        /\ SessionInv
        /\ FrozenContent
        /\ RepublishAddsNothing

-----------------------------------------------------------------------------
(* The ways in which the state changes                                     *)

\* What a step may do to the requests in progress.
SessionsMove ==
    /\ session' = [p \in Principals |-> session'[p]]
    /\ \A p \in Principals : session'[p] = session[p] \/ SessionOK(session'[p], row', blobs')

\* Requests stay in order while the draft is there and blobs are only added.
LEMMA SessionsKeep ==
  ASSUME SessionInv, SessionsMove, blobs \subseteq blobs', row = NoRow \/ row' # NoRow
  PROVE  SessionInv'
<1>1. ASSUME NEW p \in Principals PROVE SessionOK(session'[p], row', blobs')
  <2>1. CASE SessionOK(session'[p], row', blobs')
    BY <2>1
  <2>2. CASE session'[p] = session[p]
    BY <2>2 DEF SessionInv, SessionOK
  <2> QED
    BY <2>1, <2>2 DEF SessionsMove
<1>2. \A p \in Principals : SessionOK(session[p], row, blobs)'
  BY <1>1
<1> QED
  BY <1>2 DEF SessionInv, SessionsMove

\* No version is made, and the draft stays as it is or is edited.
LEMMA EditsKeep ==
  ASSUME PInv, kind' = kind, versions' = versions, blobs \subseteq blobs',
         kind \in Published => SessionsMove,
         kind \in Published => \/ row' = row
                              \/ /\ row # NoRow /\ row' \in Row
                                 /\ row'.current = row.current /\ row'.latest = row.latest
                              \/ /\ row = NoRow /\ row' \in Row
                                 /\ row'.current = 0 /\ row'.latest = 0
  PROVE  PInv'
<1> SUFFICES ASSUME kind \in Published
             PROVE  /\ RowInv' /\ (\E n \in Nat : NumberedTo(n)')
                    /\ VersionsInv' /\ SessionInv' /\ FrozenContent' /\ RepublishAddsNothing'
  BY DEF PInv
<1>1. RowInv /\ VersionsInv /\ SessionInv /\ FrozenContent /\ RepublishAddsNothing
  BY DEF PInv
<1>2. Row \cap {NoRow} = {}
  BY DEF Row
<1>3. RowInv' /\ (row = NoRow \/ row' # NoRow)
  BY <1>1, <1>2 DEF RowInv
<1>4. \E n \in Nat : NumberedTo(n)'
  <2>1. PICK n \in Nat : NumberedTo(n)
    BY DEF PInv
  <2>2. NumberedTo(n)'
    BY <1>2, <2>1 DEF NumberedTo
  <2> QED
    BY <2>2
<1>5. SessionInv'
  BY <1>1, <1>3, SessionsKeep
<1>6. VersionsInv' /\ RepublishAddsNothing'
  BY <1>1 DEF VersionsInv, RepublishAddsNothing
<1>7. FrozenContent'
  BY <1>1 DEF FrozenContent
<1> QED
  BY <1>3, <1>4, <1>5, <1>6, <1>7

\* Version n + 1 is added at the end ...
Extended(n) ==
    /\ versions' = [i \in DOMAIN versions' |-> versions'[i]]
    /\ DOMAIN versions' = DOMAIN versions \cup {n + 1}
    /\ \A i \in DOMAIN versions : /\ IsVersion(versions'[i])
                                  /\ versions'[i].content = versions[i].content
                                  /\ versions'[i].manifest = versions[i].manifest

\* ... with what was put in the blob store, or rolled out, and new ...
Adds(v, n) ==
    /\ IsVersion(v)
    /\ \/ v.content = v.manifest /\ v.content \in blobs
       \/ v.manifest = NoContent /\ kind = "journey"
    /\ kind # "journey" /\ n # 0 => versions[n].content # v.content

\* ... and the row points at it.
AddsVersion(n) ==
    /\ kind \in Published /\ kind' = kind /\ blobs' = blobs /\ SessionsMove /\ NumberedTo(n)
    /\ row' \in Row /\ row'.current = n + 1 /\ (kind # "pipeline" => row'.latest = n + 1)
    /\ Extended(n)
    /\ Adds(versions'[n + 1], n)

LEMMA AdditionsKeep ==
  ASSUME PInv, NEW n \in Nat, AddsVersion(n)
  PROVE  PInv'
<1> USE DEF AddsVersion, Extended, Adds
<1>1. RowInv /\ VersionsInv /\ SessionInv /\ FrozenContent /\ RepublishAddsNothing
  BY DEF PInv
<1>2. row' # NoRow
  BY DEF Row
<1>3. DOMAIN versions = 1..n /\ DOMAIN versions' = 1..(n + 1)
  BY DEF NumberedTo
<1>4. RowInv'
  BY DEF RowInv
<1>5. \E m \in Nat : NumberedTo(m)'
  <2>1. NumberedTo(n + 1)'
    BY <1>2, <1>3 DEF NumberedTo
  <2> QED
    BY <2>1
<1>6. VersionsInv'
  BY DEF VersionsInv
<1>7. SessionInv'
  BY <1>1, <1>2, SessionsKeep
<1>8. FrozenContent'
  BY <1>1 DEF FrozenContent
<1>9. RepublishAddsNothing'
  <2> SUFFICES ASSUME kind \in {"form", "page", "pipeline"}, NEW i \in 1..(n + 1), i + 1 \in 1..(n + 1)
               PROVE  versions'[i].content # versions'[i + 1].content
    BY <1>3 DEF RepublishAddsNothing
  <2>1. i \in DOMAIN versions
    BY <1>3
  <2>2. CASE i = n
    BY <2>1, <2>2
  <2>3. CASE i # n
    <3>1. i + 1 \in DOMAIN versions
      BY <1>3, <2>3
    <3> QED
      BY <1>1, <2>1, <3>1 DEF RepublishAddsNothing
  <2> QED
    BY <2>2, <2>3
<1> QED
  BY <1>4, <1>5, <1>6, <1>7, <1>8, <1>9 DEF PInv

\* The newest of versions that are numbered from 1.
LEMMA LatestIs ==
  ASSUME NEW n \in Nat, DOMAIN versions = 1..n
  PROVE  Latest = n
<1>1. CASE n = 0
  BY <1>1 DEF Latest
<1>2. CASE n # 0
  <2>1. n \in DOMAIN versions /\ \A m \in DOMAIN versions : m <= n
    BY <1>2
  <2>2. ASSUME NEW l \in DOMAIN versions, \A m \in DOMAIN versions : m <= l
        PROVE  l = n
    <3>1. l \in Nat /\ l <= n /\ n <= l
      BY <2>1, <2>2
    <3> QED
      BY <3>1
  <2> QED
    BY <2>1, <2>2 DEF Latest
<1> QED
  BY <1>1, <1>2

-----------------------------------------------------------------------------
(* Requests                                                                *)

\* A step that leaves the requests alone.
LEMMA NobodyMoves ==
  ASSUME SessionInv, UNCHANGED session
  PROVE  SessionsMove
  BY DEF SessionInv, SessionsMove

\* A step of one request.
LEMMA OneMoves ==
  ASSUME SessionInv, NEW p \in Principals, NEW s, SessionOK(s, row', blobs'),
         session' = [session EXCEPT ![p] = s]
  PROVE  SessionsMove
<1>1. session' = [q \in Principals |-> session'[q]]
  BY DEF SessionInv
<1>2. \A q \in Principals : session'[q] = IF q = p THEN s ELSE session[q]
  BY DEF SessionInv
<1> QED
  BY <1>1, <1>2 DEF SessionsMove

LEMMA EndMoves ==
  ASSUME SessionInv, NEW p \in Principals, Ends(p)
  PROVE  SessionsMove
<1>1. SessionOK(Idle, row', blobs')
  BY DEF SessionOK, Idle
<1> QED
  BY <1>1, OneMoves DEF Ends

\* A new draft row.
LEMMA NewRowType ==
  ASSUME NEW c \in Contents, NEW s \in Status, NEW n \in Nat
  PROVE  /\ NewRow(c, s, n) \in Row
         /\ NewRow(c, s, n).content = c /\ NewRow(c, s, n).latest = n /\ NewRow(c, s, n).current = 0
  BY DEF NewRow, Row

\* A request begins with the draft it has read or put.
LEMMA BeginMoves ==
  ASSUME SessionInv, NEW p \in Principals, NEW step \in {"updating", "uploaded"}, NEW r \in Row,
         Begins(p, step, r), row' # NoRow, step = "uploaded" => r.content \in blobs'
  PROVE  SessionsMove
<1>1. SessionOK([step |-> step, row |-> r], row', blobs')
  BY DEF SessionOK
<1> QED
  BY <1>1, OneMoves DEF Begins

\* The parts of the invariant for the kinds it is about.
LEMMA Parts ==
  ASSUME PInv, kind \in Published
  PROVE  RowInv /\ VersionsInv /\ SessionInv /\ FrozenContent /\ RepublishAddsNothing
  BY DEF PInv

LEMMA CreatesKeep ==
  ASSUME PInv, kind \in Published, NEW p \in Principals, NEW c \in Contents, NEW s \in Status,
         Creates(NewRow(c, s, 0))
  PROVE  PInv'
<1>1. /\ row = NoRow /\ row' = NewRow(c, s, 0)
      /\ UNCHANGED <<kind, versions, blobs, session>>
  BY DEF Creates
<1>2. row' \in Row /\ row'.current = 0 /\ row'.latest = 0
  BY <1>1, NewRowType
<1>3. SessionsMove
  BY <1>1, Parts, NobodyMoves
<1> QED
  BY <1>1, <1>2, <1>3, EditsKeep

LEMMA UploadsKeep ==
  ASSUME PInv, kind \in Published, NEW p \in Principals, NEW c \in Contents, row # NoRow, Uploads(p, c)
  PROVE  PInv'
<1>1. /\ blobs' = blobs \cup {c} /\ Begins(p, "uploaded", NewRow(c, "draft", 0))
      /\ UNCHANGED <<kind, row, versions>>
  BY DEF Uploads
<1>2. NewRow(c, "draft", 0) \in Row /\ NewRow(c, "draft", 0).content = c
  <2>1. "draft" \in Status
    BY DEF Status, JourneyStatus
  <2> QED
    BY <2>1, NewRowType
<1>3. SessionsMove
  BY <1>1, <1>2, Parts, BeginMoves
<1> QED
  BY <1>1, <1>3, EditsKeep

\* Nothing but audit rows, policies or requests that stay as they are.
LEMMA IdleSteps ==
  ASSUME PInv, UNCHANGED <<kind, row, versions, blobs, session>>
  PROVE  PInv'
<1>1. kind \in Published => SessionsMove
  BY Parts, NobodyMoves
<1> QED
  BY <1>1, EditsKeep

\* A request ends and leaves the resource alone.
LEMMA EndKeeps ==
  ASSUME PInv, NEW p \in Principals, Ends(p), UNCHANGED <<kind, row, versions, blobs>>
  PROVE  PInv'
<1>1. kind \in Published => SessionsMove
  BY Parts, EndMoves
<1> QED
  BY <1>1, EditsKeep

\* An edit of the draft that keeps its numbers.
LEMMA EditKeeps ==
  ASSUME PInv, kind \in Published, NEW p \in Principals, NEW r, Edits(r), SessionsMove,
         row # NoRow => r \in Row /\ r.current = row.current /\ r.latest = row.latest
  PROVE  PInv'
<1>1. row # NoRow /\ row' = r /\ UNCHANGED <<kind, versions, blobs>>
  BY DEF Edits
<1> QED
  BY <1>1, EditsKeep

LEMMA StatusKeeps ==
  ASSUME PInv, NEW p \in Principals, setJourneyVersionStatus(p)
  PROVE  PInv'
<1>1. PICK n \in DOMAIN versions, s \in {"active", "paused"} :
        /\ versions' = [versions EXCEPT ![n].status = s]
        /\ UNCHANGED <<kind, row, blobs, session>>
  BY DEF setJourneyVersionStatus, SetJourneyVersionStatus
<1>2. kind = "journey" /\ kind \in Published
  BY DEF setJourneyVersionStatus, Published
<1>3. RowInv /\ VersionsInv /\ SessionInv /\ FrozenContent
  BY <1>2, Parts
<1>4. DOMAIN versions' = DOMAIN versions /\ versions' = [i \in DOMAIN versions' |-> versions'[i]]
  BY <1>1, <1>3 DEF VersionsInv
<1>5. ASSUME NEW i \in DOMAIN versions
      PROVE  /\ IsVersion(versions'[i])
             /\ versions'[i].content = versions[i].content
             /\ versions'[i].manifest = versions[i].manifest
  <2>1. IsVersion(versions[i])
    BY <1>3 DEF VersionsInv
  <2>2. versions'[i] = IF i = n THEN [versions[i] EXCEPT !.status = s] ELSE versions[i]
    BY <1>1, <1>3 DEF VersionsInv
  <2> QED
    BY <2>1, <2>2 DEF IsVersion
<1>6. VersionsInv'
  BY <1>4, <1>5 DEF VersionsInv
<1>7. FrozenContent'
  BY <1>1, <1>3, <1>4, <1>5 DEF FrozenContent
<1>8. RepublishAddsNothing'
  BY <1>1, <1>2 DEF RepublishAddsNothing
<1>9. RowInv' /\ (\E m \in Nat : NumberedTo(m)')
  <2>1. PICK m \in Nat : NumberedTo(m)
    BY <1>2 DEF PInv
  <2>2. NumberedTo(m)'
    BY <1>1, <1>4, <2>1 DEF NumberedTo
  <2> QED
    BY <1>1, <1>3, <2>2 DEF RowInv
<1>10. SessionInv'
  BY <1>1, <1>3 DEF SessionInv
<1> QED
  BY <1>6, <1>7, <1>8, <1>9, <1>10 DEF PInv

\* Requests that one transaction answers, and the first steps of the others.
LEMMA RequestsKeep ==
  ASSUME PInv, NEW p \in Principals, Requests(p)
  PROVE  PInv'
<1>1. CASE createJourney(p) \/ createForm(p) \/ createLandingPage(p) \/ createConnectorPipeline(p)
  <2>1. kind \in Published
    BY <1>1 DEF createJourney, createForm, createLandingPage, createConnectorPipeline, Published
  <2>2. \E c \in Contents, s \in Status : Creates(NewRow(c, s, 0))
    BY <1>1 DEF createJourney, createForm, createLandingPage, createConnectorPipeline, CreateJourney,
                CreateForm, CreateLandingPage, CreateConnectorPipeline, Status, JourneyStatus, PipelineStatus
  <2> QED
    BY <2>1, <2>2, CreatesKeep
<1>2. CASE updateForm(p) \/ updateLandingPage(p) \/ updateConnectorPipeline(p)
  <2>1. kind \in Published
    BY <1>2 DEF updateForm, updateLandingPage, updateConnectorPipeline, Published
  <2>2. PICK r : /\ Edits(r) /\ UNCHANGED session
                 /\ \E c \in Contents, s \in Status :
                      r = [row EXCEPT !.content = c, !.status = s] \/ r = [row EXCEPT !.content = c]
    <3>1. CASE updateForm(p) \/ updateLandingPage(p)
      <4>1. PICK c \in Contents : Edits([row EXCEPT !.content = c]) /\ UNCHANGED session
        BY <3>1 DEF updateForm, updateLandingPage, UpdateForm, UpdateLandingPage
      <4>2. "draft" \in Status
        BY DEF Status, JourneyStatus
      <4> QED
        BY <4>1, <4>2
    <3>2. CASE updateConnectorPipeline(p)
      <4>1. PICK c \in Contents, s \in PipelineStatus \cup {""} :
              /\ Edits([row EXCEPT !.content = c, !.status = IF @ = "enabled" \/ s = "" THEN @ ELSE s])
              /\ UNCHANGED session
        BY <3>2 DEF updateConnectorPipeline, UpdateConnectorPipeline
      <4>2. row \in Row
        BY <2>1, <4>1, Parts DEF RowInv, Edits
      <4>3. (IF row.status = "enabled" \/ s = "" THEN row.status ELSE s) \in Status
        BY <4>2 DEF Row, Status, PipelineStatus
      <4>4. [row EXCEPT !.content = c, !.status = IF @ = "enabled" \/ s = "" THEN @ ELSE s]
              = [row EXCEPT !.content = c, !.status = IF row.status = "enabled" \/ s = "" THEN row.status ELSE s]
        BY <4>2 DEF Row
      <4> QED
        BY <4>1, <4>3, <4>4
    <3> QED
      BY <1>2, <3>1, <3>2
  <2>3. SessionsMove
    BY <2>1, <2>2, Parts, NobodyMoves
  <2>4. row # NoRow => r \in Row /\ r.current = row.current /\ r.latest = row.latest
    BY <2>1, <2>2, Parts DEF RowInv, Row
  <2> QED
    BY <2>1, <2>2, <2>3, <2>4, EditKeeps
<1>3. CASE updateJourney(p)
  <2>1. kind \in Published /\ row # NoRow
    BY <1>3 DEF updateJourney, Published
  <2>2. PICK c \in Contents \cup {NoContent}, s \in JourneyStatus \cup {""} : UpdateJourneyReads(p, c, s)
    BY <1>3 DEF updateJourney
  <2>3. CASE row.status = "published" /\ s # "draft"
    BY <2>2, <2>3, IdleSteps DEF UpdateJourneyReads, Fails
  <2>4. CASE ~(row.status = "published" /\ s # "draft")
    <3> DEFINE r == NewRow(IF c = NoContent THEN row.content ELSE c, IF s = "" THEN row.status ELSE s, 0)
    <3>1. row \in Row
      BY <2>1, Parts DEF RowInv
    <3>2. /\ (IF c = NoContent THEN row.content ELSE c) \in Contents
          /\ (IF s = "" THEN row.status ELSE s) \in Status
      BY <3>1 DEF Row, Status, JourneyStatus
    <3>3. r \in Row
      BY <3>2, NewRowType
    <3>4. Begins(p, "updating", r) /\ UNCHANGED <<kind, row, versions, blobs>>
      BY <2>2, <2>4 DEF UpdateJourneyReads
    <3> HIDE DEF r
    <3>5. SessionsMove
      BY <2>1, <3>3, <3>4, Parts, BeginMoves
    <3> QED
      BY <3>4, <3>5, EditsKeep
  <2> QED
    BY <2>3, <2>4
<1>4. CASE publishJourney(p) \/ publishForm(p) \/ publishLandingPage(p) \/ publishConnectorPipeline(p)
  <2>1. kind \in Published /\ row # NoRow
    BY <1>4 DEF publishJourney, publishForm, publishLandingPage, publishConnectorPipeline, Published
  <2>2. row.content \in Contents
    BY <2>1, Parts DEF RowInv, Row
  <2>3. Rejects(p) \/ \E c \in Contents : Uploads(p, c)
    BY <1>4, <2>2 DEF publishJourney, publishForm, publishLandingPage, publishConnectorPipeline, Publish
  <2>4. CASE Rejects(p)
    BY <2>4, IdleSteps DEF Rejects, Fails
  <2> QED
    BY <2>1, <2>3, <2>4, UploadsKeep
<1>5. CASE setMakerCheckerPolicy(p)
  BY <1>5, IdleSteps DEF setMakerCheckerPolicy, SetMakerCheckerPolicy
<1>6. CASE setJourneyVersionStatus(p)
  BY <1>6, StatusKeeps
<1>7. CASE \/ createTemplate(p) \/ updateTemplate(p)
           \/ createFeatureFlag(p) \/ updateFeatureFlag(p) \/ setFlagStatus(p) \/ publishFeatureFlag(p)
  <2>1. kind \notin Published
    BY <1>7 DEF createTemplate, updateTemplate, createFeatureFlag, updateFeatureFlag, setFlagStatus,
                publishFeatureFlag, Published
  <2>2. kind' = kind
    BY <1>7 DEF createTemplate, updateTemplate, createFeatureFlag, updateFeatureFlag, setFlagStatus,
                publishFeatureFlag, CreateTemplate, UpdateTemplateReads, CreateFeatureFlag, UpdateFeatureFlag,
                Creates, Edits, Fails
  <2> QED
    BY <2>1, <2>2 DEF PInv
<1>8. CASE \/ createPrompt(p) \/ updatePrompt(p) \/ deletePrompt(p)
           \/ createPromptVersion(p) \/ setPromptVersionEvalStatus(p) \/ publishPromptVersion(p)
  <2>1. kind \notin Published
    BY <1>8 DEF createPrompt, updatePrompt, deletePrompt, createPromptVersion, setPromptVersionEvalStatus,
                publishPromptVersion, Published
  <2>2. kind' = kind
    BY <1>8 DEF createPrompt, updatePrompt, deletePrompt, createPromptVersion, setPromptVersionEvalStatus,
                publishPromptVersion, CreatePrompt, DeletePrompt, CreatePromptVersion,
                SetPromptVersionEvalStatus, Creates, Fails
  <2> QED
    BY <2>1, <2>2 DEF PInv
<1>9. CASE \/ createScoringModel(p) \/ createScoringModelVersion(p) \/ createLeadScoringModel(p)
           \/ publishScoringModelVersion(p)
  <2>1. kind \notin Published
    BY <1>9 DEF createScoringModel, createScoringModelVersion, createLeadScoringModel,
                publishScoringModelVersion, Published
  <2>2. kind' = kind
    BY <1>9 DEF createScoringModel, createScoringModelVersion, createLeadScoringModel,
                publishScoringModelVersion, CreateScoringModel, CreateScoringModelVersion,
                PublishScoringModelVersion, Creates, Fails
  <2> QED
    BY <2>1, <2>2 DEF PInv
<1> QED
  BY <1>1, <1>2, <1>3, <1>4, <1>5, <1>6, <1>7, <1>8, <1>9 DEF Requests

-----------------------------------------------------------------------------
(* The later steps of a request                                            *)

\* A version is inserted behind the n there are.
LEMMA Inserts ==
  ASSUME VersionsInv, NEW n \in Nat, DOMAIN versions = 1..n, NEW v, Insert(n + 1, v)
  PROVE  Extended(n) /\ versions'[n + 1] = v
<1>1. \A i \in DOMAIN versions : versions'[i] = versions[i]
  BY DEF Insert
<1> QED
  BY <1>1 DEF Insert, VersionsInv, Extended

LEMMA StatusesAre ==
  "draft" \in Status /\ "published" \in Status /\ "enabled" \in Status
  BY DEF Status, JourneyStatus, PipelineStatus

LEMMA FrozenFields ==
  ASSUME NEW p, NEW c
  PROVE  /\ IsVersion(Frozen(p, c))
         /\ Frozen(p, c).content = c /\ Frozen(p, c).manifest = session[p].row.content
  BY DEF IsVersion, Frozen

\* A frozen draft of form, page or pipeline is a version unless it is the
\* current one.
LEMMA NewContent ==
  ASSUME PInv, kind \in Published, NEW n \in Nat, NumberedTo(n), row # NoRow, NEW p \in Principals,
         ~SameAsCurrent(p), n # 0, kind # "journey"
  PROVE  versions[n].content # session[p].row.content
<1>1. n \in DOMAIN versions /\ row.current = n
  BY DEF NumberedTo
<1>2. versions[n].content = versions[n].manifest
  BY <1>1, Parts DEF FrozenContent, Published
<1> QED
  BY <1>1, <1>2 DEF SameAsCurrent

LEMMA PublishJourneyKeeps ==
  ASSUME PInv, NEW p \in Principals, PublishJourney(p)
  PROVE  PInv'
<1>1. kind = "journey" /\ kind \in Published /\ session[p].step = "checked"
  BY DEF PublishJourney, Published
<1>2. RowInv /\ VersionsInv /\ SessionInv /\ row # NoRow /\ row \in Row /\ session[p].row.content \in blobs
  BY <1>1, Parts DEF SessionInv, SessionOK, RowInv
<1>3. CASE row.content \notin Invalid /\ DraftUnchanged(p)
  <2>1. /\ Insert(row.latest + 1, Frozen(p, row.content))
        /\ row' = [row EXCEPT !.status = "published", !.current = row.latest + 1, !.latest = row.latest + 1]
        /\ Ends(p) /\ UNCHANGED <<kind, blobs>>
    BY <1>3 DEF PublishJourney, Promotes
  <2>2. PICK n \in Nat : NumberedTo(n)
    BY <1>1 DEF PInv
  <2>3. row.latest = n /\ DOMAIN versions = 1..n
    BY <1>1, <1>2, <2>2 DEF NumberedTo
  <2>4. row' \in Row /\ row'.current = n + 1 /\ row'.latest = n + 1
    <3>1. row' = [row EXCEPT !.status = "published", !.current = n + 1, !.latest = n + 1]
      BY <2>1, <2>3
    <3>2. n + 1 \in Nat
      OBVIOUS
    <3>3. row \in Row
      BY <1>2
    <3> QED
      BY <3>1, <3>2, <3>3, StatusesAre DEF Row
  <2>5. SessionsMove
    BY <1>2, <2>1, EndMoves
  <2> DEFINE v == Frozen(p, row.content)
  <2>6. IsVersion(v) /\ v.content = row.content /\ v.manifest = row.content /\ row.content \in blobs
    BY <1>2, <1>3, FrozenFields DEF DraftUnchanged
  <2>7. Insert(n + 1, v)
    BY <2>1, <2>3
  <2> HIDE DEF v
  <2>8. Extended(n) /\ versions'[n + 1] = v
    BY <1>2, <2>3, <2>7, Inserts
  <2>9. Adds(v, n)
    BY <1>1, <2>6 DEF Adds
  <2>12. AddsVersion(n)
    BY <1>1, <2>1, <2>2, <2>4, <2>5, <2>8, <2>9 DEF AddsVersion
  <2> QED
    BY <2>12, AdditionsKeep
<1>4. CASE ~(row.content \notin Invalid /\ DraftUnchanged(p))
  BY <1>4, EndKeeps DEF PublishJourney, Fails
<1> QED
  BY <1>3, <1>4

LEMMA CommitFormKeeps ==
  ASSUME PInv, NEW p \in Principals, kind \in {"form", "page"}, session[p].step = "checked", CommitForm(p)
  PROVE  PInv'
<1>1. kind \in Published
  BY DEF Published
<1>2. RowInv /\ VersionsInv /\ SessionInv /\ row # NoRow /\ row \in Row /\ session[p].row.content \in blobs
  BY <1>1, Parts DEF SessionInv, SessionOK, RowInv
<1>3. CASE SameAsCurrent(p)
  BY <1>3, EndKeeps DEF CommitForm, Returns, Fails
<1>4. CASE ~SameAsCurrent(p)
  <2> DEFINE v == Frozen(p, session[p].row.content)
  <2>1. /\ Insert(row.latest + 1, v)
        /\ row' = [row EXCEPT !.status = "published", !.current = row.latest + 1, !.latest = row.latest + 1]
        /\ Ends(p) /\ UNCHANGED <<kind, blobs>>
    BY <1>4 DEF CommitForm, Promotes
  <2>2. PICK n \in Nat : NumberedTo(n)
    BY <1>1 DEF PInv
  <2>3. row.latest = n /\ DOMAIN versions = 1..n
    BY <1>1, <1>2, <2>2 DEF NumberedTo
  <2>4. row' \in Row /\ row'.current = n + 1 /\ row'.latest = n + 1
    <3>1. row' = [row EXCEPT !.status = "published", !.current = n + 1, !.latest = n + 1]
      BY <2>1, <2>3
    <3>2. n + 1 \in Nat
      OBVIOUS
    <3>3. row \in Row
      BY <1>2
    <3> QED
      BY <3>1, <3>2, <3>3, StatusesAre DEF Row
  <2>5. SessionsMove
    BY <1>2, <2>1, EndMoves
  <2>6. IsVersion(v) /\ v.content = session[p].row.content /\ v.manifest = session[p].row.content
    BY FrozenFields
  <2> HIDE DEF v
  <2>7. Insert(n + 1, v)
    BY <2>1, <2>3
  <2>8. Extended(n) /\ versions'[n + 1] = v
    BY <1>2, <2>3, <2>7, Inserts
  <2>9. n # 0 => versions[n].content # v.content
    BY <1>1, <1>2, <1>4, <2>2, <2>6, NewContent
  <2>10. Adds(v, n)
    BY <1>2, <2>6, <2>9 DEF Adds
  <2>12. AddsVersion(n)
    BY <1>1, <2>1, <2>2, <2>4, <2>5, <2>8, <2>10 DEF AddsVersion
  <2> QED
    BY <2>12, AdditionsKeep
<1> QED
  BY <1>3, <1>4

LEMMA PublishPipelineKeeps ==
  ASSUME PInv, NEW p \in Principals, PublishConnectorPipeline(p)
  PROVE  PInv'
<1>1. kind = "pipeline" /\ kind \in Published /\ session[p].step = "uploaded"
  BY DEF PublishConnectorPipeline, Published
<1>2. RowInv /\ VersionsInv /\ SessionInv /\ row # NoRow /\ row \in Row /\ session[p].row.content \in blobs
  BY <1>1, Parts DEF SessionInv, SessionOK, RowInv
<1>3. CASE SameAsCurrent(p)
  BY <1>3, EndKeeps DEF PublishConnectorPipeline, Returns, Fails
<1>4. CASE ~SameAsCurrent(p)
  <2> DEFINE v == Frozen(p, session[p].row.content)
  <2>1. /\ Insert(Latest + 1, v)
        /\ row' = [row EXCEPT !.status = "enabled", !.current = Latest + 1]
        /\ Ends(p) /\ UNCHANGED <<kind, blobs>>
    BY <1>4 DEF PublishConnectorPipeline
  <2>2. PICK n \in Nat : NumberedTo(n)
    BY <1>1 DEF PInv
  <2>3. DOMAIN versions = 1..n
    BY <2>2 DEF NumberedTo
  <2>4. Latest = n
    BY <2>3, LatestIs
  <2>5. row' \in Row /\ row'.current = n + 1
    <3>1. row' = [row EXCEPT !.status = "enabled", !.current = n + 1]
      BY <2>1, <2>4
    <3>2. n + 1 \in Nat
      OBVIOUS
    <3>3. row \in Row
      BY <1>2
    <3> QED
      BY <3>1, <3>2, <3>3, StatusesAre DEF Row
  <2>6. SessionsMove
    BY <1>2, <2>1, EndMoves
  <2>7. IsVersion(v) /\ v.content = session[p].row.content /\ v.manifest = session[p].row.content
    BY FrozenFields
  <2> HIDE DEF v
  <2>8. Insert(n + 1, v)
    BY <2>1, <2>4
  <2>9. Extended(n) /\ versions'[n + 1] = v
    BY <1>2, <2>3, <2>8, Inserts
  <2>10. n # 0 => versions[n].content # v.content
    BY <1>1, <1>2, <1>4, <2>2, <2>7, NewContent
  <2>11. Adds(v, n)
    BY <1>2, <2>7, <2>10 DEF Adds
  <2>12. AddsVersion(n)
    BY <1>1, <2>1, <2>2, <2>5, <2>6, <2>9, <2>11 DEF AddsVersion
  <2> QED
    BY <2>12, AdditionsKeep
<1> QED
  BY <1>3, <1>4

LEMMA UpdateJourneyKeeps ==
  ASSUME PInv, NEW p \in Principals, UpdateJourney(p)
  PROVE  PInv'
<1>1. kind \in Published /\ session[p].step = "updating"
  BY DEF UpdateJourney, Published
<1>2. SessionInv /\ row \in Row /\ session[p].row \in Row
  BY <1>1, Parts DEF SessionInv, SessionOK, RowInv
<1> DEFINE r == [row EXCEPT !.content = session[p].row.content, !.status = session[p].row.status]
<1>3. r \in Row /\ r.current = row.current /\ r.latest = row.latest
  BY <1>2 DEF Row
<1>4. Edits(r) /\ Ends(p)
  BY DEF UpdateJourney
<1> HIDE DEF r
<1>5. SessionsMove
  BY <1>2, <1>4, EndMoves
<1> QED
  BY <1>1, <1>3, <1>4, <1>5, EditKeeps

LEMMA CheckKeeps ==
  ASSUME PInv, NEW p \in Principals, CheckMakerChecker(p)
  PROVE  PInv'
<1>1. CASE Ends(p) /\ Fails(p, "self_approval_forbidden")
  BY <1>1, EndKeeps DEF Fails
<1> DEFINE s == [session[p] EXCEPT !.step = "checked"]
<1>2. CASE session' = [session EXCEPT ![p] = s] /\ UNCHANGED <<kind, row, versions, blobs>>
  <2>1. session[p].step = "uploaded"
    BY DEF CheckMakerChecker
  <2>2. kind \in Published => SessionsMove
    <3> SUFFICES ASSUME kind \in Published PROVE SessionsMove
      OBVIOUS
    <3>1. SessionInv /\ SessionOK(session[p], row, blobs)
      BY Parts DEF SessionInv
    <3>2. SessionOK(s, row', blobs')
      BY <1>2, <2>1, <3>1 DEF SessionOK
    <3> HIDE DEF s
    <3> QED
      BY <1>2, <3>1, <3>2, OneMoves
  <2> QED
    BY <1>2, <2>2, EditsKeep
<1> QED
  BY <1>1, <1>2 DEF CheckMakerChecker

LEMMA ContinuesKeep ==
  ASSUME PInv, NEW p \in Principals, Continues(p)
  PROVE  PInv'
<1>1. CASE Abandon(p)
  BY <1>1, EndKeeps DEF Abandon
<1>2. CASE PublishForm(p) \/ PublishLandingPage(p)
  BY <1>2, CommitFormKeeps DEF PublishForm, PublishLandingPage
<1>3. CASE \/ UpdateTemplate(p) \/ SetsFlagStatus(p) \/ UpdatePrompt(p) \/ PublishPromptVersion(p)
           \/ CreateLeadVersion(p)
  <2>1. kind \notin Published
    BY <1>3 DEF UpdateTemplate, SetsFlagStatus, UpdatePrompt, PublishPromptVersion, CreateLeadVersion, Published
  <2>2. kind' = kind
    BY <1>3 DEF UpdateTemplate, SetsFlagStatus, UpdateFeatureFlag, UpdatePrompt, PublishPromptVersion,
                CreateLeadVersion, CreateScoringModelVersion, Edits, Fails
  <2> QED
    BY <2>1, <2>2 DEF PInv
<1> QED
  BY <1>1, <1>2, <1>3, CheckKeeps, UpdateJourneyKeeps, PublishJourneyKeeps, PublishPipelineKeeps
  DEF Continues

-----------------------------------------------------------------------------
(* Experiments                                                             *)

\* A rollout adds a version that has no manifest and archives the current one.
LEMMA RolloutKeeps ==
  ASSUME PInv, NEW p \in Principals, rolloutJourney(p)
  PROVE  PInv'
<1>1. kind = "journey" /\ kind \in Published /\ row # NoRow
  BY DEF rolloutJourney, Published
<1>2. RowInv /\ VersionsInv /\ SessionInv /\ row \in Row
  BY <1>1, Parts DEF RowInv
<1>3. PICK n \in Nat : NumberedTo(n)
  BY <1>1 DEF PInv
<1>4. row.latest = n /\ DOMAIN versions = 1..n
  BY <1>1, <1>3 DEF NumberedTo
<1>5. PICK v : /\ IsVersion(v) /\ v.manifest = NoContent
               /\ versions' = [i \in DOMAIN versions \cup {n + 1} |->
                    IF i = n + 1 THEN v
                    ELSE IF i = row.current THEN [versions[i] EXCEPT !.status = "draft"] ELSE versions[i]]
  BY <1>4 DEF rolloutJourney, rolloutVersion, IsVersion
<1>6. /\ row' = [row EXCEPT !.status = "published", !.current = n + 1, !.latest = n + 1]
      /\ UNCHANGED <<kind, blobs, session>>
  BY <1>4 DEF rolloutJourney, rolloutVersion
<1>7. row' \in Row /\ row'.current = n + 1 /\ row'.latest = n + 1
  <2>1. n + 1 \in Nat /\ row \in Row
    BY <1>2
  <2> QED
    BY <1>6, <2>1, StatusesAre DEF Row
<1>8. SessionsMove
  BY <1>2, <1>6, NobodyMoves
<1>9. Extended(n)
  <2>1. ASSUME NEW i \in DOMAIN versions
        PROVE  /\ IsVersion(versions'[i])
               /\ versions'[i].content = versions[i].content
               /\ versions'[i].manifest = versions[i].manifest
    <3>1. IsVersion(versions[i])
      BY <1>2 DEF VersionsInv
    <3>2. versions'[i] = IF i = row.current THEN [versions[i] EXCEPT !.status = "draft"] ELSE versions[i]
      BY <1>4, <1>5
    <3> QED
      BY <3>1, <3>2 DEF IsVersion
  <2>2. /\ versions' = [i \in DOMAIN versions' |-> versions'[i]]
        /\ DOMAIN versions' = DOMAIN versions \cup {n + 1}
    BY <1>5
  <2> QED
    BY <2>1, <2>2 DEF Extended
<1>10. versions'[n + 1] = v
  BY <1>5
<1>11. Adds(v, n)
  BY <1>1, <1>5 DEF Adds
<1>12. AddsVersion(n)
  BY <1>1, <1>3, <1>6, <1>7, <1>8, <1>9, <1>10, <1>11 DEF AddsVersion
<1> QED
  BY <1>12, AdditionsKeep

LEMMA ExperimentsKeep ==
  ASSUME PInv, NEW p \in Principals, ExperimentRequests(p) \/ ExperimentContinues(p)
  PROVE  PInv'
<1>1. CASE createExperiment(p) \/ updateExperiment(p) \/ getExperimentReport(p) \/ proposeExperimentOptimization(p)
  <2>1. kind \notin Published /\ kind' = kind
    BY <1>1 DEF createExperiment, updateExperiment, getExperimentReport, proposeExperimentOptimization,
                ExperimentReport, Elsewhere, Published
  <2> QED
    BY <2>1 DEF PInv
<1>2. CASE approveExperimentOptimization(p)
  BY <1>2, IdleSteps DEF approveExperimentOptimization, ApproveExperimentOptimization, Elsewhere
<1>3. CASE rolloutExperiment(p)
  <2>1. CASE rolloutCampaign(p)
    BY <2>1, IdleSteps DEF rolloutCampaign, Elsewhere
  <2> QED
    BY <1>3, <2>1, RolloutKeeps DEF rolloutExperiment, RolloutExperiment
<1>4. CASE ExperimentContinues(p)
  <2>1. /\ session[p].step \in {"reporting", "advising", "looking", "proposing"}
        /\ kind' = kind
    BY <1>4 DEF ExperimentContinues, RecordsWinner, LooksUpProposal, ProposeExperimentOptimization, Elsewhere
  <2>2. kind \notin Published
    BY <2>1, Parts DEF SessionInv, SessionOK
  <2> QED
    BY <2>1, <2>2 DEF PInv
<1> QED
  BY <1>1, <1>2, <1>3, <1>4 DEF ExperimentRequests

-----------------------------------------------------------------------------
(* The theorems                                                            *)

LEMMA InitPInv == ExperimentsInit => PInv
<1> SUFFICES ASSUME Init PROVE PInv
  BY DEF ExperimentsInit
<1>1. row = NoRow /\ DOMAIN versions = {} /\ versions = [n \in {} |-> NoRow]
  BY DEF Init
<1>2. NumberedTo(0)
  BY <1>1 DEF NumberedTo
<1>3. VersionsInv /\ FrozenContent /\ RepublishAddsNothing /\ RowInv
  BY <1>1 DEF VersionsInv, FrozenContent, RepublishAddsNothing, RowInv
<1>4. SessionInv
  BY DEF Init, SessionInv, SessionOK, Idle
<1> QED
  BY <1>2, <1>3, <1>4 DEF PInv

LEMMA NextPInv == PInv /\ [ExperimentsNext]_<<vars, evars>> => PInv'
<1> SUFFICES ASSUME PInv, [ExperimentsNext]_<<vars, evars>> PROVE PInv'
  OBVIOUS
<1>1. CASE UNCHANGED <<vars, evars>>
  BY <1>1, IdleSteps DEF vars
<1>2. CASE Next
  BY <1>2, RequestsKeep, ContinuesKeep DEF Next
<1>3. CASE \E p \in Principals : (Admits(p) /\ ExperimentRequests(p)) \/ ExperimentContinues(p)
  BY <1>3, ExperimentsKeep
<1> QED
  BY <1>1, <1>2, <1>3 DEF ExperimentsNext

LEMMA PublishingSafe == ExperimentsSpec => []PInv
  BY InitPInv, NextPInv, PTL DEF ExperimentsSpec

\* What a version of a journey, a form, a landing page or a pipeline froze is
\* what its manifest holds, and the manifest was put: for every set of
\* principals and documents, and whatever is edited between the upload and the
\* commit (PublishJourney, PublishForm, PublishConnectorPipeline).
THEOREM VersionsAreFrozen == ExperimentsSpec => []FrozenContent
<1>1. PInv => FrozenContent
  BY DEF PInv, FrozenContent, Published
<1> QED
  BY <1>1, PublishingSafe, PTL

\* Publications of the same form, page or pipeline content, repeated or
\* concurrent, add no second version in a row (SameAsCurrent in the committing
\* transactions).
THEOREM RepublicationIsIdempotent == ExperimentsSpec => []RepublishAddsNothing
<1>1. PInv => RepublishAddsNothing
  BY DEF PInv, RepublishAddsNothing, Published
<1> QED
  BY <1>1, PublishingSafe, PTL

\* Version numbers have no gap and the row points at the newest version, under
\* concurrent publications, edits, rollouts and abandoned requests
\* (latest_version under the row lock, MAX(version) for pipelines).
THEOREM VersionsAreNumbered == ExperimentsSpec => []NumberedInOrder
<1>1. PInv => NumberedInOrder
  <2> SUFFICES ASSUME PInv, kind \in Published
               PROVE  /\ DOMAIN versions = 1..Latest
                      /\ row # NoRow => row.current = Latest /\ (kind # "pipeline" => row.latest = Latest)
    BY DEF NumberedInOrder, Published
  <2>1. PICK n \in Nat : NumberedTo(n)
    BY DEF PInv
  <2>2. Latest = n
    BY <2>1, LatestIs DEF NumberedTo
  <2> QED
    BY <2>1, <2>2 DEF NumberedTo
<1> QED
  BY <1>1, PublishingSafe, PTL

-----------------------------------------------------------------------------
(* Approvals of experiment proposals.                                      *)

ProposalRow(W) == [winner: W, status: {"proposed", "approved"}]
SnapshotRow(W) == [proposal: Nat, serves: SUBSET W]

\* Approved proposals and snapshots point at one another, and a snapshot
\* serves the winner of its proposal or nobody.
SnapshotOK(snap) ==
    /\ snap.proposal \in 1..Len(proposals)
    /\ proposals[snap.proposal].status = "approved"
    /\ snap.serves \subseteq {proposals[snap.proposal].winner}

Approvals(W) ==
    /\ proposals \in Seq(ProposalRow(W)) /\ snapshots \in Seq(SnapshotRow(W))
    /\ \A n \in 1..Len(snapshots) : SnapshotOK(snapshots[n])
    /\ \A i \in 1..Len(proposals) : proposals[i].status = "approved" =>
         \E n \in 1..Len(snapshots) : snapshots[n].proposal = i
    /\ \A m, n \in 1..Len(snapshots) : snapshots[m].proposal = snapshots[n].proposal => m = n

LEMMA SeqGrows ==
  ASSUME NEW S, NEW T, S \subseteq T, NEW q \in Seq(S)
  PROVE  q \in Seq(T)
  OBVIOUS

LEMMA AppendedSeq ==
  ASSUME NEW S, NEW q \in Seq(S), NEW x \in S
  PROVE  /\ Append(q, x) \in Seq(S) /\ Len(Append(q, x)) = Len(q) + 1 /\ Len(q) \in Nat
         /\ \A i \in 1..Len(q) : Append(q, x)[i] = q[i]
         /\ Append(q, x)[Len(q) + 1] = x
  OBVIOUS

LEMMA ProposeKeeps ==
  ASSUME NEW W, Approvals(W), NEW p \in Principals, ProposeExperimentOptimization(p)
  PROVE  \E X : Approvals(X)'
<1> DEFINE V == W \cup {found[p]}
           x == [winner |-> found[p], status |-> "proposed"]
<1>1. proposals \in Seq(ProposalRow(V)) /\ snapshots \in Seq(SnapshotRow(V))
  <2>1. ProposalRow(W) \subseteq ProposalRow(V) /\ SnapshotRow(W) \subseteq SnapshotRow(V)
    BY DEF ProposalRow, SnapshotRow
  <2> QED
    BY <2>1, SeqGrows, ZenonT(60) DEF Approvals
<1>2. x \in ProposalRow(V) /\ x.status = "proposed"
  BY DEF ProposalRow
<1>3. proposals' = Append(proposals, x) /\ snapshots' = snapshots
  BY DEF ProposeExperimentOptimization
<1> HIDE DEF V, x
<1>4. /\ proposals' \in Seq(ProposalRow(V)) /\ Len(proposals') = Len(proposals) + 1 /\ Len(proposals) \in Nat
      /\ \A i \in 1..Len(proposals) : proposals'[i] = proposals[i]
      /\ proposals'[Len(proposals) + 1] = x
  BY <1>1, <1>2, <1>3, AppendedSeq
<1>5. ASSUME NEW n \in 1..Len(snapshots) PROVE SnapshotOK(snapshots[n])'
  <2>1. SnapshotOK(snapshots[n])
    BY DEF Approvals
  <2>2. snapshots'[n] = snapshots[n]
    BY <1>3
  <2> QED
    BY <1>4, <2>1, <2>2 DEF SnapshotOK
<1>6. ASSUME NEW i \in 1..Len(proposals'), proposals'[i].status = "approved"
      PROVE  \E n \in 1..Len(snapshots) : snapshots[n].proposal = i
  <2>1. i \in 1..Len(proposals)
    BY <1>2, <1>4, <1>6
  <2> QED
    BY <1>4, <1>6, <2>1 DEF Approvals
<1>7. \A n \in 1..Len(snapshots) : SnapshotOK(snapshots[n])'
  BY <1>5
<1>8. \A m, n \in 1..Len(snapshots) : snapshots[m].proposal = snapshots[n].proposal => m = n
  BY DEF Approvals
<1>9. ASSUME NEW X, X = V PROVE Approvals(X)'
  BY <1>1, <1>3, <1>4, <1>6, <1>7, <1>8, <1>9 DEF Approvals
<1> QED
  BY <1>9

LEMMA ApproveKeeps ==
  ASSUME NEW W, Approvals(W), NEW p \in Principals, NEW i \in DOMAIN proposals,
         ApproveExperimentOptimization(p, i)
  PROVE  Approvals(W)'
<1> DEFINE x == [proposal |-> i, serves |-> exp.labels \cap {proposals[i].winner}]
<1>1. /\ proposals \in Seq(ProposalRow(W)) /\ snapshots \in Seq(SnapshotRow(W))
      /\ i \in 1..Len(proposals) /\ i \in Nat /\ proposals[i] \in ProposalRow(W)
      /\ proposals[i].status = "proposed"
  BY DEF Approvals, ApproveExperimentOptimization
<1>2. x \in SnapshotRow(W) /\ x.proposal = i /\ x.serves \subseteq {proposals[i].winner}
  BY <1>1 DEF SnapshotRow, ProposalRow
<1>3. /\ snapshots' = Append(snapshots, x)
      /\ proposals' = [proposals EXCEPT ![i].status = "approved"]
  BY DEF ApproveExperimentOptimization, Settles
<1> HIDE DEF x
<1>4. /\ snapshots' \in Seq(SnapshotRow(W)) /\ Len(snapshots') = Len(snapshots) + 1 /\ Len(snapshots) \in Nat
      /\ \A n \in 1..Len(snapshots) : snapshots'[n] = snapshots[n]
      /\ snapshots'[Len(snapshots) + 1] = x
  BY <1>1, <1>2, <1>3, AppendedSeq
<1>5. /\ proposals' \in Seq(ProposalRow(W)) /\ Len(proposals') = Len(proposals)
      /\ \A j \in 1..Len(proposals) :
           /\ proposals'[j].winner = proposals[j].winner
           /\ proposals'[j].status = IF j = i THEN "approved" ELSE proposals[j].status
  <2> DEFINE y == [proposals[i] EXCEPT !.status = "approved"]
  <2>1. y \in ProposalRow(W) /\ y.winner = proposals[i].winner /\ y.status = "approved"
    BY <1>1 DEF ProposalRow
  <2>2. proposals' = [proposals EXCEPT ![i] = y]
    BY <1>3
  <2> HIDE DEF y
  <2> QED
    BY <1>1, <2>1, <2>2
<1>6. ASSUME NEW n \in 1..Len(snapshots) PROVE snapshots[n].proposal # i
  <2>1. SnapshotOK(snapshots[n])
    BY DEF Approvals
  <2> QED
    BY <1>1, <2>1 DEF SnapshotOK
<1>7. ASSUME NEW n \in 1..Len(snapshots') PROVE SnapshotOK(snapshots[n])'
  <2>1. CASE n = Len(snapshots) + 1
    BY <1>1, <1>2, <1>4, <1>5, <2>1 DEF SnapshotOK
  <2>2. CASE n # Len(snapshots) + 1
    <3>1. n \in 1..Len(snapshots)
      BY <1>4, <2>2
    <3>2. SnapshotOK(snapshots[n]) /\ snapshots'[n] = snapshots[n]
      BY <1>4, <3>1 DEF Approvals
    <3> QED
      BY <1>5, <3>2 DEF SnapshotOK
  <2> QED
    BY <2>1, <2>2
<1>8. ASSUME NEW j \in 1..Len(proposals), proposals'[j].status = "approved"
      PROVE  \E n \in 1..Len(snapshots') : snapshots'[n].proposal = j
  <2>1. CASE j = i
    <3>1. Len(snapshots) + 1 \in 1..Len(snapshots')
      BY <1>4
    <3> QED
      BY <1>2, <1>4, <2>1, <3>1
  <2>2. CASE j # i
    <3>1. PICK n \in 1..Len(snapshots) : snapshots[n].proposal = j
      BY <1>5, <1>8, <2>2 DEF Approvals
    <3>2. n \in 1..Len(snapshots')
      BY <1>4
    <3> QED
      BY <1>4, <3>1, <3>2
  <2> QED
    BY <2>1, <2>2
<1>9. ASSUME NEW m \in 1..Len(snapshots'), NEW n \in 1..Len(snapshots'),
             snapshots'[m].proposal = snapshots'[n].proposal
      PROVE  m = n
  <2>1. \A k \in 1..Len(snapshots') : k \in 1..Len(snapshots) \/ k = Len(snapshots) + 1
    BY <1>4
  <2>2. CASE m \in 1..Len(snapshots) /\ n \in 1..Len(snapshots)
    BY <1>4, <1>9, <2>2 DEF Approvals
  <2>3. CASE m = Len(snapshots) + 1 /\ n = Len(snapshots) + 1
    BY <2>3
  <2>4. CASE m \in 1..Len(snapshots) /\ n = Len(snapshots) + 1
    BY <1>2, <1>4, <1>6, <1>9, <2>4
  <2>5. CASE m = Len(snapshots) + 1 /\ n \in 1..Len(snapshots)
    BY <1>2, <1>4, <1>6, <1>9, <2>5
  <2> QED
    BY <2>1, <2>2, <2>3, <2>4, <2>5
<1>10. \A n \in 1..Len(snapshots') : SnapshotOK(snapshots[n])'
  BY <1>7
<1> QED
  BY <1>4, <1>5, <1>8, <1>9, <1>10 DEF Approvals, SnapshotOK, ProposalRow, SnapshotRow

\* Steps that leave proposals and snapshots alone.
LEMMA OthersKeepApprovals ==
  ASSUME NEW W, Approvals(W), UNCHANGED <<proposals, snapshots>>
  PROVE  Approvals(W)'
  BY DEF Approvals, SnapshotOK, ProposalRow, SnapshotRow

\* Approved proposals and immutable snapshots are one to one, and a snapshot
\* serves its proposal's winner or nobody, however many proposals of one winner
\* race, and however approvals and edits interleave: the status of the proposal
\* is tested and set in the transaction that inserts the snapshot
\* (ApproveExperimentOptimization).
THEOREM ApprovalsAreCountedOnce == ExperimentsSpec => []ApprovalsAreSnapshots
<1> DEFINE Inv == \E W : Approvals(W)
<1>1. ExperimentsInit => Inv
  <2> SUFFICES ASSUME proposals = <<>>, snapshots = <<>> PROVE Inv
    BY DEF ExperimentsInit
  <2>1. Approvals({})
    BY DEF Approvals
  <2> QED
    BY <2>1
<1>2. Inv /\ [ExperimentsNext]_<<vars, evars>> => Inv'
  <2> SUFFICES ASSUME NEW W, Approvals(W), [ExperimentsNext]_<<vars, evars>>
               PROVE  \E V : Approvals(V)'
    OBVIOUS
  <2>1. ASSUME NEW p \in Principals, ProposeExperimentOptimization(p) PROVE \E V : Approvals(V)'
    BY <2>1, ProposeKeeps
  <2>2. ASSUME NEW p \in Principals, approveExperimentOptimization(p) PROVE \E V : Approvals(V)'
    BY <2>2, ApproveKeeps DEF approveExperimentOptimization
  <2>3. CASE UNCHANGED <<proposals, snapshots>>
    BY <2>3, OthersKeepApprovals
  <2> QED
    BY <2>1, <2>2, <2>3 DEF ExperimentsNext, ExperimentRequests, ExperimentContinues, createExperiment,
       updateExperiment, getExperimentReport, proposeExperimentOptimization, ExperimentReport, rolloutExperiment,
       RolloutExperiment, rolloutCampaign, rolloutJourney, RecordsWinner, LooksUpProposal, evars
<1>3. Inv => ApprovalsAreSnapshots
  <2> SUFFICES ASSUME NEW W, Approvals(W) PROVE ApprovalsAreSnapshots
    OBVIOUS
  <2>1. DOMAIN proposals = 1..Len(proposals) /\ DOMAIN snapshots = 1..Len(snapshots)
    BY DEF Approvals
  <2>2. ASSUME NEW i \in DOMAIN proposals
        PROVE  Cardinality({n \in DOMAIN snapshots : snapshots[n].proposal = i})
                 = IF proposals[i].status = "approved" THEN 1 ELSE 0
    <3> DEFINE S == {n \in DOMAIN snapshots : snapshots[n].proposal = i}
    <3>1. CASE proposals[i].status = "approved"
      <4>1. PICK n \in 1..Len(snapshots) : snapshots[n].proposal = i
        BY <2>1, <3>1 DEF Approvals
      <4>2. S = {n}
        BY <2>1, <4>1 DEF Approvals
      <4>3. Cardinality({n}) = 1
        BY FS_Singleton
      <4> QED
        BY <3>1, <4>2, <4>3
    <3>2. CASE proposals[i].status # "approved"
      <4>1. S = {}
        BY <2>1, <3>2 DEF Approvals, SnapshotOK
      <4>2. Cardinality({}) = 0
        BY FS_EmptySet
      <4> QED
        BY <3>2, <4>1, <4>2
    <3> QED
      BY <3>1, <3>2
  <2>3. \A n \in DOMAIN snapshots : snapshots[n].serves \subseteq {proposals[snapshots[n].proposal].winner}
    BY <2>1 DEF Approvals, SnapshotOK
  <2> QED
    BY <2>2, <2>3 DEF ApprovalsAreSnapshots
<1> QED
  BY <1>1, <1>2, <1>3, PTL DEF ExperimentsSpec
=============================================================================
