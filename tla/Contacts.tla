------------------------------ MODULE Contacts ------------------------------
(***************************************************************************)
(* Who can be reached and where: the profiles and their identities, the    *)
(* consent ledger, the suppressed endpoints, the devices and the inbox.    *)
(*                                                                         *)
(* Profiles, aliases, merges and consents change only in the transaction   *)
(* of ProjectEvent, here one step per event: its place in the queue and    *)
(* its retries are the subject of EventProjection.  A transaction that     *)
(* violates a unique index aborts, and the event becomes a dead letter:    *)
(* there is then no step.  Events come from the API, from the public forms *)
(* and from the webhooks of the providers, which AcceptEvents refuses when *)
(* the application they name is not one.                                   *)
(***************************************************************************)
EXTENDS Naturals, FiniteSets

CONSTANTS Profile,        \* ids the profiles may get
          Ext, Anon,      \* external and anonymous ids
          Value,          \* emails and phones used as aliases
          Payloads,       \* the sets of identities a payload may carry
          Lag,            \* how far back a client may date a consent
          Endpoint,       \* addresses of the channel under study
          Token,          \* device tokens
          Message,        \* in-app messages
          Client,         \* clients that synchronise their device tokens
          Application,    \* ids of applications, all of them UUIDs
          FirstApp,       \* the first application of the workspace
          Priority,       \* identity_namespaces.priority
          FormLead,       \* how far ahead of the submission a form dates it
          MaxSteps,       \* bound on the events, commands and callbacks
          Null

ASSUME ApplicationAssumption ==
    FirstApp \in Application /\ Application \cap {"system", "default", ""} = {}
Reasons == {"bounce", "complaint", "unsubscribe", "admin"}

ASSUME NullAssumption == Null \notin UNION {Profile, Ext, Anon, Endpoint, Reasons}
ASSUME ProfilesAssumption == IsFiniteSet(Profile)
ASSUME ContactBounds == FormLead \in Nat /\ MaxSteps \in Nat /\ Lag \subseteq Nat

VARIABLES db,         \* the tables ProjectEvent writes, and the snapshots
          stopped,    \* endpoints that sent STOP and have not opted in since
          audits,     \* audit_events of the suppressions administrators change
          token,      \* device_tokens
          sync,       \* the calls of syncDeviceTokens
          inbox,      \* inapp_messages
          steps

contactsVars == <<db, stopped, audits, token, sync, inbox, steps>>

Namespace == {"email", "phone", "user_id"}
Alphabetical == <<"email", "phone", "user_id">>
Key == {k \in Namespace \X (Value \cup Ext) : k[1] = "user_id" <=> k[2] \in Ext}
Subject == [ext: Ext \cup {Null}, anon: Anon \cup {Null}, identities: Payloads]
NoProfile == [exists |-> FALSE, ext |-> Null, anon |-> Null, endpoint |-> Null, merged |-> Null]
NotSyncing == [at |-> "idle"]

Live(d, p) == d.profile[p].exists /\ d.profile[p].merged = Null
WithExt(d, x) == {p \in Profile : x # Null /\ d.profile[p].ext = x}
WithAnon(d, a) == {p \in Profile : a # Null /\ d.profile[p].anon = a}

-----------------------------------------------------------------------------
(* Merging                                                                 *)

\* The aliases and the consents of s become those of t.
Repointed(d, s, t) ==
    [d EXCEPT !.alias = [k \in Key |-> IF @[k] = s THEN t ELSE @[k]],
              !.consent = {[c EXCEPT !.profile = IF @ = s THEN t ELSE @] : c \in @}]

\* source.attributes || target.attributes: those of the target win.
Kept(d, s, t) == IF d.profile[t].endpoint = Null THEN d.profile[s].endpoint ELSE d.profile[t].endpoint

\* What the blob of a merge holds.
Snapshot(d, s) ==
    [source |-> s, row |-> d.profile[s], aliases |-> {k \in Key : d.alias[k] = s},
     consents |-> {c.event : c \in {e \in d.consent : e.profile = s}}]

\* Mutant: the name of the blob has no profile in it.
ReversalRefOfEvent(n, s) == <<n>>

ReversalRef(n, s) == <<n, s>>

\* Event n merges s into t, both locked.
mergeProfiles(d, n, s, t) ==
    [Repointed(d, s, t) EXCEPT
        !.blob = [r \in DOMAIN @ \cup {ReversalRef(n, s)} |-> IF r = ReversalRef(n, s) THEN Snapshot(d, s) ELSE @[r]],
        !.profile[t].endpoint = Kept(d, s, t),
        !.profile[s] = [@ EXCEPT !.merged = t, !.ext = Null, !.anon = Null],
        !.merge = @ \cup {[event |-> n, source |-> s, target |-> t, ref |-> ReversalRef(n, s), open |-> TRUE]}]

\* The merge with a profile known by an anonymous id only has no record, and
\* leaves that id on the tombstone.
mergeAnonymous(d, s, t) ==
    [Repointed(d, s, t) EXCEPT !.profile[t].endpoint = Kept(d, s, t),
                               !.profile[s] = [@ EXCEPT !.merged = t, !.ext = Null]]

-----------------------------------------------------------------------------
(* Which profile an event is about                                         *)

\* The external id stands for a user_id of the payload.
identityKeys(e) ==
    {k \in e.identities : k[1] # "user_id" \/ e.ext = Null}
        \cup (IF e.ext = Null THEN {} ELSE {<<"user_id", e.ext>>})

\* A profile counts with the priority of its first namespace in the alphabet.
Rank(d, e, p) ==
    Priority[Alphabetical[CHOOSE i \in 1..3 :
        /\ \E k \in identityKeys(e) : k[1] = Alphabetical[i] /\ d.alias[k] = p
        /\ \A j \in 1..(i - 1), k \in identityKeys(e) : k[1] = Alphabetical[j] => d.alias[k] # p]]

\* The candidates by priority.  Among equals their ids decide, which are random.
Orders(d, e, candidates) ==
    LET places == 1..Cardinality(candidates)
    IN  {q \in [places -> candidates] :
            \A i, j \in places : i < j => q[i] # q[j] /\ Rank(d, e, q[i]) <= Rank(d, e, q[j])}

\* The first takes over the others, one after the other.
mergeInOrder(d, n, q, k) ==
    LET merged[i \in 1..k] == IF i = 1 THEN d ELSE mergeProfiles(merged[i - 1], n, q[i], q[1])
    IN  merged[k]

Candidates(d, e) == {p \in Profile : Live(d, p) /\ \E k \in identityKeys(e) : d.alias[k] = p}

resolveIdentity(d, n, e) ==
    {[db |-> mergeInOrder(d, n, q, Cardinality(Candidates(d, e))), profile |-> q[1]] :
        q \in IF Candidates(d, e) = {} THEN {} ELSE Orders(d, e, Candidates(d, e))}

\* A new row; an anonymous id that a tombstone holds violates the index.
Inserted(d, x, a) ==
    {[db |-> [d EXCEPT !.profile[p] = [NoProfile EXCEPT !.exists = TRUE, !.ext = x, !.anon = a]], profile |-> p] :
        p \in {q \in Profile : ~d.profile[q].exists /\ WithAnon(d, a) = {}}}

Same(d, p) == {[db |-> d, profile |-> p]}

\* Mutant: tombstones are looked up too.
AnonymousProfileAny(d, a) == WithAnon(d, a)

AnonymousProfile(d, a) == {p \in WithAnon(d, a) : Live(d, p)}

\* The profile a with the anonymous id of an event that names x as well.  The
\* first UPDATE of the merge copies the anonymous id while the other row still
\* has it, so it fails unless the target has one of its own.
Linked(d, x, a) ==
    IF WithExt(d, x) = {} THEN Same([d EXCEPT !.profile[a].ext = x], a)
    ELSE UNION {IF a = b THEN Same(d, b)
                ELSE IF d.profile[b].anon = Null THEN {}
                ELSE Same(mergeAnonymous(d, a, b), b) : b \in WithExt(d, x)}

ensureProfile(d, e) ==
    IF e.ext = Null
    THEN IF WithAnon(d, e.anon) = {} THEN Inserted(d, Null, e.anon)
         ELSE UNION {Same(d, p) : p \in WithAnon(d, e.anon)}
    ELSE IF AnonymousProfile(d, e.anon) # {}
    THEN UNION {Linked(d, e.ext, a) : a \in AnonymousProfile(d, e.anon)}
    ELSE IF WithExt(d, e.ext) # {} THEN UNION {Same(d, p) : p \in WithExt(d, e.ext)}
    ELSE Inserted(d, e.ext, e.anon)

\* The ways to resolve the subject; none when the transaction aborts.
Resolved(d, n, e) ==
    LET known == resolveIdentity(d, n, e) IN IF known # {} THEN known ELSE ensureProfile(d, e)

-----------------------------------------------------------------------------
(* What an event does to the profile                                       *)

Suppressed(d, n, reason) ==
    IF n = Null \/ d.suppression[n] # Null THEN d ELSE [d EXCEPT !.suppression[n] = reason]

\* Mutant: a new consent removes every suppression.
ReopenedAll(d, n) == IF n = Null THEN d ELSE [d EXCEPT !.suppression[n] = Null]

\* DELETE FROM suppressions WHERE ... reason = 'unsubscribe'
Reopened(d, n) ==
    IF n = Null \/ d.suppression[n] # "unsubscribe" THEN d ELSE [d EXCEPT !.suppression[n] = Null]

updateProfile(d, p, n) == [d EXCEPT !.profile[p].endpoint = n]

\* The endpoint is the one the profile has by now.
changeConsent(d, n, p, state, at) ==
    LET written == [d EXCEPT !.consent = @ \cup {[event |-> n, profile |-> p, state |-> state, at |-> at]}]
    IN  IF state = "unsubscribed" THEN Suppressed(written, d.profile[p].endpoint, "unsubscribe")
        ELSE Reopened(written, d.profile[p].endpoint)

addAliases(d, p, keys) == [d EXCEPT !.alias = [k \in Key |-> IF k \in keys THEN p ELSE @[k]]]

mergeInto(d, n, p, x) ==
    LET sources == WithExt(d, x) \ {p} IN
    IF sources = {} THEN d ELSE mergeProfiles(d, n, CHOOSE s \in sources : TRUE, p)

\* The restored ids must be free again.
unmergeProfile(d, m) ==
    LET snap == d.blob[m.ref]
        row == snap.row
        fits == d.profile[m.source].merged = m.target
    IN  IF snap.source # m.source \/ (fits /\ WithExt(d, row.ext) \cup WithAnon(d, row.anon) # {}) THEN {}
        ELSE {[d EXCEPT !.profile[m.source] = IF fits THEN [row EXCEPT !.merged = Null] ELSE @,
                        !.alias = [k \in Key |-> IF k \in snap.aliases /\ @[k] = m.target THEN m.source ELSE @[k]],
                        !.consent = {[c EXCEPT !.profile = IF c.event \in snap.consents THEN m.source ELSE @] : c \in @},
                        !.merge = (@ \ {m}) \cup {[m EXCEPT !.open = FALSE]}]}

-----------------------------------------------------------------------------
(* Events of the API                                                       *)

Steps == steps' = steps + 1
Now == steps + 1
Consents == Steps /\ UNCHANGED <<audits, token, sync, inbox>>
Projects == Consents /\ UNCHANGED stopped
Named(e) == e.ext # Null \/ e.anon # Null

ProfileUpdated(e) ==
    /\ \E r \in Resolved(db, Now, e), n \in Endpoint : db' = updateProfile(r.db, r.profile, n)
    /\ Projects

\* The clock is that of the client.
ConsentChanged(e) ==
    /\ \E r \in Resolved(db, Now, e), state \in {"subscribed", "unsubscribed"}, lag \in Lag :
          /\ db' = changeConsent(r.db, Now, r.profile, state, Now - lag)
          /\ stopped' = IF state = "subscribed" THEN stopped \ {r.db.profile[r.profile].endpoint} ELSE stopped
    /\ Consents

\* As identities of the payload, which also resolve the subject, or as one
\* namespace and value, which do not.
identifyIdentity(e) ==
    /\ \/ /\ e.identities # {}
          /\ \E r \in Resolved(db, Now, e) : db' = addAliases(r.db, r.profile, e.identities)
       \/ /\ e.identities = {}
          /\ \E r \in Resolved(db, Now, e), k \in Key : db' = addAliases(r.db, r.profile, {k})
    /\ Projects

mergeIdentity(e) ==
    /\ e.ext # Null
    /\ \E r \in Resolved(db, Now, e), x \in Ext : db' = mergeInto(r.db, Now, r.profile, x)
    /\ Projects

\* A merge that is already undone is left alone.
unmergeIdentity ==
    /\ \E m \in {o \in db.merge : o.open} : db' \in unmergeProfile(db, m)
    /\ Projects

\* The answers of a public form: the profile, then the consent it gives, both
\* dated one second before the token of the page expires.
submitPublicForm(x, n) ==
    /\ \E r \in Resolved(db, Now, [ext |-> x, anon |-> Null, identities |-> {}]) :
          db' = changeConsent(updateProfile(r.db, r.profile, n), Now, r.profile, "subscribed", Now + FormLead)
    /\ stopped' = stopped \ {n}
    /\ Consents

-----------------------------------------------------------------------------
(* Administrators and the webhooks of the providers                        *)

SuppressEndpoint(n, reason) ==
    /\ Steps
    /\ db' = [db EXCEPT !.suppression[n] = reason]
    /\ audits' = audits + 1
    /\ UNCHANGED <<stopped, token, sync, inbox>>

RemoveSuppression(n) ==
    /\ Steps
    /\ db.suppression[n] # Null
    /\ db' = [db EXCEPT !.suppression[n] = Null]
    /\ audits' = audits + 1
    /\ UNCHANGED <<stopped, token, sync, inbox>>

\* app_id is a UUID that references applications.
Accepts(app) == app \in Application

\* The application is in a header of the message, "default" otherwise.  SNS is
\* answered 200 also when AcceptEvents refuses: a message it refuses, or has
\* accepted before, changes nothing.  A bounce does not look up a profile.
handleSESCallback(n, reason) ==
    /\ Steps
    /\ \E app \in Application \cup {"default"} : Accepts(app)
    /\ db' = Suppressed(db, n, reason)
    /\ UNCHANGED <<stopped, audits, token, sync, inbox>>

\* STOP or START sent by n.  The event is given to the application "system";
\* what AcceptEvents refuses is answered 500.  GetProfileByPhone finds any
\* profile with the number.
handleSMSCallback(n, state) ==
    /\ Steps
    /\ stopped' = IF state = "unsubscribed" THEN stopped \cup {n} ELSE stopped \ {n}
    /\ IF Accepts("system")
       THEN \E p \in {q \in Profile : db.profile[q].endpoint = n} : db' = changeConsent(db, Now, p, state, Now)
       ELSE UNCHANGED db
    /\ UNCHANGED <<audits, token, sync, inbox>>

-----------------------------------------------------------------------------
(* Device tokens                                                           *)

Retired(r) == IF r.status = "active" THEN [r EXCEPT !.status = "retired"] ELSE r
Devices == Steps /\ UNCHANGED <<db, stopped, audits, inbox>>
KnownProfile(p) == db.profile[p].exists

RegisterDeviceToken(t, app, p) ==
    /\ KnownProfile(p) /\ Devices
    /\ token' = [token EXCEPT ![<<t, app>>] = [status |-> "active", profile |-> p]]
    /\ UNCHANGED sync

deactivateDeviceToken(t, app) ==
    /\ token[<<t, app>>].status = "active" /\ Devices
    /\ token' = [token EXCEPT ![<<t, app>>] = Retired(@)]
    /\ UNCHANGED sync

\* invalid_token: the token is retired in the first application of the
\* workspace.  The event goes to "system", and its refusal is ignored.
handlePushCallback(t) ==
    /\ token[<<t, FirstApp>>].status = "active" /\ Devices
    /\ token' = [token EXCEPT ![<<t, FirstApp>>] = Retired(@)]
    /\ UNCHANGED sync

ListActiveDeviceTokens(p) ==
    {t \in Token : \E app \in Application : token[<<t, app>>] = [status |-> "active", profile |-> p]}

\* The tokens are listed first and the call then works from that list.
SyncList(c) ==
    /\ sync[c] = NotSyncing /\ Devices
    /\ \E p \in Profile, app \in Application, want \in SUBSET Token :
          /\ KnownProfile(p) /\ want \cup ListActiveDeviceTokens(p) # {}
          /\ sync' = [sync EXCEPT ![c] = [at |-> "listed", profile |-> p, app |-> app, want |-> want,
                                          extra |-> ListActiveDeviceTokens(p) \ want]]
    /\ UNCHANGED token

Finished(s) == IF s.want = {} /\ s.extra = {} THEN NotSyncing ELSE s

SyncRegister(c) ==
    /\ sync[c].at = "listed"
    /\ \E t \in sync[c].want :
          /\ token' = [token EXCEPT ![<<t, sync[c].app>>] = [status |-> "active", profile |-> sync[c].profile]]
          /\ sync' = [sync EXCEPT ![c] = Finished([@ EXCEPT !.want = @ \ {t}])]
    /\ UNCHANGED <<db, stopped, audits, inbox, steps>>

\* Whoever owns the token by now.
SyncRetire(c) ==
    /\ sync[c].at = "listed" /\ sync[c].want = {}
    /\ \E t \in sync[c].extra :
          /\ token' = [token EXCEPT ![<<t, sync[c].app>>] = Retired(@)]
          /\ sync' = [sync EXCEPT ![c] = Finished([@ EXCEPT !.extra = @ \ {t}])]
    /\ UNCHANGED <<db, stopped, audits, inbox, steps>>

-----------------------------------------------------------------------------
(* The inbox                                                               *)

NoMessage == [status |-> "none", profile |-> Null, displayed |-> FALSE, clicked |-> FALSE, dismissed |-> FALSE]
Inboxes == Steps /\ UNCHANGED <<db, stopped, audits, token, sync>>

\* A message already created with this key is returned as it is.
CreateInAppMessage(m, p) ==
    /\ KnownProfile(p) /\ inbox[m].status = "none" /\ Inboxes
    /\ inbox' = [inbox EXCEPT ![m] = [NoMessage EXCEPT !.status = "delivered", !.profile = p]]

createAdminMessage(m, p) == CreateInAppMessage(m, p)

Displayable(r) == ~r.dismissed /\ ~r.displayed /\ ~r.clicked

\* The UPDATEs of message.impression, .clicked, .dismissed and .expire.
Engaged(r, kind) ==
    CASE kind = "impression" /\ Displayable(r) -> [r EXCEPT !.displayed = TRUE, !.status = "displayed"]
      [] kind = "clicked" /\ ~r.clicked        -> [r EXCEPT !.clicked = TRUE, !.status = "clicked"]
      [] kind = "dismissed" /\ ~r.dismissed    -> [r EXCEPT !.dismissed = TRUE, !.status = "dismissed"]
      [] kind = "expire"                       -> [r EXCEPT !.status = "expired"]
      [] OTHER                                 -> r

\* Events of the API about a message; their subject is a known profile.
EngagementProjected(m, kind) ==
    /\ inbox[m].status # "none" /\ Engaged(inbox[m], kind) # inbox[m] /\ Inboxes
    /\ inbox' = [inbox EXCEPT ![m] = Engaged(@, kind)]

\* What fetchInbox shows p.
ListInboxForProfile(p) ==
    {m \in Message : inbox[m].status # "none" /\ inbox[m].profile = p /\ ~inbox[m].dismissed}

\* The public endpoint gives AcceptEvents a principal without workspace or
\* application of the database: what it is shown cannot be reported.
reportMessageEngagement(m, kind) ==
    /\ \E p \in Profile : m \in ListInboxForProfile(p)
    /\ Inboxes
    /\ inbox' = IF Accepts("") THEN [inbox EXCEPT ![m] = Engaged(@, kind)] ELSE inbox

-----------------------------------------------------------------------------
ContactsInit ==
    /\ db = [profile |-> [p \in Profile |-> NoProfile], alias |-> [k \in Key |-> Null], consent |-> {},
             suppression |-> [n \in Endpoint |-> Null], merge |-> {}, blob |-> <<>>]
    /\ stopped = {} /\ audits = 0 /\ steps = 0
    /\ token = [r \in Token \X Application |-> [status |-> "none", profile |-> Null]]
    /\ sync = [c \in Client |-> NotSyncing]
    /\ inbox = [m \in Message |-> NoMessage]

Event(e) == ProfileUpdated(e) \/ ConsentChanged(e) \/ identifyIdentity(e) \/ mergeIdentity(e)

Reach ==
    \E n \in Endpoint :
        \/ \E x \in Ext : submitPublicForm(x, n)
        \/ \E reason \in Reasons : SuppressEndpoint(n, reason)
        \/ RemoveSuppression(n)
        \/ \E reason \in {"bounce", "complaint"} : handleSESCallback(n, reason)
        \/ \E state \in {"subscribed", "unsubscribed"} : handleSMSCallback(n, state)

Device ==
    \/ \E t \in Token, app \in Application : deactivateDeviceToken(t, app)
    \/ \E t \in Token, app \in Application, p \in Profile : RegisterDeviceToken(t, app, p)
    \/ \E t \in Token : handlePushCallback(t)
    \/ \E c \in Client : SyncList(c)

InApp ==
    \E m \in Message :
        \/ \E p \in Profile : createAdminMessage(m, p)
        \/ \E kind \in {"impression", "clicked", "dismissed", "expire"} : EngagementProjected(m, kind)
        \/ \E kind \in {"impression", "clicked", "dismissed"} : reportMessageEngagement(m, kind)

Synchronise == \E c \in Client : SyncRegister(c) \/ SyncRetire(c)

ContactsNext ==
    \/ /\ steps < MaxSteps
       /\ \/ \E e \in Subject : Named(e) /\ Event(e)
          \/ unmergeIdentity
          \/ Reach
          \/ Device
          \/ InApp
    \/ Synchronise

ContactsSpec == ContactsInit /\ [][ContactsNext]_contactsVars

-----------------------------------------------------------------------------
(* What the policy gate lets through                                       *)

LatestConsent(p) ==
    {c \in db.consent : c.profile = p /\ \A o \in db.consent : o.profile = p => o.at <= c.at}

Reachable(p, n) ==
    /\ Live(db, p) /\ db.profile[p].endpoint = n
    /\ db.suppression[n] = Null
    /\ \E c \in LatestConsent(p) : c.state = "subscribed"

-----------------------------------------------------------------------------
\* A merge that was recorded and not undone still has what its reversal reads:
\* its source is the tombstone of its target, it is the only open merge of that
\* source, and the snapshot it names is that of its source.  One event may
\* merge several profiles, and every merge moves what earlier ones moved
\* (mergeProfiles, unmergeProfile).  The reversal may still abort, when the ids
\* it restores were given to another profile meanwhile.
OpenMergesAreReversible ==
    \A m \in db.merge : m.open =>
        /\ db.profile[m.source].merged = m.target
        /\ db.blob[m.ref].source = m.source
        /\ \A o \in db.merge : o.open /\ o.source = m.source => o = m

\* Who is found by an external id is never a tombstone, whatever was merged,
\* linked and unmerged: merges into it would lose the profile (ensureProfile,
\* identity.merge).
ExternalIdsNameLiveProfiles ==
    \A p \in Profile : db.profile[p].ext # Null => Live(db, p)

\* An endpoint suppressed for a bounce, a complaint or by an administrator is
\* opened by an administrator only, which leaves an audit event: no consent,
\* form or keyword of the contact does (consent.changed in ProjectEvent).
OnlyAdministratorsReopen ==
    [][\A n \in Endpoint :
          db.suppression[n] \in {"bounce", "complaint", "admin"} /\ db'.suppression[n] = Null
              => audits' = audits + 1]_contactsVars

\* docs/milestones/v1-milestone-5-plan.md, 7.3: "A STOP must create a
\* suppression before the next send; the policy gate then blocks it."
StopBlocksTheNextSend ==
    \A n \in stopped, p \in Profile : ~Reachable(p, n)
=============================================================================
