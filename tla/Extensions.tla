----------------------------- MODULE Extensions -----------------------------
(***************************************************************************)
(* One extension of a workspace and the host that invokes it.  An          *)
(* administrator installs signed versions, configures, grants scopes and   *)
(* turns the extension off; the delivery workers, the journey runtime, the *)
(* renderer, event ingestion and the connectors invoke it concurrently.    *)
(* An invocation reads the extension, its configuration and the health row *)
(* of the circuit breaker, later its scopes, its rate and its budget, then *)
(* calls the sandbox or the remote endpoint, and at the end writes back    *)
(* the health row it read at the start: the row is not locked meanwhile.   *)
(***************************************************************************)
EXTENDS Naturals, FiniteSets

CONSTANTS Callers,
          Requested,      \* requested_scopes of the signed manifest
          Ungranted,      \* a scope the manifest does not ask for
          Manifests,      \* what is signed of the versions, and over which transport
          Threshold,      \* failures that open the breaker (5 in the code)
          RatePerMin,     \* extension_configs.rate_per_min, 0 for none
          MaxVersions,    \* bound on the versions of the extension
          MaxActivity,    \* bound on the rows of the last minute
          NoRow

ASSUME BoundsAssumption ==
    /\ Threshold \in Nat \ {0} /\ RatePerMin \in Nat /\ MaxVersions \in Nat
    /\ MaxActivity \in Nat
ASSUME CallersAssumption == IsFiniteSet(Callers)
ASSUME ScopeAssumption == Ungranted \notin Requested
ASSUME ManifestAssumption == Manifests \subseteq [signed: BOOLEAN, remote: BOOLEAN]

\* A row of extensions; current is 0 until a version is published.
Extension == [status: {"installed", "enabled", "disabled"}, current: Nat]
ASSUME RowAssumption == NoRow \notin Extension

VARIABLES ext,        \* the row of extensions
          versions,   \* version number -> row of extension_versions
          config,     \* extension_configs.status, or NoRow
          grants,     \* scopes of extension_grants
          health,     \* the row of extension_health
          recent,     \* extension_activity rows younger than a minute
          streak,     \* recorded failures of calls let through a closed breaker since a success
          call,       \* the invocation of each caller
          publishing, \* the transactions that publish: the version each has locked ->
                      \* what it archives
          overlapped  \* history: a publication committed while another was open

vars == <<ext, versions, config, grants, health, recent, streak, call, publishing, overlapped>>

Scopes == Requested \cup {Ungranted}
Numbers == 1..MaxVersions
Version == [status: {"draft", "active", "archived"}, signed: BOOLEAN, remote: BOOLEAN]
Health == [state: {"closed", "half_open", "open"}, failures: 0..Threshold, opened: {"no", "recent", "old"}]
Healthy == [state |-> "closed", failures |-> 0, opened |-> "no"]
Idle == [at |-> "idle", scope |-> Ungranted, health |-> Healthy]

-----------------------------------------------------------------------------
(* Administration                                                          *)

Invocations == <<health, recent, streak, call>>
Publications == <<publishing, overlapped>>
Administers == UNCHANGED <<Invocations, Publications>>

CreateExtension ==
    /\ ext = NoRow
    /\ ext' = [status |-> "installed", current |-> 0]
    /\ UNCHANGED <<versions, config, grants>> /\ Administers

\* Whether the JWS verifies under a trusted key, and over this manifest, is
\* known only when the version is published.
CreateExtensionVersion ==
    /\ ext # NoRow
    /\ \E n \in Numbers, m \in Manifests :
          /\ n = Cardinality(DOMAIN versions) + 1
          /\ versions' = [i \in DOMAIN versions \cup {n} |->
                             IF i = n THEN [status |-> "draft", signed |-> m.signed, remote |-> m.remote] ELSE versions[i]]
    /\ UNCHANGED <<ext, config, grants>> /\ Administers

Active == {i \in DOMAIN versions : versions[i].status = "active"}

\* A remote endpoint needs its secret configured before.
Verifies(n) == versions[n].signed /\ (versions[n].remote => config # NoRow)

\* The rows another transaction has locked: the version it publishes, and once
\* its UPDATE ran, the versions that archives.
LockedBy(m) == {m} \cup IF publishing[m].ran THEN publishing[m].rows ELSE {}
Locked(n) == UNION {LockedBy(m) : m \in DOMAIN publishing \ {n}}

Publication(p) == publishing' = p /\ UNCHANGED <<config, grants, Invocations>>

\* PublishExtensionVersion, by a user, is one transaction under READ COMMITTED
\* that locks the row of its own version and no other.  What is active is
\* returned as it is; the UPDATE that archives is to work on the versions that
\* are active when it starts.
PublishBegins(n) ==
    /\ n \notin DOMAIN publishing \cup Locked(n)
    /\ versions[n].status # "active" /\ Verifies(n)
    /\ Publication([i \in DOMAIN publishing \cup {n} |->
                       IF i = n THEN [ran |-> FALSE, rows |-> Active] ELSE publishing[i]])
    /\ UNCHANGED <<ext, versions, overlapped>>

\* Mutant: the UPDATE meets no row.
ArchivedNone(n) == {}

\* UPDATE ... SET status = 'archived': of the versions in view, those that are
\* still active when it comes to lock them.
Archived(n) == publishing[n].rows \cap Active

PublishArchives(n) ==
    /\ n \in DOMAIN publishing /\ ~publishing[n].ran
    /\ publishing[n].rows \cap Locked(n) = {}
    /\ Publication([publishing EXCEPT ![n] = [ran |-> TRUE, rows |-> Archived(n)]])
    /\ UNCHANGED <<ext, versions, overlapped>>

Without(n) == [i \in DOMAIN publishing \ {n} |-> publishing[i]]

PublishCommits(n) ==
    /\ n \in DOMAIN publishing /\ publishing[n].ran
    /\ versions' = [i \in DOMAIN versions |->
                       [versions[i] EXCEPT !.status = IF i = n THEN "active"
                                                      ELSE IF i \in publishing[n].rows THEN "archived" ELSE @]]
    /\ ext' = [status |-> "enabled", current |-> n]
    /\ overlapped' = (overlapped \/ DOMAIN publishing # {n})
    /\ Publication(Without(n))

\* The connection is lost, a statement fails, or the transaction is the victim
\* of a deadlock.
PublishFails(n) ==
    /\ n \in DOMAIN publishing
    /\ Publication(Without(n))
    /\ UNCHANGED <<ext, versions, overlapped>>

PublishExtensionVersion ==
    \E n \in DOMAIN versions : PublishBegins(n) \/ PublishArchives(n) \/ PublishCommits(n) \/ PublishFails(n)

\* Enabling joins the current version, so there must be one, and a remote one
\* must be configured.
UpdateExtension ==
    /\ ext # NoRow
    /\ \E s \in {"installed", "enabled", "disabled"} \ {ext.status} :
          /\ s = "enabled" => ext.current # 0 /\ (versions[ext.current].remote => config # NoRow)
          /\ ext' = [ext EXCEPT !.status = s]
    /\ UNCHANGED <<versions, config, grants>> /\ Administers

UpsertExtensionConfig ==
    /\ ext # NoRow
    /\ \E s \in {"active", "disabled"} \ {config} : config' = s
    /\ UNCHANGED <<ext, versions, grants>> /\ Administers

\* One grant at a time, which bounds the sets of them.
CreateExtensionGrant ==
    /\ ext # NoRow /\ grants = {}
    /\ \E s \in Scopes : grants' = {s}
    /\ UNCHANGED <<ext, versions, config>> /\ Administers

DeleteExtensionGrant ==
    /\ grants # {}
    /\ grants' = {}
    /\ UNCHANGED <<ext, versions, config>> /\ Administers

-----------------------------------------------------------------------------
(* Invocation                                                              *)

Moves(c, r) == call' = [call EXCEPT ![c] = r]
Ends(c) == Moves(c, Idle)

\* Every end of a call writes a row of the last minute, or the store fails to:
\* best effort for a refusal and a failure, while the output of a successful
\* call whose row is lost is not handed out.
RecordExtensionActivity ==
    \/ recent < MaxActivity /\ recent' = recent + 1
    \/ UNCHANGED recent

Refuses(c) ==
    /\ Ends(c)
    /\ RecordExtensionActivity
    /\ UNCHANGED <<ext, versions, config, grants, streak, Publications>>

GetExtensionHealth == health

\* An error of the write, as when the caller's context is over by then, is only
\* logged: the row stays what it was.
UpdateExtensionHealth(h) == health' = h
LosesHealth == UNCHANGED health

\* An installed extension is invoked too: only disabled is refused.
Resolves == ext # NoRow /\ ext.status # "disabled" /\ ext.current # 0 /\ config = "active"

\* After 30 seconds an open breaker lets calls through as half open.
invoke(c) ==
    /\ call[c].at = "called"
    /\ LET h == GetExtensionHealth
           trial == [h EXCEPT !.state = "half_open"]
       IN \/ ~Resolves /\ Refuses(c) /\ UNCHANGED health
          \/ Resolves /\ h.state = "open" /\ h.opened = "recent" /\ Refuses(c) /\ UNCHANGED health
          \/ /\ Resolves /\ h.state = "open" /\ h.opened = "old"
             /\ UpdateExtensionHealth(trial) \/ LosesHealth
             /\ Moves(c, [call[c] EXCEPT !.at = "resolved", !.health = trial])
             /\ UNCHANGED <<ext, versions, config, grants, streak, recent, Publications>>
          \/ /\ Resolves /\ h.state # "open"
             /\ Moves(c, [call[c] EXCEPT !.at = "resolved", !.health = h])
             /\ UNCHANGED <<ext, versions, config, grants, health, streak, recent, Publications>>

\* What the manifest asks for and the tenant has granted.
ResolveScopes == Requested \cap grants

GetExtensionInvocationCountLastMin == recent
WithinRate == RatePerMin = 0 \/ GetExtensionInvocationCountLastMin < RatePerMin

\* The scope first, then the rate; costs are recorded as 0, so the budget
\* check passes.
Admit(c) ==
    /\ call[c].at = "resolved"
    /\ \/ /\ call[c].scope \in ResolveScopes /\ WithinRate
          /\ Moves(c, [call[c] EXCEPT !.at = "calling"])
          /\ UNCHANGED <<ext, versions, config, grants, health, streak, recent, Publications>>
       \/ /\ ~(call[c].scope \in ResolveScopes /\ WithinRate)
          /\ Refuses(c) /\ UNCHANGED health

\* Mutant: a failure that does not open the breaker is not written back.
FailedUncounted(h) == IF h.failures + 1 >= Threshold THEN [state |-> "open", failures |-> Threshold, opened |-> "recent"] ELSE h

\* The health row after a failed call, computed from the row it read.  Counts
\* above the threshold are alike to the host, and are kept as the threshold.
Failed(h) ==
    LET f == h.failures + 1
    IN IF f >= Threshold THEN [state |-> "open", failures |-> Threshold, opened |-> "recent"]
       ELSE [h EXCEPT !.failures = f]

\* invokeRemoteHTTP or invokeWasm ends in an error or a timeout.
InvocationFails(c) ==
    /\ call[c].at = "calling"
    /\ \/ /\ UpdateExtensionHealth(Failed(call[c].health))
          /\ streak' = IF call[c].health.state = "closed" THEN streak + 1 ELSE streak
       \/ LosesHealth /\ UNCHANGED streak
    /\ Ends(c)
    /\ RecordExtensionActivity
    /\ UNCHANGED <<ext, versions, config, grants, Publications>>

InvocationSucceeds(c) ==
    /\ call[c].at = "calling"
    /\ UpdateExtensionHealth(Healthy) \/ LosesHealth
    /\ streak' = 0
    /\ Ends(c)
    /\ RecordExtensionActivity
    /\ UNCHANGED <<ext, versions, config, grants, Publications>>

\* The breaker's 30 seconds and the minute of the rate pass.
Cool ==
    /\ health.opened = "recent"
    /\ health' = [health EXCEPT !.opened = "old"]
    /\ UNCHANGED <<ext, versions, config, grants, recent, streak, call, Publications>>

Forget ==
    /\ recent > 0
    /\ recent' = recent - 1
    /\ UNCHANGED <<ext, versions, config, grants, health, streak, call, Publications>>

-----------------------------------------------------------------------------
(* The callers, each with the scope it needs; scopes the manifest does not *)
(* ask for are alike.  What they do of an error (a retry, the fallback     *)
(* branch or text, the event as it was) is not the host's.                 *)

\* A principal that carries scopes delegates only those it holds: to the
\* manifest, one that it does not hold is one never asked for.
Delegated(scope, held) == IF held /\ scope \in Requested THEN scope ELSE Ungranted

InvokeWithScope(c, scope, held) ==
    /\ call[c].at = "idle"
    /\ Moves(c, [Idle EXCEPT !.at = "called", !.scope = Delegated(scope, held)])
    /\ UNCHANGED <<ext, versions, config, grants, health, recent, streak, Publications>>

\* The workers' principals carry no scopes, or all.
Send(c) == InvokeWithScope(c, "messages:write", TRUE)
executeExtensionNode(c) == InvokeWithScope(c, "journeys:write", TRUE)
Read(c) == InvokeWithScope(c, "connectors:read", TRUE)
Write(c) == InvokeWithScope(c, "connectors:write", TRUE)
connectorRun(c) == InvokeWithScope(c, "events:write", TRUE)

\* A template is rendered for a worker or for a user's preview, an event comes
\* with the principal of the request.
RegisterTemplateFunction(c) == \E held \in BOOLEAN : InvokeWithScope(c, "templates:read", held)
applyIngestionTransforms(c) == \E held \in BOOLEAN : InvokeWithScope(c, "events:write", held)

-----------------------------------------------------------------------------

Init ==
    /\ ext = NoRow /\ versions = <<>> /\ config = NoRow /\ grants = {}
    /\ health = Healthy
    /\ recent = 0 /\ streak = 0
    /\ call = [c \in Callers |-> Idle]
    /\ publishing = <<>> /\ overlapped = FALSE

Administer ==
    \/ CreateExtension \/ CreateExtensionVersion \/ PublishExtensionVersion \/ UpdateExtension
    \/ UpsertExtensionConfig \/ CreateExtensionGrant \/ DeleteExtensionGrant

Invoke(c) ==
    \/ Send(c) \/ executeExtensionNode(c) \/ RegisterTemplateFunction(c) \/ applyIngestionTransforms(c)
    \/ Read(c) \/ Write(c) \/ connectorRun(c)
    \/ invoke(c) \/ Admit(c) \/ InvocationFails(c) \/ InvocationSucceeds(c)

Next == Administer \/ Cool \/ Forget \/ \E c \in Callers : Invoke(c)

Spec == Init /\ [][Next]_vars

-----------------------------------------------------------------------------
(* Properties                                                              *)

\* The version the host runs is active and its signature was verified; an
\* enabled extension has one.  Publications that overlap leave a second active
\* version behind, as each archives what it found when it started, and nothing
\* else does (PublishExtensionVersion).
CurrentIsVerified ==
    /\ \A n \in DOMAIN versions : versions[n].status # "draft" => versions[n].signed
    /\ ext # NoRow /\ ext.status = "enabled" => ext.current # 0
    /\ ext # NoRow /\ ext.current # 0 => ext.current \in Active
    /\ ~overlapped => \A n \in Active : ext # NoRow /\ ext.current = n

\* Before the row says k failures, k calls of every caller may have read fewer:
\* each write of a smaller count lets every caller through once more.
Wasted[k \in 0..Threshold] == IF k = 0 THEN 0 ELSE Cardinality(Callers) * (1 + Wasted[k - 1])

\* The health row is written back from a copy and updates are lost, so that a
\* breaker which has opened is closed again by a slow failure; even so only so
\* many failing calls whose write the store took pass a closed breaker before a
\* success.
BreakerTrips == streak <= Wasted[Threshold]
=============================================================================
