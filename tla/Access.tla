------------------------------- MODULE Access -------------------------------
(***************************************************************************)
(* Who may do what: the users of a tenant, their roles and teams, the      *)
(* sessions and API keys they present, and the three ways in which all of  *)
(* that changes: the administration routes, the SCIM endpoints of an       *)
(* identity provider and the start of the API process.  The authority of a *)
(* credential is computed anew for every request, so a change of a role, a *)
(* team or a user reaches the sessions that are already open.              *)
(*                                                                         *)
(* One tenant with one workspace and one application.  Statements of one   *)
(* transaction are one step; one that violates a unique index aborts it.   *)
(***************************************************************************)
EXTENDS Naturals, FiniteSets

CONSTANTS Users, Roles, Teams, Sessions, Keys,   \* ids the rows may get
          Administrator,     \* the system role every start ensures
          Subjects,          \* user names, NameIDs and emails
          AdminEmail,        \* OPENJOURNEY_ADMIN_EMAIL
          TeamNames,
          Assertions,        \* what the identity provider signs
          Posts,             \* POSTs of /acs in progress
          IssueDelay, Skew,  \* MaxIssueDelay and MaxClockSkew of the library
          CacheCap,          \* the hour a cached assertion is kept at most
          MaxClock, MaxChanges,   \* bounds: time, and what is administered
          None

ASSUME NamesAssumption == Administrator \in Roles /\ AdminEmail \in Subjects /\ "" \notin Subjects
ASSUME NoneAssumption == None \notin Assertions /\ None \notin Nat
ASSUME TimesAssumption == {IssueDelay, Skew, CacheCap, MaxClock, MaxChanges} \subseteq Nat /\ IssueDelay < CacheCap
ASSUME AssertionsAssumption ==
    \A a \in Assertions : a.subject \in Subjects /\ a.issued \in Nat /\ a.notOnOrAfter \in Nat

VARIABLES user,      \* users
          role,      \* roles: the permissions, none where there is no role
          binding,   \* role_bindings
          team,      \* teams, team_members and team_roles
          session,   \* user_sessions
          key,       \* api_keys
          provider,  \* the row of saml_providers
          up,        \* the API process runs
          replay,    \* samlReplayCache of the process: when each entry expires
          post,      \* assertions that passed the replay check
          opened,    \* sessions this process opened from each assertion
          clock,
          changes    \* steps of the administration and of SCIM: all leave an audit event

accessVars == <<user, role, binding, team, session, key, provider, up, replay, post, opened,
          clock, changes>>
people == <<user, role, binding, team>>
credentials == <<session, key>>
sso == <<provider, up, replay, post, opened, clock>>

Permissions == {"*", "manage", "work"}
Issuers == {"local", "scim", "idp"}
Emails == Subjects \cup {""}
NoTeam == [name |-> "", members |-> {}, roles |-> {}]
Fresh(f, none) == {i \in DOMAIN f : f[i] = none}

\* A row of users.  Only the email of a user with a password is read.
User(issuer, subject, email, password, disabled) ==
    [issuer |-> issuer, subject |-> subject, email |-> IF password THEN email ELSE "",
     password |-> password, disabled |-> disabled]

\* UNIQUE (oidc_issuer, oidc_subject), and users_local_email_idx over the rows
\* that have a password and are not disabled.
UserIndexes(us) ==
    \A u, v \in {w \in Users : us[w] # None} :
        \/ u = v
        \/ /\ us[u].issuer # us[v].issuer \/ us[u].subject # us[v].subject
           /\ ~(/\ us[u].password /\ us[v].password
                /\ ~us[u].disabled /\ ~us[v].disabled
                /\ us[u].email = us[v].email /\ us[u].email # "")

\* UNIQUE (tenant_id, workspace_id, name) of the teams.
TeamNamesDiffer(ts) ==
    \A t, o \in Teams : ts[t] # NoTeam /\ ts[o] # NoTeam /\ ts[t].name = ts[o].name => t = o

-----------------------------------------------------------------------------
(* The authority of a credential                                           *)

effective_roles(u) ==
    {r \in Roles : <<u, r>> \in binding} \cup UNION {team[t].roles : t \in {o \in Teams : u \in team[o].members}}

\* A user without a role has no row in the join and is not authenticated.
ScopesOf(u) == IF user[u].disabled THEN {} ELSE UNION {role[r] : r \in effective_roles(u)}

authenticateSession(s) ==
    IF session[s].state = "live" /\ session[s].held THEN ScopesOf(session[s].user) ELSE {}

Authenticate(k) == IF key[k].state = "live" THEN key[k].scopes ELSE {}

\* The email and the name of the claims then replace the ones of the row.
AuthenticateOIDC(u) == IF user[u].issuer = "idp" THEN ScopesOf(u) ELSE {}

HasScope(scopes, required) == {required, "*"} \cap scopes # {}

\* Some client holds a credential, or an ID token, that carries the scope of a
\* route: of an administration route "manage", which stands for roles:write,
\* users:write, teams:write, api_keys:write or sso:manage.
authenticate(required) ==
    /\ up
    /\ \/ \E s \in Sessions : session[s] # None /\ HasScope(authenticateSession(s), required)
       \/ \E k \in Keys : key[k] # None /\ HasScope(Authenticate(k), required)
       \/ \E u \in Users : user[u] # None /\ HasScope(AuthenticateOIDC(u), required)

\* The bearer tokens of SCIM are rows nothing in the repository writes.
scimAuthenticate == up

-----------------------------------------------------------------------------
(* Sessions and keys                                                       *)

NewSession(u, held) == [user |-> u, state |-> "live", held |-> held]

\* The row of the email that has the right password and is not disabled; the
\* inner join wants a role.
CreateLocalSession(u, s) ==
    /\ user[u] # None /\ user[u].password /\ ~user[u].disabled
    /\ effective_roles(u) # {}
    /\ user[u].email # ""
    /\ session' = [session EXCEPT ![s] = NewSession(u, TRUE)]
    /\ UNCHANGED <<people, key, sso>>

login == up /\ \E u \in Users, s \in Fresh(session, None) : CreateLocalSession(u, s)

RevokeLocalSession(s) ==
    /\ session[s] # None /\ session[s].state = "live"
    /\ session' = [session EXCEPT ![s].state = "revoked"]
    /\ UNCHANGED <<people, key, sso>>

logout == up /\ \E s \in Sessions : RevokeLocalSession(s)

\* expires_at passes: every session has one, a key may.
Expire ==
    /\ \/ \E s \in Sessions :
            /\ session[s] # None /\ session[s].state = "live"
            /\ session' = [session EXCEPT ![s].state = "expired"]
            /\ UNCHANGED key
       \/ \E k \in Keys :
            /\ key[k] # None /\ key[k].state = "live" /\ key[k].expires
            /\ key' = [key EXCEPT ![k].state = "expired"]
            /\ UNCHANGED session
    /\ UNCHANGED <<people, sso>>

CreateAPIKey(k, scopes, expires) ==
    /\ scopes # {}
    /\ key' = [key EXCEPT ![k] = [scopes |-> scopes, expires |-> expires, state |-> "live"]]
    /\ UNCHANGED <<people, session, sso>>

createAPIKey ==
    /\ authenticate("manage")
    /\ \E k \in Fresh(key, None), scopes \in SUBSET Permissions, expires \in BOOLEAN :
          CreateAPIKey(k, scopes, expires)

RevokeAPIKey(k) ==
    /\ key[k] # None /\ key[k].state # "revoked"
    /\ key' = [key EXCEPT ![k].state = "revoked"]
    /\ UNCHANGED <<people, session, sso>>

revokeAPIKey == authenticate("manage") /\ \E k \in Keys : RevokeAPIKey(k)

-----------------------------------------------------------------------------
(* Roles, users and teams                                                  *)

CreateRole(r, perms) ==
    /\ perms # {}
    /\ role' = [role EXCEPT ![r] = perms]
    /\ UNCHANGED <<user, binding, team, credentials, sso>>

createRole ==
    authenticate("manage") /\ \E r \in Fresh(role, {}), perms \in SUBSET Permissions : CreateRole(r, perms)

UpdateRole(r, perms) ==
    /\ role[r] # {} /\ r # Administrator
    /\ perms # {}
    /\ role' = [role EXCEPT ![r] = perms]
    /\ UNCHANGED <<user, binding, team, credentials, sso>>

updateRole ==
    authenticate("manage") /\ \E r \in Roles, perms \in SUBSET Permissions : UpdateRole(r, perms)

\* The bindings, the roles of teams and the default role of the provider go
\* with the row (ON DELETE CASCADE and SET NULL).
DeleteRole(r) ==
    /\ role[r] # {} /\ r # Administrator
    /\ role' = [role EXCEPT ![r] = {}]
    /\ binding' = {b \in binding : b[2] # r}
    /\ team' = [t \in Teams |-> [team[t] EXCEPT !.roles = @ \ {r}]]
    /\ provider' = IF provider # None /\ provider.default = r THEN [provider EXCEPT !.default = None] ELSE provider
    /\ UNCHANGED <<user, credentials, up, replay, post, opened, clock>>

deleteRole == authenticate("manage") /\ \E r \in Roles : DeleteRole(r)

\* A user with a password is local and its email is its subject; any other
\* names an issuer and a subject.  Every role must exist.
CreateUser(u, issuer, subject, roles) ==
    /\ roles # {} /\ \A r \in roles : role[r] # {}
    /\ user' = [user EXCEPT ![u] = User(issuer, subject, subject, issuer = "local", FALSE)]
    /\ UserIndexes(user')
    /\ binding' = binding \cup ({u} \X roles)
    /\ UNCHANGED <<role, team, credentials, sso>>

createUser ==
    /\ authenticate("manage")
    /\ \E u \in Fresh(user, None), issuer \in {"local", "idp"}, subject \in Subjects, roles \in SUBSET Roles :
          CreateUser(u, issuer, subject, roles)

Existing(members, roles) ==
    /\ \A u \in members : user[u] # None
    /\ \A r \in roles : role[r] # {}

CreateTeam(t, name, members, roles) ==
    /\ Existing(members, roles)
    /\ team' = [team EXCEPT ![t] = [name |-> name, members |-> members, roles |-> roles]]
    /\ TeamNamesDiffer(team')
    /\ UNCHANGED <<user, role, binding, credentials, sso>>

createTeam ==
    /\ authenticate("manage")
    /\ \E t \in Fresh(team, NoTeam), name \in TeamNames, members \in SUBSET Users, roles \in SUBSET Roles :
          CreateTeam(t, name, members, roles)

UpdateTeam(t, name, members, roles) ==
    /\ team[t] # NoTeam
    /\ Existing(members, roles)
    /\ team' = [team EXCEPT ![t] = [name |-> name, members |-> members, roles |-> roles]]
    /\ TeamNamesDiffer(team')
    /\ UNCHANGED <<user, role, binding, credentials, sso>>

updateTeam ==
    /\ authenticate("manage")
    /\ \E t \in Teams, name \in TeamNames, members \in SUBSET Users, roles \in SUBSET Roles :
          UpdateTeam(t, name, members, roles)

DeleteTeam(t) ==
    /\ team[t] # NoTeam
    /\ team' = [team EXCEPT ![t] = NoTeam]
    /\ UNCHANGED <<user, role, binding, credentials, sso>>

deleteTeam == authenticate("manage") /\ \E t \in Teams : DeleteTeam(t)

-----------------------------------------------------------------------------
(* SCIM                                                                    *)

CreateSCIMUser(u, subject, email, active) ==
    /\ user' = [user EXCEPT ![u] = User("scim", subject, email, FALSE, ~active)]
    /\ UserIndexes(user')
    /\ UNCHANGED <<role, binding, team, credentials, sso>>

createSCIMUser ==
    /\ scimAuthenticate
    /\ \E u \in Fresh(user, None), subject \in Subjects, email \in Emails, active \in BOOLEAN :
          CreateSCIMUser(u, subject, email, active)

\* Any user of the tenant: a field the body leaves out is empty, and active is
\* then false.
UpdateSCIMUser(u, subject, email, active) ==
    /\ user[u] # None
    /\ user' = [user EXCEPT ![u] = User(@.issuer, IF subject = "" THEN @.subject ELSE subject,
                                        email, @.password, ~active)]
    /\ UserIndexes(user')
    /\ UNCHANGED <<role, binding, team, credentials, sso>>

\* PUT and PATCH are one handler.
replaceSCIMUser ==
    /\ scimAuthenticate
    /\ \E u \in Users, subject \in Emails, email \in Emails, active \in BOOLEAN :
          UpdateSCIMUser(u, subject, email, active)

deleteSCIMUser == scimAuthenticate /\ \E u \in Users : UpdateSCIMUser(u, "", "", FALSE)

\* The lookup of a group by its team, its mapping or the external name the
\* mapping records.  The caller may get an error instead of the row.
GetSCIMGroup == {t \in Teams : team[t] # NoTeam}

\* Members that are not users of the tenant are passed over.
Known(members) == {u \in members : user[u] # None}

\* The team of the same name is taken over, members added.  Whether the answer
\* finds the group again does not undo the commit.
CreateSCIMGroup(t, name, members) ==
    LET same == {o \in Teams : team[o] # NoTeam /\ team[o].name = name}
    IN /\ IF same # {} THEN t \in same ELSE team[t] = NoTeam
       /\ team' = [team EXCEPT ![t] = [name |-> name,
                                       members |-> team[t].members \cup Known(members),
                                       roles |-> team[t].roles]]
       /\ UNCHANGED <<user, role, binding, credentials, sso>>

createSCIMGroup ==
    /\ scimAuthenticate
    /\ \E t \in Teams, name \in TeamNames, members \in SUBSET Users : CreateSCIMGroup(t, name, members)

UpdateSCIMGroup(t, name, members) ==
    /\ t \in GetSCIMGroup
    /\ team' = [team EXCEPT ![t].name = IF name = "" THEN @ ELSE name,
                            ![t].members = Known(members)]
    /\ TeamNamesDiffer(team')
    /\ UNCHANGED <<user, role, binding, credentials, sso>>

replaceSCIMGroup ==
    /\ scimAuthenticate
    /\ \E t \in Teams, name \in TeamNames \cup {""}, members \in SUBSET Users : UpdateSCIMGroup(t, name, members)

\* One operation of a patch; several are applied in turn in one transaction.
PatchSCIMGroup(t, op, members) ==
    /\ t \in GetSCIMGroup
    /\ team' = [team EXCEPT ![t].members =
                   CASE op = "add"     -> @ \cup Known(members)
                     [] op = "remove"  -> @ \ members
                     [] op = "replace" -> Known(members)]
    /\ UNCHANGED <<user, role, binding, credentials, sso>>

patchSCIMGroup ==
    /\ scimAuthenticate
    /\ \E t \in Teams, op \in {"add", "remove", "replace"}, members \in SUBSET Users :
          PatchSCIMGroup(t, op, members)

DeleteSCIMGroup(t) ==
    /\ t \in GetSCIMGroup
    /\ team' = [team EXCEPT ![t] = NoTeam]
    /\ UNCHANGED <<user, role, binding, credentials, sso>>

deleteSCIMGroup == scimAuthenticate /\ \E t \in Teams : DeleteSCIMGroup(t)

-----------------------------------------------------------------------------
(* SAML                                                                    *)

CreateSAMLProvider(enabled, status, default) ==
    /\ provider = None
    /\ default # None => role[default] # {}
    /\ provider' = [enabled |-> enabled, status |-> status, default |-> default]
    /\ UNCHANGED <<people, credentials, up, replay, post, opened, clock>>

createSAMLProvider ==
    /\ authenticate("manage")
    /\ \E enabled \in BOOLEAN, status \in {"draft", "active", "disabled"}, default \in Roles \cup {None} :
          CreateSAMLProvider(enabled, status, default)

ProviderActive == provider # None /\ provider.enabled /\ provider.status = "active"

\* The environment: an identity provider whose clock does not run ahead of the
\* server's has issued an assertion before anybody posts it.  The code does not
\* look for an instant of issue in the future.
Issued(a) == a.issued <= clock

\* ParseXMLResponse of the library: the signature, and the times with the
\* tolerances it was built with.
ParseXMLResponse(a) ==
    /\ clock <= a.issued + IssueDelay
    /\ clock <= a.notOnOrAfter + Skew

\* Mutant: the instant of issue is taken for the end of the conditions.
CacheUntilIssued(a) == a.issued

\* How long samlACS asks the cache to remember the assertion.
CacheUntil(a) == IF a.notOnOrAfter > clock + CacheCap THEN clock + CacheCap ELSE a.notOnOrAfter

Unused(a) == ~(replay[a] # None /\ clock < replay[a])

\* Under the mutex: expired entries go, an entry that is left refuses, and the
\* assertion is entered.
checkSAMLReplay(a) ==
    /\ Unused(a)
    /\ replay' = [b \in Assertions |-> IF b = a THEN CacheUntil(a)
                                       ELSE IF replay[b] # None /\ clock > replay[b] THEN None ELSE replay[b]]

samlACS ==
    /\ up /\ ProviderActive
    /\ \E p \in Fresh(post, None), a \in Assertions :
          /\ Issued(a)
          /\ ParseXMLResponse(a)
          /\ checkSAMLReplay(a)
          /\ post' = [post EXCEPT ![p] = a]
    /\ UNCHANGED <<people, credentials, provider, up, opened, clock>>

\* Mutant: the row is taken over the way EnsureLocalAdmin takes over the
\* administrator's, disabled or not.
SAMLUserTakenOver(p, s, commits) ==
    LET a == post[p]
        known == {u \in Users : user[u] # None /\ user[u].issuer = "idp" /\ user[u].subject = a.subject}
    IN /\ a # None
       /\ post' = [post EXCEPT ![p] = None]
       /\ IF ProviderActive /\ known # {}
          THEN \E u \in known :
                 /\ session' = [session EXCEPT ![s] = NewSession(u, commits)]
                 /\ opened' = [opened EXCEPT ![a] = @ + 1]
                 /\ user' = IF commits THEN [user EXCEPT ![u].disabled = FALSE] ELSE user
          ELSE UNCHANGED <<user, session, opened>>
       /\ UNCHANGED <<role, binding, team, key, provider, up, replay, clock>>

\* A row that is disabled is refused.  The session goes in on a connection of
\* its own: it stays when the transaction then fails, and nobody learns its
\* token; and it cannot reference the row of a user the transaction has yet to
\* commit, so an unknown NameID leaves neither the user nor a session.
UpsertSAMLUserAndCreateSession(p, s, commits) ==
    LET a == post[p]
        known == {u \in Users : user[u] # None /\ user[u].issuer = "idp" /\ user[u].subject = a.subject}
        enabled == {u \in known : ~user[u].disabled}
    IN /\ a # None
       /\ post' = [post EXCEPT ![p] = None]
       /\ IF ProviderActive /\ enabled # {}
          THEN \E u \in enabled :
                 /\ session' = [session EXCEPT ![s] = NewSession(u, commits)]
                 /\ opened' = [opened EXCEPT ![a] = @ + 1]
          ELSE UNCHANGED <<session, opened>>
       /\ UNCHANGED <<people, key, provider, up, replay, clock>>

finishSAMLLogin ==
    /\ up
    /\ \E p \in Posts, s \in Fresh(session, None), commits \in BOOLEAN :
          UpsertSAMLUserAndCreateSession(p, s, commits)

-----------------------------------------------------------------------------
(* The process                                                             *)

Crash ==
    /\ up
    /\ up' = FALSE
    /\ replay' = [a \in Assertions |-> None]
    /\ post' = [p \in Posts |-> None]
    /\ opened' = [a \in Assertions |-> 0]
    /\ UNCHANGED <<people, credentials, provider, clock>>

\* The administrator's row is found by issuer and subject, and made enabled;
\* a process whose transaction an index refuses exits.
EnsureLocalAdmin ==
    LET found == {u \in Users : user[u] # None /\ user[u].issuer = "local" /\ user[u].subject = AdminEmail}
    IN \E u \in IF found # {} THEN found ELSE Fresh(user, None) :
          /\ user' = [user EXCEPT ![u] = User("local", AdminEmail, AdminEmail, TRUE, FALSE)]
          /\ UserIndexes(user')
          /\ role' = [role EXCEPT ![Administrator] = {"*"}]
          /\ binding' = binding \cup {<<u, Administrator>>}

Startup ==
    /\ ~up
    /\ EnsureLocalAdmin
    /\ up' = TRUE
    /\ UNCHANGED <<team, credentials, provider, replay, post, opened, clock>>

Tick ==
    /\ clock < MaxClock
    /\ clock' = clock + 1
    /\ UNCHANGED <<people, credentials, provider, up, replay, post, opened>>

\* A tenant in operation: the first start made the administrator, who added a
\* user of the identity provider and may have configured SAML.
AccessInit ==
    \E admin, member \in Users, subject \in Subjects \ {AdminEmail}, r \in Roles \ {Administrator} :
        /\ admin # member
        /\ user = [u \in Users |->
                     CASE u = admin  -> User("local", AdminEmail, AdminEmail, TRUE, FALSE)
                       [] u = member -> User("idp", subject, subject, FALSE, FALSE)
                       [] OTHER      -> None]
        /\ role = [x \in Roles |-> CASE x = Administrator -> {"*"} [] x = r -> {"work"} [] OTHER -> {}]
        /\ binding = {<<admin, Administrator>>, <<member, r>>}
        /\ team = [t \in Teams |-> NoTeam]
        /\ session = [s \in Sessions |-> None]
        /\ key = [k \in Keys |-> None]
        /\ provider \in {None, [enabled |-> TRUE, status |-> "active", default |-> r]}
        /\ up = TRUE
        /\ replay = [a \in Assertions |-> None]
        /\ post = [p \in Posts |-> None]
        /\ opened = [a \in Assertions |-> 0]
        /\ clock = 0
        /\ changes = 0

\* The routes of the administration and of SCIM, MaxChanges times.
AdministerAccess ==
    /\ changes < MaxChanges
    /\ changes' = changes + 1
    /\ \/ createAPIKey \/ revokeAPIKey \/ createRole \/ updateRole \/ deleteRole \/ createUser
       \/ createTeam \/ updateTeam \/ deleteTeam
       \/ createSCIMUser \/ replaceSCIMUser \/ deleteSCIMUser
       \/ createSCIMGroup \/ replaceSCIMGroup \/ patchSCIMGroup \/ deleteSCIMGroup
       \/ createSAMLProvider

\* Sign-ins, requests, time and the process: bounded by the ids there are.
Use ==
    /\ changes' = changes
    /\ login \/ logout \/ Expire \/ samlACS \/ finishSAMLLogin \/ Crash \/ Startup \/ Tick

AccessNext == AdministerAccess \/ Use

AccessSpec == AccessInit /\ [][AccessNext]_accessVars

-----------------------------------------------------------------------------
(* Properties                                                              *)

\* The authority of an open session is recomputed for each request, and may
\* grow: by a change of the administration or of SCIM, all of which the audit
\* log records, or when a start restores the administrator.  No sign-in of the
\* user brings back what was taken from them, and no session that ended comes
\* back (authenticateSession, CreateLocalSession, UpsertSAMLUserAndCreateSession).
AuthorityIsGranted ==
    [][\A s \in Sessions :
          session[s] # None /\ ~(authenticateSession(s)' \subseteq authenticateSession(s))
              => session[s].state = "live" /\ (changes' # changes \/ (~up /\ up'))]_accessVars

\* Among the POSTs one process handles, an assertion that stays valid longer
\* than the library accepts it opens at most one session, however often and
\* late it is posted (checkSAMLReplay, samlACS).
OneSessionPerAssertion ==
    \A a \in Assertions : a.notOnOrAfter > a.issued + IssueDelay => opened[a] <= 1
=============================================================================
