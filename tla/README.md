# OpenJourney: TLA+ models, checks and proofs

OpenJourney is a customer-engagement platform: applications send it events about
people and companies, it keeps profiles, and it moves people through *journeys*
(graphs of waits, conditions, messages and actions) and sends them *campaigns*. It
is a set of Go processes (an API server, projectors, journey workers, campaign
dispatchers and delivery workers, an outbox dispatcher, an operations worker, a
scheduler) that share one PostgreSQL database and coordinate through nothing else:
every queue is a table, every lock a lease column or a row lock, every guard against
doing things twice a unique index or a `decision` column.

That makes its correctness a matter of what happens *between* statements: a worker
that outlives its lease, a process that dies after the provider took the message and
before the row says so, two transactions that each count the other, a retry that meets
its own idempotency key. The unit and integration tests run one worker at a time; these
models run several, let them fail at every point, and check what must hold regardless.

Contents: [inventory](#inventory) · [modules](#modules-and-how-they-correspond-to-the-code)
· [runs](#runs) · [bounds](#bounds-and-why-they-are-enough) · [fairness](#fairness) ·
[proofs](#proofs) · [findings](#where-the-code-and-its-documents-disagree) ·
[not modelled](#what-is-not-modelled) · [plan](#plan)

Source paths below are relative to the repository root; `PROJECT.json` maps every
definition to its lines, lists every component, and lists the hazards with the
properties that watch them.

## Inventory

| Component | State | Operations | Interacts with |
|---|---|---|---|
| Event acceptance (`internal/postgres/store.go`) | `events` with a sequence and a unique idempotency key, `projection_jobs` | `AcceptEvents`: one transaction for a batch, duplicate or conflict by key and content | called by the API, by journeys and campaigns (`message.sent`), by companies, webhooks and forms |
| Projection (`internal/projector`, `store.go`) | `projection_jobs` (status, attempts, lease) | claim with per-subject blocking, `ProjectEvent`, `FailProjectionJob`, retry and discard of dead letters | writes profiles and consents, wakes waiting journey runs in the same transaction |
| Contacts (`store.go`, `httpapi/callbacks.go`, `messages.go`, `device_tokens.go`, `forms.go`) | profiles, aliases, merges with their snapshots, consents, suppressions, device tokens, in-app messages | resolve, merge and unmerge identities, change consents, suppress and reopen endpoints, webhooks of providers, token synchronisation, inbox | inside `ProjectEvent`; read by the policy gate |
| Journey runtime (`internal/journey/runtime.go`, `nodes.go`, `internal/postgres/journey_runtime.go`) | `journey_runs` (status, node, awaited event), `journey_steps` (leased queue), `journey_transitions` | sweep and claim, execute a node, `AdvanceRunTx`, `FailJourneyStep`, `RescheduleJourneyStep`, `resolveWaitingRuns`, cancel, pause, retry | creates message intents, emits events, is woken by projection |
| Journey delivery (`internal/journey/deliver.go`) | `journey_message_intents` (status, attempts, lease, decision) | claim under a tenant cap, quiet hours, policy, render, send, `message.sent`, replay | provider adapters, event acceptance |
| Campaigns (`internal/campaigns`, `internal/postgres/campaigns.go`) | `campaigns`, `delivery_jobs`, `delivery_attempts` | edit, dispatch into shards, claim a job, deliver each recipient, close the campaign | segments, templates, experiments, providers, event acceptance |
| Policy (`internal/policy`) | suppressions, consents, counts of sends | `Evaluate`: suppression, consent, fatigue | both deliveries |
| Versioned resources (`internal/publishing`, `postgres/journeys.go`, `forms.go`, `pages_assets.go`, `connectors.go`, `templates.go`, `flags.go`, `prompts.go`, `scoring.go`, `maker_checker.go`) | draft rows, immutable versions, manifests in the blob store, policies, audit events | create, edit, upload, check the maker, publish, pause | what runtime, campaigns, pages and the gateway run |
| Experiments (`postgres/experiments.go`) | experiment and variants, proposals, snapshots | report, propose, approve, roll out | inserts journey versions and campaigns |
| AI gateway (`internal/ai`) | provider configurations, `ai_budget_usage`, `ai_activity` | configure, check, generate and repair, count, record, agent loop | copilots, decision nodes, scoring, generation jobs |
| Extension host (`internal/extension`, `postgres/extensions.go`) | extensions, versions, configurations, grants, health, activity | install, publish, enable, grant, invoke | channels, nodes, templates, ingestion, connectors |
| Access (`postgres/auth.go`, `rbac.go`, `saml.go`, `scim.go`, `teams.go`, `httpapi/saml.go`, `scim.go`) | users, roles, bindings, teams, sessions, API keys, the SAML provider, the replay cache of a process | sign in and out, administer, provision, assert, start | every handler asks for a scope |
| Operations worker and scheduler (`internal/operations`, `internal/scheduler`, `internal/postgres/operations.go`, `admin.go`, `connectors.go`) | `operation_jobs` (leased queue), import, generation, scoring and privacy requests, `connector_runs` (append-only), pipelines | create, verify or reject a request, schedule or replay a pipeline, claim, execute one of nine kinds of job, complete or fail it, retry and discard | event acceptance, object store, AI gateway, connectors |
| Journey enrolment (`enroll.go`) | runs by journey and subject | enrol by event, schedule, segment or backfill, with a re-entry policy | creates runs |
| Outbox and export relay | leased queue of events | publish, fan out | Kafka, sinks |
| Segments, flags' evaluation, links, catalogs, channels, rendering, analytics, replay, SDK, console | mostly records, pure functions and I/O | | |

What is hard in it:

* **Concurrency without fencing.** Leases expire after five minutes, and most final
  writes are by id alone: a slow worker can fail, complete or overwrite what another
  one has taken over.
* **Effects outside the transaction.** Provider calls, blobs and events happen between two
  statements. `decision = provider_sent`, content addresses and idempotency keys are there
  to survive a crash in between.
* **Read, then write.** A handler reads a row on the pool and writes it, or a judgement of
  it, later: drafts and the checker, budgets, the circuit breaker, the winner of a report.
* **Order.** Events of a subject must be projected in order although sequence numbers
  are assigned at the insert and rows appear at the commit; merges, consents, bounces and
  unmerges come in any order.
* **Races between timers and events.** A waiting run can be moved by its timeout step and
  by the awaited event.
* **Ending.** Retries are bounded, dead letters are replayed by hand, and something
  must eventually move every run, intent, job and event.

What makes each part correct, in one line: a run moves along the edges of the graph, one
node at a time, and is never left without work; a message is sent once unless a fault
pays for another copy, and no record lies about it; an event is applied if it is
done, first in order, and again only if a fault pays for it; a campaign that says completed has
settled its recipients; an operation is carried out once unless a fault pays for more, its request says
how it ended, and its run is closed; a version is what was reviewed and stored, and is made once; a
model answer is counted once and recorded before it is used; only verified extension code runs, and a
failing extension is cut off; a merge keeps what its reversal needs, and who asked to be left alone is; authority
grows only by an administrative step.

## Modules and how they correspond to the code

| Module | Models |
|---|---|
| `JourneyRuntime` | the runtime: runs, steps, workers, projectors, operators, clock |
| `JourneyWalk` | abstract specification: what a journey promises one participant |
| `JourneyRuntimeInv` | the inductive invariant of `JourneyRuntime`, checkable by TLC |
| `JourneyRuntimeProofs` | its proofs, and the refinement of `JourneyWalk` |
| `JourneyDelivery`, `JourneyDeliveryProofs` | intents, delivery workers, provider, `message.sent` |
| `EventProjection`, `EventProjectionProofs` | acceptance transactions, the projection queue, projectors |
| `Campaigns`, `CampaignsProofs` | a campaign, its dispatchers, jobs, workers, attempts |
| `Operations`, `OperationsProofs` | the operations queue, its kinds of jobs, requests, runs of pipelines, the scheduler |
| `Publishing`, `Experiments`, `PublishingProofs` | drafts, versions, manifests, the checker; experiments on top of them |
| `Gateway`, `GatewayProofs` | the AI gateway, its callers and its budget |
| `Extensions` | an extension, its versions and the host that invokes it |
| `Contacts` | profiles and identities, consents, suppressions, device tokens, in-app messages |
| `Access` | users, roles, teams, sessions, keys, SAML and SCIM |
| `WorkspaceProofs` | the proofs of the last three, which share no state and so no names: hence `ContactsSpec` and `AccessSpec` beside `Spec` |
| `MC…` | the instances TLC checks |

Conventions. A table is a function from row ids to records whose fields are its columns,
reduced to those a guard or a property reads; an action is one committed statement or
transaction; a process is between two of them at each value of its `pc`, and what it has
read is in its local state. Time is abstracted: `available_at` and leases are flags that
clock actions flip. A lease is held by a worker until the worker lets go, the clock
expires the lease of one that is gone (`LeaseExpires`), or, as a fault, a worker outlives its own
(`Overrun`). Definitions whose comment starts with *Mutant:* are plausible bugs. They are
not used by any specification; `PROJECT.json` pairs each property with one that breaks it.

**JourneyRuntime.** `runs` is `journey_runs`, `steps` is `journey_steps` (ids
`<<run, slot>>`; the partial unique index `journey_steps_one_live_per_run` is
`IndexClash`), `transitions` the history, `intents` the messages created, `updated` the
profile updates of action nodes. `TickNext` is three steps of a worker: `ClaimJourneyStep`
(or `ClaimNothing`; both include the sweep of poisoned steps that starts each claim),
then `Execute`/`ExecuteAction`/`SkipLate`/`RescheduleJourneyStep`/`TickError`, then
`AdvanceRunTx` or `FailJourneyStep`. `AdvanceRunTx` has its three ends as disjuncts:
rejected (the step is gone or not processing), stale (the step is completed, or the run has
moved: the step is closed without effect) and commit. A projector reads the waiting runs (`ReadWaitingRuns`)
and moves them in the projection's transaction (`ResolveWaitingRuns`), which a unique
index may abort. The move starts at the node the projector *read*; where the run is at another wait node by then, it takes
a branch of a node it has left, and is in the history variable `crossed` from then on (`OnPath` is the other runs). Operators cancel runs, pause versions and retry dead steps. The graph is
a constant that passes `Validate`: one entry node, the edges `validateOutgoing` demands
(`ValidOutgoing`), every node reachable (`reachableNodes`) and an exit among them; which
labelled edge a branching node takes is a free choice. The late policy is chosen in `Init`.

**JourneyDelivery.** A row is copied at the claim (`ClaimJourneyMessageIntent`, after the
snapshot `ReadQueue` has read, since the in-flight cap is a subquery) and written back whole by id
(`WrittenRow`). `DeliverNext` is: drain or reconcile by decision; defer in quiet hours;
policy (`Verdicts`); render; `SendAccepted`, `SendRetryable` or `SendRejected`;
`SaveProviderSent`; `AcceptEvent`, `EmitRefused` or `EmitFails`; the final update.

**EventProjection.** An acceptance is two steps, the insert that draws sequence numbers and the
commit that makes them visible, so two requests can commit out of sequence. A request
is a batch of keys; repeats in a batch and across batches are duplicates, company
events (a new `occurred_at` under a fixed key) conflicts. `ClaimProjectionJob` is
blocked by unfinished earlier jobs that share an identifier; `ProjectEvent` and
`FailProjectionJob` are by event id. `ProjectInline` is the projection that
`applyCompanyEvent` performs without a claim. `applied` is the order in which projections committed.

**Campaigns.** `campaign` is the status of one campaign row, which the API overwrites at
will. `ClaimScheduledCampaign` and `SaveCampaignManifestAndJobs` are the two ends of
`DispatchNext`; in between any error sets the status failed and a crash leaves it
building. The segment may resolve to another audience at each dispatch. `DeliverNext`
claims a job and takes its recipients in order; `CreateDeliveryAttempt` inserts the
attempt or reads it, open decisions are gone on with, the others skipped. Ending a job is two
steps, `EndJob` (update the job, count the active ones as committed) and `CommitJob`, because
the count of one transaction does not see the other. An error of
`UpdateDeliveryAttempt` is only logged: `Record` may lose the write.

**Operations.** `jobs` is `operation_jobs`, `requests` the row a job answers (each job has its
own), `runRows` counts `connector_runs` by status, since no statement can change one. What a job does
is chosen in `Init` by its `kind`. A worker claims, loads and marks (`LoadRequest`,
`StartRun` or the single call `CallOnce`), takes the rows batch by batch (`TakeBatch`, `RejectBatch`; `accepted` has
the idempotency keys), ends (`EndWork`, `CommitSource`, `PutBlob`), answers (`CompleteRequest`, or
`AnswerRefused` where the table's constraint refuses the status) or records the terminal row of its
run (`FinishRun`, `CloseRun`, `LoseRecord`), and completes or fails the job. An error anywhere is
`ExecutionFails`, a terminal one `Deny`; `AfterError` sends those of a run over its
terminal row. `Enqueues` is everything that makes a job: creating or verifying requests, accepted
events, the scheduler, a replay. `successes` is a history variable: how often `execute` returned without an error.

**Publishing.** A behaviour is about one resource, whose kind `Init` chooses: the eight kinds have
tables of one shape and differ in what they lock, compare and refuse. A request that one transaction answers is one
action (`createForm`, `updateConnectorPipeline`, …). One that reads first is a session of its principal: `Publish`
validates and puts the manifest (`Uploads`), `CheckMakerChecker` looks at policy and audit on the pool, and
`PublishJourney`, `CommitForm` or `PublishConnectorPipeline` is the transaction that locks the row, compares and
inserts (`Promotes`); `Abandon` ends a request anywhere in between. `content` stands for the
canonical document and its digest.

**Experiments** extends Publishing by the experiment a journey is bound to. The report computes a winner
(`ExperimentReport`, a free choice of what the statistics may say) and writes it back later (`RecordsWinner`); a proposal
is looked up and then inserted (`LooksUpProposal`, `ProposeExperimentOptimization`); an approval and a
rollout are one transaction each. `rolloutJourney` inserts a version beside the publishers of Publishing, and
`pinJourneyExperiment` is a constant function of document and label.

**Gateway.** A caller's request moves from `Asks` over `Generate` (`getProvider`), `checkBudget`,
`EstimateCost`, `ProviderAnswers` or `ProviderFails`, to `TooDear`, `ValidateOutput`, `Accepts`; a rejected answer goes through
`checkBudget` once more and ends in `AcceptsRepair` or `RepairRejected`. Counting (`recordMetricsAndIncrementBudget`) and
recording (`RecordAIActivity`) happen in the order the code has on each path, and each may fail
(`Works`), always so once the context has ended (`Expire`). The agent's loop is `NextStep` and `Call`.
`spent` and `admitted` are history variables.

**Extensions.** One extension. Administration is one action per store call; `installExtension` is
several of them, since its handler makes each in a transaction of its own. `PublishExtensionVersion` is four: the transaction
locks the row of its own version and fixes what its UPDATE is to archive (`PublishBegins`), archives those rows once no other
transaction has them locked, if they are still active (`PublishArchives`), and commits (`PublishCommits`) or not (`PublishFails`); several
may be open. An invocation reads the row, the configuration and
the health at `invoke`, is refused or let through at `Admit` (scope, rate, budget), and `InvocationFails` or
`InvocationSucceeds` writes the health row it read at the start, or loses the write (`LosesHealth`): its error is only logged. The
seven callers differ in the scope they ask for and in whether their principal holds it (`Delegated`). `Cool` and `Forget` are the
clock. `streak` and `overlapped` are history variables.

**Contacts.** `db` holds the tables that `ProjectEvent` writes; each event is one action whose outcome is computed by
operators on `db` (`resolveIdentity`, `ensureProfile`, `mergeProfiles`, `unmergeProfile`, `changeConsent`), and one
that would violate a unique index has no outcome: the transaction aborts. Candidates of equal priority are merged in any order
(`Orders`), since the ids that decide are random. The webhooks (`handleSESCallback`,
`handleSMSCallback`, `handlePushCallback`), the public form, the administrator's suppressions, `syncDeviceTokens`
(list, then register and retire) and the inbox are actions beside it. `Accepts` is the foreign key of
`accepted_events.app_id`. `Reachable` is the policy gate on these tables.

**Access.** Each route is an action guarded by the scope some live credential must carry (`authenticate`); scopes
are computed from the tables at each use, as the code does. SCIM has its own token. `samlACS` parses and enters the assertion in
the process's cache (`Issued` is about the provider: an assertion is posted after it was issued), `finishSAMLLogin` makes the session later and on a connection of its own, `Crash` and `Startup`
lose the cache and run `EnsureLocalAdmin`. `opened` counts the sessions a process made of an assertion; `held` in a
session is the authority it had when it was opened.

## Runs

Each line of `PROJECT.json` "runs" is one of these. States are those TLC finds, symmetry applied; every run takes
between half a minute and two minutes on two workers of an idle machine.

| Run | Instance | Shows |
|---|---|---|
| `journey_faults` | entry, one wait, exit under each late policy; two workers, a projector, errors, crashes, an operator's retry (2.3 M states) | a run inside the graph always has a step that can move it (`WorkConserved`); leaves each node at most once (`LeavesEachNodeOnce`); its history ends where it is (`HistoryExplainsPosition`); ended runs stay ended (`TerminalIsFinal`); no claim can break the unique index (`ClaimNeverBlocked`, under the policy *run* and before an operator retries) |
| `journey_graph` | every kind of node and two waits for one event, of which the second follows the timeout of the first; a worker that keeps polling, one that may stop anywhere, leases that run out, fair (244 k) | of the runs that are not crossed, the inductive invariant of the proofs (`IInv`); those that are still have a step that can move them (`CrossedRunsKeepWork`); of all runs, message intents match the history (`EffectsMatchHistory`); but for crossed runs, the runtime implements `JourneyWalk` (`ImplementsWalk`); every run of an active version ends, waits for a dead letter to be retried, or is canceled (`EveryRunSettles`) |
| `delivery_faults` | one push intent, two workers, every failure, one fault, one replay whatever the status, fair (@DEL@) | records are true (`SentIsTrue`); `DuplicatesArePaidFor`; `EveryIntentSettles` |
| `projection_faults` | two events of one subject, one sent twice in a batch, one of a company; two projectors, one fault, one operator call, fair (135 k) | `DoneIsApplied`; first applications in order (`FirstInOrder`); `ReapplicationsArePaidFor`; `EveryEventSettles` |
| `campaign_faults` | two workers, two jobs: two shards of one dispatch, or one recipient, or nobody, dispatched and scheduled again; one fault, one edit, every failure, fair (919 k) | `AttemptsAreTrue`; `SendsArePaidFor`; `CompletedIsDecided`; `EveryJobSettles` |
| `operations_faults` | each of nine kinds of job alone, and a source pipeline scheduled twice or replayed; two workers, one fault, every failure and denial, one call of a reviewer or operator, fair (394 k) | `SuccessesArePaidFor`; a request says how its job ended (`RequestsAgree`); `AnswersAreTrue`; every run is closed on every path (`RunsAreClosed`); `EveryJobSettles` |
| `publishing_faults` | each kind of resource and an experiment; two people and an API key, three documents of which one is invalid, two requests at a time, two versions (2.7 M) | a version is its stored manifest (`FrozenContent`); republication adds nothing (`RepublishAddsNothing`); `NumberedInOrder`; approved proposals and snapshots are one to one (`ApprovalsAreSnapshots`) |
| `gateway_faults` | two callers, every kind of request, a budget that is set, changed and removed, two ended contexts or failed store calls (4.2 M) | charges are counted once, and a missing one is paid for by a fault (`ChargesAreCounted`); `OverrunBounded` |
| `extension_faults` | two callers, two versions, a threshold of two, a rate of one a minute, publications that overlap, lost health and activity rows (@EXT@) | the version in use is active and verified, and the only active one unless publications overlapped (`CurrentIsVerified`); lost updates of the health row let only boundedly many *recorded* failures through (`BreakerTrips`) |
| `contact_faults` | three profiles, two external and two anonymous ids, a value used as email and phone, one endpoint, token, message; any four events (713 k) | `OpenMergesAreReversible`; `ExternalIdsNameLiveProfiles`; bounces, complaints and administrators' suppressions are lifted by administrators only (`OnlyAdministratorsReopen`) |
| `contact_stop` | the same instance, expected violation | see [findings](#where-the-code-and-its-documents-disagree) |
| `access_faults` | three users, two roles, a team, two sessions, a key, an assertion posted again and again, two administrative steps, crashes and restarts (844 k) | an assertion that is valid for longer than the library accepts it opens one session per process (`OneSessionPerAssertion`); the authority of an open session grows only by an administrative step or a start (`AuthorityIsGranted`) |

"Paid for" properties bound a number of effects by the number of faults: `sends <= 1 +
faults` says that retries, replays, transient errors and concurrent workers never repeat a
send by themselves, and that one crash, overrun lease or lost answer costs at most one
more copy. That is the strongest statement a system with external effects can make
("effectively once" in the milestone plans). A recovered panic between the provider's
answer and the first write counts as a fault; everywhere else it is free. In journey delivery the operator's replay of an
intent that a worker holds pays for a copy as well (`retries.leased`): `RetryJourneyMessageIntent` does not look at the status.

## Bounds and why they are enough

* *Two workers, one run/intent or two jobs.* Interference in this code is between
  holders of the same row, and two are enough for every pair of writes; rows of different
  runs do not share state, except by the caps (not checked) and the campaign's count (two jobs).
* *Attempts.* The code's 3 and 10 become 2. Attempts are only compared with the maximum.
* *Slots.* Step ids are drawn from a set large enough that no behaviour of the instance
  runs out of them.
* *Faults.* `MaxFaults = 1` in the delivery, projection, campaign and operations runs: every
  single-fault behaviour, with all non-fault failures unbounded. In `journey_faults`
  crashes and errors are unbounded, because the attempts bound them. `journey_graph` has no errors (`Faults = {}`), which keeps its graph in reach: a
  worker outside `Steady` may stop while it holds a step, and its lease runs out, as after a crash.
* *Waits.* Two wait nodes in a row are the least graph in which a stale read can meet another wait; `journey_faults` has one
  wait, where nothing is ever crossed (`OneWaitNeverCrosses`), so that its properties speak of every run.
* *MaxSeq, MaxJobs, MaxEdits, MaxRetries, MaxCalls* bound sequence numbers, jobs, API edits and
  operator calls. `MaxSeq` can stop the projection model when all numbers are drawn, and
  campaigns and operations simply end, so those three families of runs do not check for deadlock.
* *Batches and pages.* Two batches of a file or an audience (a first one and a later one, since
  errors differ between them), one of a source page; `MaxPage = 1` gives a page and the one that follows.
  Jobs of different kinds share nothing, so each kind is alone; two jobs of one pipeline share the
  keys and the runs. `Replays` are the job ids that replays use, the others are the scheduler's.
* *Clock.* `TimerFires` and `BecomesLate` act only on steps that match their run, since
  `available_at` is read only together with that match; and a step becomes late only while nobody
  holds its lease, since lateness is read at the claim.
* *Publishing.* `MaxVersions = 2` gives a first version and a successor to compare with it; `MaxSessions = 2`
  any pair of requests; three principals, because a request of a third person may come between the two of a pair.
  The theorems lift all three bounds. `MaxProposals` and `MaxRollouts` are 2, one and its repetition.
* *Gateway.* Budgets none and 2, responses of up to 2 cents and a cap of 1 per decision: one response may fill or overrun
  the budget, and a repair may fail where the first answer passed. `MaxSpend = 5` bounds what the provider charges.
* *Extensions.* `Threshold = 2` (5 in the code) is the least for which a count is lost. Two versions are the least for two
  publications that overlap; that one of them *waits* for the other's archived row takes three, and is left to the theorem.
* *Contacts.* Four steps (`MaxSteps`) are enough to link, merge twice and unmerge, or to subscribe, bounce, stop and start;
  three profiles are the least for two merges into one target or a chain.
* *Access.* `MaxChanges = 2` administrative or SCIM steps around any number of sign-ins, expiries, crashes and starts; the
  assertion is valid longer than the library accepts it, since one that ends earlier is
  forgotten too early (see [below](#met-while-modelling-and-not-kept-as-runs)) and the property does not speak of it; a
  `CacheCap` of 2 keeps entries for longer than `IssueDelay`, as the hour of the code does.
* *Deadlock* is also not checked in publishing (versions run out), contacts and access (steps and ids run out).
* *Symmetry* of workers, principals, callers, profiles, ids, users and sessions is used in the runs without liveness.

## Fairness

`FairSpec` of each module with a queue assumes weak fairness of the worker loops (each `cmd/*/main.go`
calls its function again, at once after work and after a short sleep otherwise), of
the clock (leases expire, backoffs pass, timers fire), of the projection of events that were read, of open acceptance transactions
ending, and of the dispatcher loop. The operations worker stops after an hour or a thousand jobs by default and is
started again; that is a worker that pauses. Errors, crashes, panics, overruns, operators, pauses and
quiet hours are never forced, and are bounded only by the constants named above. In `JourneyRuntime` only the workers in
`Steady` are fair, one of two in `journey_graph`, and the clock is fair as a whole: that one process keeps polling is enough. Liveness
properties say under which external conditions they hold: `EveryRunSettles` and
`EveryIntentSettles` assume that the version stays active, the latter also that quiet
hours end.

The modules of requests (`Publishing`, `Experiments`, `Gateway`, `Extensions`, `Contacts`, `Access`) state
no fairness and no liveness: a client may always go away, and nothing polls on its behalf.

## Proofs

Everything below is checked by TLAPS for every value of the constants that satisfies the named
assumptions: any number of runs, workers, recipients, principals, callers, versions, faults, any graph.

| Theorem | Says |
|---|---|
| `JourneyRuntimeProofs!TypeCorrect` | types of the runtime |
| `Inductive` | `IInv`, the inductive invariant |
| `OneWaitNeverCrosses` | on a graph with one wait node no run is ever crossed |
| `NoParticipantLost` | `WorkConserved`: an active or waiting run always has a step, live or parked, at its node |
| `HistoryIsAPath`, `NodesAreLeftOnce` | `HistoryExplainsPosition`; `LeavesEachNodeOnce` |
| `IntentsAreRecorded` | `EffectsMatchHistory`: a message intent for each message node the history has, and for no other; on any graph, for crossed runs too |
| `ClaimsNeverClash` | `ClaimNeverBlocked` |
| `EndedRunsStayPut` | `TerminalIsFinal` |
| `RuntimeImplementsWalk` | `ImplementsWalk`: the runtime refines `JourneyWalk` |
| `JourneyDeliveryProofs!DeliveryTypeCorrect`, `RecordsAreTrue`, `DuplicatesCostFaults` | types; `SentIsTrue`; `DuplicatesArePaidFor` |
| `EventProjectionProofs!ProjectionTypeCorrect`, `NoEventDropped`, `SubjectsInOrder`, `ReapplicationsCostFaults` | types; `DoneIsApplied`; `FirstInOrder`; `ReapplicationsArePaidFor` |
| `CampaignsProofs!CampaignTypeCorrect`, `CampaignRecordsAreTrue`, `CompletedCampaignsAreDecided`, `SendsArePaidForUnderLeases`, `JobTriesAreBounded`, `RecipientCopiesAreBounded` | types; `AttemptsAreTrue`; `CompletedIsDecided`; `SendsArePaidFor` while leases are kept; with overrun leases too, a bound on the claims of a job (`TriesAreBounded`) and on the copies of a message (`CopiesAreBounded`) |
| `OperationsProofs!OperationsTypeCorrect`, `JobsAreNotRepeated`, `ReportsAreTrue`, `EveryRunIsClosed`, `RequestsFollowTheirJobs` | types; `SuccessesArePaidFor`; `AnswersAreTrue`; `RunsAreClosed`; `RequestsAgree` |
| `PublishingProofs!VersionsAreFrozen`, `RepublicationIsIdempotent`, `VersionsAreNumbered`, `ApprovalsAreCountedOnce` | `FrozenContent`; `RepublishAddsNothing`; `NumberedInOrder`; `ApprovalsAreSnapshots`, of `ExperimentsSpec` |
| `GatewayProofs!GatewayTypeCorrect`, `BudgetOverrunIsBounded`, `EveryChargeIsCounted` | types; `OverrunBounded`; `ChargesAreCounted` |
| `WorkspaceProofs!OnlyVerifiedVersionsRun`, `PassedFailuresAreBounded` | `CurrentIsVerified`; `BreakerTrips` |
| `AuthorityOnlyGrowsByGrants`, `AssertionsOpenOneSession` | `AuthorityIsGranted`; `OneSessionPerAssertion` |
| `MergesKeepTheirSnapshots`, `ExternalIdsFindLiveProfiles`, `AdministratorsReopen` | `OpenMergesAreReversible`; `ExternalIdsNameLiveProfiles`; `OnlyAdministratorsReopen` |

*Runtime.* `WorkConserved` is not inductive: a worker may hold a result computed long ago,
or a projector a set of runs read long ago, and apply it now. `IInv`
(`JourneyRuntimeInv`) adds what makes them harmless: a held step is the row that was
claimed and its run is at that node or *past it* (`HeldInv`), a computed result is a legal
move from the held node or cannot be applied any more (`ResultInv`), projectors have read
only runs at wait nodes (`ItemsInv`), runs wait only at wait nodes and timeout steps
belong to them (`RunsInv`, `StepsInv`). "Past" is measured by a rank that grows along the
edges, so the theorems about positions assume `Acyclic`: a journey is "an immutable published DAG" (milestone 3 plan, 25) and drawn in the
"Visual DAG builder" (`README.md`, 54), although the validator does not look for a cycle. Nothing is assumed of the number of wait
nodes. A stale read by a projector is harmless unless the run is waiting somewhere else by then, and that is exactly what `crossed`
records: `IInv` speaks of the runs in `OnPath`, and a step that crosses a run only takes it out of them. A crossed run may have
gone back in rank and come to a node again (the first item [below](#met-while-modelling-and-not-kept-as-runs)), which is
where the argument ends; that it keeps its work is only checked (`CrossedRunsKeepWork`). The
induction shows that a step makes at most a `LegalMove` of each run and a `LegalRow` change
of each step row; the refinement maps a run to its status and node, and a legal move is a
step of `JourneyWalk`.

The history needs one more relation: a computed result says in its record what it will do to the run
(`RecordInv`), and a run is past every node it was recorded to leave (`LeftInv`). A transition is then only added
together with the move it records, from the node the run is at, so the path stays a path, no node is left again,
and an intent comes with its record (`HistoryInv`). For the unique index, `QueueInv` says that no step is ahead of its
run, that a run has one step per node and kind, and, under the policy *run* and before a retry, that a live
step is at its run's place; two live steps of a run would then be the same row.

*Delivery* and *campaigns.* The invariants (`SentInv`; `TruthInv`) add to the
truth of the tables the truth of what workers carry: a copied decision
`provider_sent` or a pc past the provider's answer means that the provider took the
message, a pc past the event means that the event is there. Sends and events only grow, so a stale copy stays true
however old it is. That is why no fencing is needed for truth, and why it is needed
for anything stronger. The campaign proof also carries `InTheLoop`: a worker in the
middle of a recipient has one.

`DuplicatesArePaidFor` is an argument about *chances*. `Chances(i)` is the set of workers whose copy of
intent i still lets them send, and one token more while the decision of the row still lets it be sent and
no worker at work has its lease. The sends so far and the chances together never exceed one more than the faults and the replays of leased rows (`Budget`, `PaidInv`): a
claim moves the row's token to the worker, a failed try moves it back, a send spends it, and a step that makes one out of nothing (a
lease that ends under a worker at work, a crash, a lost answer) is a fault, or the replay of a row that a worker holds. A replay of any other
row makes none: the row's token goes by its decision, which a replay keeps, and not by its status. `ReapplicationsArePaidFor` is the same argument for projection jobs; an event of a company has one more
chance, the call of `applyCompanyEvent`, as long as it has not been made.

`CompletedIsDecided` and `SendsArePaidFor` share `CampaignInv`. `QueueInv` says that jobs are numbered without a gap and, while leases
are kept, that whoever works on a job has its lease. `DispatchInv` says that a campaign nobody edits is dispatched
once, so that a recipient is in one job if no audience has it in two shards. That is `AudiencesDisjoint`, a hypothesis of
`SendsArePaidFor` and not an assumption on the constants: the query that lists
members (`postgres/segments.go:491-505`) returns each once and `dispatch.go` cuts the list into pieces, but a push campaign
may list a device token twice (see *Campaigns* under "Met while modelling").
`DecidedInv` says who still owes a message that is not settled, a job or the worker in front of it; `CloseInv`
that a worker about to close the campaign has seen every other job ended; `SendsInv` is the counting argument again, with at
most one chance for a recipient. Two things came out of these proofs. A campaign scheduled again while it is sent can be
called *completed* with the pending jobs of the second dispatch, if that commits between the counting of jobs
and the commit of `CompleteDeliveryJob` (`postgres/campaigns.go:211-247`), and `CompletedIsDecided` now says so. And one overrun
lease can cost more than one extra copy: the unfenced `FailDeliveryJob` of a worker that lost its lease sets a job
that is being worked on back to pending as often as it has tries left. With two tries (`campaign_faults`), and with the three of the code, TLC finds no
violation of `SendsArePaidFor` for a job that overruns once; the theorem, which is for any number of tries, is about leases
that are kept.

What holds when leases are overrun is proved too. `TriesInv` counts the claims of a job: a claim takes one of the tries, or
follows a lease that a crash or an overrun has left, which is a fault (`Due`); so a job is claimed at most `MaxAttempts + faults` times,
although `ClaimDeliveryJob` does not look at the attempts of an expired lease and a worker
without the lease may set the job back to failed. `CopiesInv` counts the workers that may still send to a recipient: each has the account of
one claim and sends once on it, so what was sent and what may still be sent is within the attempts of the job. Together, a
recipient listed once gets at most `MaxAttempts + faults` copies (`RecipientCopiesAreBounded`). Both invariants were checked with TLC on an instance
with three workers and two faults before they were proved; no run keeps them.

*Projection.* The invariant relates open transactions to the numbers they have drawn
(`TxInv`, `SeqInv`, `BeforeInv`), jobs to the projections that have committed
(`AppliedInv`, `DeadInv`) and holders to their jobs (`HeldInv`, `InlineInv`).
`FirstInOrder` is about events whose acceptance ended before the other's began, the
only pairs for which the code can promise an order.

*Operations.* Two counting arguments and one about truth. For a job that is executed again
(`PaidInv`), the successes so far, plus the workers that hold it and can still succeed, plus one unless
it is done or its lease is with a worker at work, never exceed one more than the faults: a claim turns
the chance into a holder, a success a holder into a success, a failure a holder back into a
chance, and every other way to make a holder or a chance (a lease that ends under a worker at work, a
worker that dies) is a fault. For the runs (`RunsInv`), terminal rows plus open runs
are at most the running rows, and these at most both plus the faults. For
the reports (`AnswersInv`), what a worker has noted as imported was accepted, and what it is about
to complete has its result; accepted events and kept results only grow, so the report of a stale
worker is still true. For `RequestsAgree`, which is about behaviours without faults, `AgreeInv` says that a worker holds
the lease of its job, hence no two workers one job, that what it has written to the request is what its place in the
code implies (`Standing`), and that the request of a job nobody holds is settled with it.

*Publishing.* `PInv` says of the four kinds that freeze documents: the row is a row (`RowInv`); the versions are
numbered 1 to some n, and the row points at n (`NumberedTo`); every request in progress that has uploaded
has its document in the blob store (`SessionInv`), which an edit cannot take back, since blobs are only added. A
step is then one of two: it edits and adds no version (`EditsKeep`), or it adds version n + 1 with a document that is in
the store, or that a rollout pinned, and that differs from version n where the kind promises it (`AdditionsKeep`).
That the comparison with the *current* version is enough for neighbours to differ is where the numbering enters. The
theorems are about `ExperimentsSpec`, so rollouts are among the steps. `Approvals` says of proposals and snapshots that each snapshot names an approved proposal,
each approved proposal has one and no two snapshots name the same.

*Gateway.* For
`OverrunBounded` every step is shown to be quiet (what is counted plus `MaxCost` for each call on its way does not
grow), counted (a call on its way becomes a cost of at most `MaxCost`) or admitted (a check that saw
the usage below a budget sets one more call on its way); the bound for the admitted case comes from
the cardinality of the callers that are *not* yet on their way. For `ChargesAreCounted`, `ChargesInv` sets one fault aside for
each *doomed* response, one whose context has ended and whose count will therefore fail; a step of a caller then balances
(a response is charged and in hand, or the one in hand is counted), expires (and pays for the response it dooms) or
loses a response (and takes the fault that was set aside, or one of its own). The sum of what is in hand is the
cardinality of a set of cents, which the library's facts about finite sets can count.

*Extensions.* `VInv` splits `CurrentIsVerified` into its parts and adds the shape of the tables (versions
are numbered from 1 to their count, and the current version is one of them) and what the open publications have: each has its own row locked,
archives none of those and, once its UPDATE ran, has the rows it archives to itself. The current version was made active by the last
commit, and a transaction that archives it makes its own version the current one. `BreakerTrips` is counted in *tickets*: each caller has one for
each failure that can still follow from the copy of the health row it holds, or from the row if it reads it, and failures so far
plus tickets never exceed the bound (`BreakerInv`). A failure through a closed breaker gives up `1 + Wasted[k]` tickets of its caller,
and the row it writes gives each of the callers `1 + Wasted[k - 1]`, which is one less in all: that is the equation of
`Wasted`. That the recursive definition has a solution is proved by the least counterexample
(`LeastNat`, from the library's well-foundedness of the naturals), which needs no theorem with an operator parameter.

*Access.* `AuthorityIsGranted` is about one step, and needs little of the state (`SessionInv`): the steps that are no
recorded change either sign in, which writes a row of `user_sessions` that was not there, or end a session, or leave users,
roles, teams and sessions alone (`UseOfSessions`), and what a live session may do is computed from these only. For
`OneSessionPerAssertion` the invariant is about time. An assertion that was *taken* (it has opened a session, or a
POST has passed the check with it and has yet to open one) is *remembered*: the clock is past the moment at which the library
stops to accept it, or the cache has an entry that ends after that moment (`TakenInv`). The entry is made
before the session is (`checkSAMLReplay` runs under the mutex, `UpsertSAMLUserAndCreateSession` later), so a second POST of the same
assertion is refused by the library or by the cache, and each assertion is with one POST or in one session (`OnceInv`). This
needs `IssueDelay < CacheCap` (`TimesAssumption`), 90 seconds against an hour in the code, and an assertion
that is valid longer than `IssueDelay`, since its own end also ends the entry: the property says so. A crash forgets cache and
POSTs together.

*Contacts.* `DbInv` relates the tables that merges touch: an external id is that of a row in use, and a row that is not
there was not merged (`RowsInv`); a blob is the snapshot of the profile its name ends with, taken while that was in use
(`BlobsInv`); a merge names such a blob, and an open one has its source as tombstone and no rival (`MergesInv`). The
argument is that only profiles in use are ever merged, so that a merge never touches the source of an open one. For
`identity.merge` the source has an external id, and `RowsInv` says that it is in use, so the two properties of
profiles need each other. For `resolveIdentity` the candidates are in use when they are read, each merge changes the
rows of its two profiles only (`Merges`), and the candidates differ, so each is still in use at its turn
(`MergeInOrderKeeps`, an induction over their number with `LeastNat`, after a proof that the recursive function has a solution). An unmerge
restores the snapshot of the one profile no other open merge is about. The same lemmas say of each operator what it does to the
suppressions: only `Reopened` removes one, an unsubscription. Webhooks of text messages are refused (`ApplicationAssumption`),
so they change nothing; with the application accepted, `ChangeConsentKeeps` would cover them too.

Checked by TLC only: `CrossedRunsKeepWork`; liveness (`EveryRunSettles`, `EveryIntentSettles`, `EveryEventSettles`,
`EveryJobSettles`), which is out of the prover's reach; and `SendsArePaidFor` after an overrun lease, which depends on the
number of tries (`RecipientCopiesAreBounded` is the bound proved for that case).

## Where the code and its documents disagree

### Shown by a run that ends in a violation

| Run | Property | What happens |
|---|---|---|
| `contact_stop` | `StopBlocksTheNextSend` | The SMS webhook submits the `consent.changed` event of a STOP under the application `"system"` (`internal/httpapi/callbacks.go:637`); `accepted_events.app_id` is a uuid that references `applications` (migration 001, line 46), so `AcceptEvents` fails, the webhook answers 500 and neither the consent ledger nor the suppressions change: the next message passes the policy gate. Milestone 5 plan, line 466: "A STOP must create a suppression before the next send" |

### Met while modelling, and not kept as runs

The passing properties are worded so that these are visible exceptions (a fault to
pay for, a stranded row, a recipient with a failed call), not hidden ones.

*Journeys*

* `resolveWaitingRuns` reads the waiting runs with their node and later updates each one by id and
  `status = 'waiting'` alone (`internal/postgres/journey_runtime.go:904`). If in between the timeout moves the run to a
  second wait node, the success branch of the *first* node is applied to it: both branches of one wait are taken (milestone 3
  plan, 659: "exactly one branch taken"). `journey_graph` has such a graph. The crossed run is then at a node the graph did not lead it to from
  where it was, its history no longer is a path, and it may come to a node again; the timeout step of the second wait is completed in the same
  transaction, so the run goes on from its new place (`CrossedRunsKeepWork`). The properties that follow a run along the graph exempt
  it. With one wait it cannot happen (`OneWaitNeverCrosses`).
* An operator's retry of an old step of a run reopens a row that no claim may take while the unique
  index has another live step of the run: with a retry allowed, `EveryRunSettles` is refuted and claims are blocked.
  `ClaimNeverBlocked` speaks of the time before, and `journey_graph` has no retry.
* `RescheduleJourneyStep` (`postgres/journey_runtime.go:275`) is not fenced by owner or
  status: a worker that outlived its lease revives a completed step, after which the claim
  of the run's failed step breaks the unique index of live steps and the queue's head
  cannot be taken. `ClaimNeverBlocked` is therefore checked under the policy *run*,
  where no step is rescheduled.
* An action node passes a principal without an application to `AcceptEvents`
  (`internal/journey/nodes.go:525`); the insert is refused every time, after the profile update has
  committed, and the participant ends as a dead letter at that node (milestone 3 plan, 381). The unit test uses a
  mock store that does not look at the application. `EveryRunSettles` counts the dead letter as an end.

*Journey delivery*

* `message.sent` has a stable key and a fresh `occurred_at` (`internal/journey/deliver.go:545`). Once it is committed
  and the row is not yet marked sent, each reconciliation is answered with an idempotency conflict
  (`postgres/store.go:279-283`), and the intent is dead although its event is published.
* A load error while an intent in `provider_sent` is reconciled overwrites that decision
  (`internal/journey/deliver.go:96`), so its event is never published (milestone 4 plan,
  346-350).
* Intents can be stranded: failed, or pending, with their attempts used up, and so
  neither claimable nor dead (`deliver.go:98`, `postgres/journey_runtime.go:959`; milestone 3
  plan, 608-610 and 630-632). `EveryIntentSettles` counts them among the ends.
* A replay keeps the decision (`postgres/journey_runtime.go:1085`): a dead letter with
  `send_failed` is drained and not sent again (milestone 3 plan, 633-635).
  The replay of an intent that a worker holds (`:1084-1092` and `httpapi/journeys.go:218-220` ask for no status; `GetJourneyDLQ` lists
  dead letters, but a second click comes later) makes it claimable at once, and the message is sent twice without any fault. An intent that was held out is not among
  the decisions that `DeliverNext` drains (`deliver.go:229-241`): replayed, it is sent.
* The in-flight cap is a subquery on the claim's snapshot (`:961`) and the fatigue count
  (`postgres/delivery.go:106`) sees only recorded decisions: concurrent workers pass both
  (milestone 3 plan, 618; milestone 11 plan, 507).
* `DeliverNext` never looks at the status of the run (`deliver.go:35`): the pending messages of a canceled run are sent.

*Projection*

* A projector that outlived its lease applies an older event after a newer one
  (`postgres/store.go:797`; milestone 3 plan, 447). `FirstInOrder` is about first
  applications, and `ReapplicationsArePaidFor` says that a repetition takes a fault.
* `applyCompanyEvent` projects its event beside the queue (`postgres/companies.go:51`), in
  front of earlier unfinished events of the company.
* The event of a company edit has the key `company.updated:<id>` and a fresh `occurred_at`
  (`postgres/companies.go:29`): the second edit of a company is always a conflict (milestone 8 plan, 76).
* Expired leases are reclaimed whatever the attempts (`postgres/store.go:432`): an event that kills its projector is
  taken again for ever. Crashes are faults, and the run has one.

*Campaigns*

* Write skew: the last two jobs of a campaign end in overlapping transactions, each counts the other as active, and
  nobody closes the campaign (`internal/postgres/campaigns.go:225`; milestone 2 plan, 612).
* A campaign without recipients has no job whose end could close it, and a dispatcher that
  dies before the manifest leaves it `building`; neither is ever claimed again
  (`postgres/campaigns.go:129`).
* A policy, profile or render failure while a recipient in `provider_sent` is gone on with
  overwrites that fact (`internal/campaigns/deliver.go:242`, `:263`). An error of the event
  leaves it at `provider_sent` while the job completes (`:415`). `CompletedIsDecided` excuses
  both.
* A campaign that is scheduled again while its last job ends may be called completed although the jobs of
  the second dispatch are pending: the count and the update of the campaign are two statements, and the manifest of the other dispatch
  commits in between (`postgres/campaigns.go:211-247`).
* Workers do not look at the campaign's status: the jobs of a paused campaign are delivered
  (milestone 2 plan, 585), and one that the API schedules again while it is sending is
  dispatched again.
* The event key of a campaign message names the profile and not the token
  (`internal/campaigns/deliver.go:409`): the second device of a profile is sent to, but its event is a
  conflict and it stays `provider_sent` (milestone 5 plan, 475: "the key includes the token").
* Device tokens are unique for an application and not for a workspace (migration 023, line 16), and
  `ListActiveDeviceTokens` (`postgres/device_tokens.go:54`) returns one row for each application: a profile that
  registered one token with two of them is listed twice (`internal/campaigns/dispatch.go:96`). In one shard the second entry finds
  the decision of the first; on both sides of a shard boundary two workers may send at the same time, without a fault.

*Operations*

* A finished privacy request is given the status `complete` (`internal/postgres/operations.go:174`, `:281`), which the
  constraint of migration 060 (lines 18-19) does not admit (`completed` it does): every export and every erasure is rolled back,
  ten times, and fails. The action `AnswerRefused` is that refusal.
* The scheduler skips a pipeline that has a run of status `running` (`internal/postgres/connectors.go:236`), and runs
  are append-only: the terminal status is another row, so a pipeline runs once and never again (migration 045; milestone 10 plan, 373:
  "Leased scheduler (recurring runs)").
* The event of a source row has a key made of the cursor and the current time as `occurred_at`
  (`internal/operations/operations.go:701`): a page that is read again is a conflict and not a duplicate
  (milestone 10 plan, 66-68: "re-runs dedup"). `Acceptable` is that rule.
* A run records the cursor that *follows* its page (`operations.go:622`), so the replay of a failed run reads the
  next page and not the one that failed (comment at `postgres/connectors.go:118`). The scheduler passes no
  cursor at all and reads a source from its start.
* Rejecting a verified request leaves its job in the queue (`postgres/admin.go:367`), and a job that
  dies writes `failed` over `rejected` (milestone 17 plan, 372-373: "a rejected request is terminal").
  `RequestsAgree` allows both.
* The request and the job of an import are two statements without a transaction
  (`postgres/admin.go:394`, `:400`): a crash between them leaves a request that is never worked on.
* A run whose terminal row cannot be written turns a terminal error into one that is retried
  (`operations.go:98-100`).
* If the constraint admitted `complete`, an erasure whose blobs cannot be deleted would be retried against the
  key of its own tombstone (`postgres/operations.go:267`) and never end.

*Publishing and experiments*

* `CheckMakerChecker` looks up makers under the plural type the publishers pass ("journeys"), and they are audited under the
  singular one (`postgres/maker_checker.go:118`). The set of makers is always empty, which refuses: with the policy
  on, nobody can publish, while the milestone 17 plan (343) has a distinct approver pass (`maker_checker_integration_test.go:103` gets there
  by writing the plural rows by hand). That a maker never passes is therefore true and says nothing, and no run keeps it.
* `publishFeatureFlag` passes an empty manifest key, which the store refuses: a flag is never published that way.
* The append-only triggers of migration 063 refuse every UPDATE of a prompt or scoring version, so
  evaluation results and publications of these are lost; only versions *created* active are. `UpdatePrompt`
  writes `latest_version` from the client, after which creating a version may meet its own number.
* `UpdateTemplate` counts its version from an unlocked read, `setFlagStatus` writes the whole flag back, a journey's
  status and a pipeline's `enabled` can be set by the client that creates them.
* A rollout does not look at the experiment's status: a retry schedules a second campaign
  (`postgres/experiments.go:403-434`). A rolled out journey version has no manifest and asks no checker, and the draft
  keeps the experiment, so the next publication undoes the rollout.
* The report, a GET, writes the winner back, and the winner may be the holdout; a winner whose variant is gone by
  the approval gives a snapshot that serves nobody; two proposals of one winner can be made at once.
* Not in the model: `ApproveExperimentOptimization` lists variants on the pool while it holds a transaction; the loser of a
  concurrent first assignment gets `ErrNotFound`.

*AI gateway*

* A valid first answer is recorded before it is counted and returned uncounted when the record fails; the comment at
  `internal/ai/gateway.go:136-137` that every decision is recorded does not hold once the context has ended.
  `ChargesAreCounted` has the faults for both.
* No caller passes classifications, so retrieved data are always fully masked; `RetrieveProfile`, `Embed` and `Moderate`
  have no callers outside tests.

*Extensions*

* `installExtension` creates a new extension each time and publishes in a later transaction: a failed publication leaves the name
  taken. A remote extension needs its configuration before it is published, which the install route cannot give; the
  route passes no `wasm_blob_key`.
* A publication locks the version it publishes and no other row, and no partial index allows one active version only
  (`postgres/extensions.go:314`, `:391`; migration 041): two that overlap each archive what they found, and leave two active versions. The host
  goes by `current_version_id`, so it runs the one that committed last. `CurrentIsVerified` says so.
* An error of `UpdateExtensionHealth` is only logged (`internal/extension/host.go:161`, `:273`, `:284`), and it runs on the caller's context: when
  the deadline of a journey node (`internal/journey/nodes.go:390`) is shorter than the timeout of the extension, that is over by then, the
  failure is never counted and the breaker never opens. `BreakerTrips` bounds the failures that were recorded.
* Rows of refused calls count in the rate window, costs are recorded as 0, so the budget never refuses, and the host does
  not look at the status of a version.
* A failure that read the health row while it was closed writes it back closed after others have opened it: `BreakerTrips`
  is the bound that is left.

*Contacts*

* All SMS and push webhooks name the application `"system"` (`internal/httpapi/callbacks.go:568`, `:637`, `:732`), SES ones without the
  header the application `"default"`, whose refusal is only logged; `reportMessageEngagement` has a principal without a
  workspace. None of them records anything. Redelivered callbacks have a stable key and a fresh time: a conflict.
* A contact that is linked by an anonymous id whose row already exists violates the unique index
  (`postgres/store.go:912-917`), as does the return of an anonymous visitor whose id a tombstone kept (`:928`, `:944`) and an unmerge
  whose ids were taken meanwhile (`:850`): the event is a dead letter. Two people behind one browser become one
  (`:904`).
* A bounce that comes after an unsubscription is not recorded over it, and a START then reopens the endpoint (`:625`).
  `OnlyAdministratorsReopen` is about what the suppression says.
* The endpoint a consent suppresses is the one the profile has at projection (`:560-575`); a form dates its consent at the expiry of
  its token, minutes ahead, so that a STOP in between is older than the form.
* `handlePushCallback` retires the token in the first application only, `syncDeviceTokens` retires a token that has
  moved to another profile (`device_tokens.go:115`), in-app messages stay with the tombstone of a merge, and
  `ExpireInAppMessages` has no caller.

*Access*

* A disabled user's sessions are masked and not revoked: re-enabling (SCIM `active`, or a start for the administrator)
  revives them. API keys outlive their user. No route removes a role binding.
* A SCIM PATCH of a user is a PUT: without `active` it disables, without an email it blanks. A user SCIM made cannot
  sign in. After SCIM renames the administrator, `EnsureLocalAdmin` meets the index and the API exits
  at its start (`postgres/rbac.go:320`).
* The first SAML login of an unknown NameID fails, because the session is inserted outside the transaction that
  inserts its user (`postgres/saml.go:163`); `GetSCIMGroup` uses one parameter with two types (`postgres/scim.go:181`); `scim_tokens` has
  no writer.
* The replay cache is in memory and per process (milestone 18 plan, 139): a restart, or a second API process, accepts an
  assertion again. `OneSessionPerAssertion` is per process. An entry also ends at the assertion's own `NotOnOrAfter`
  (`internal/httpapi/saml.go:254-260`), while the library accepts it for its skew longer: one that ends before its issue delay can be posted twice in that
  time, and the property leaves such assertions out.

*Outbox* (read, not modelled)

* `CompleteOutboxEvent` and `FailOutboxEvent` are not fenced (`postgres/outbox.go:68`): a late failure publishes an event
  again. The relay redelivers to earlier pipelines when a later one fails.

## What is not modelled

Within the modelled components: the contents of messages, profiles, manifests and events;
the expression that a branch evaluates (a free choice of a labelled edge); clock arithmetic,
including time zones and windows across midnight; lists, timelines and other queries; the audit
log, except where a check reads it; metrics. A push message that fans out to several intents under one event
key is modelled in campaigns and not in journey delivery. Run instances are independent in
the code, so most instances have one run.

Not modelled for good:

* channel adapters, rendering, archive, stream and analytics, which are I/O with external
  systems: their outcomes are choices of the models that call them;
* token, assertion and webhook signatures, which are cryptography and parsing: valid or not;
* the statistics of experiments and the score expressions, which are floating-point
  arithmetic, out of TLC's reach;
* the segment compiler, whose meaning is that of two databases;
* redaction, which is string processing; the WebAssembly runtime of extensions, which is third-party;
* short links and catalogs, which are records and lookups; `internal/replay`, which
  is a read-only reconstruction; the JavaScript SDK, the web console, telemetry, configuration and tooling.

Not modelled yet: the plan below. `PROJECT.json` lists each component with its status.

## Plan

Done: the journey runtime and its refinement, journey delivery, acceptance and projection, campaigns, the
operations queue with the scheduler, publishing with experiments, the AI gateway, extensions, contacts, access. Left,
in this order:

1. `Outbox`: `ClaimOutboxEvent`, publish, `CompleteOutboxEvent`, `FailOutboxEvent` and the
   export relay behind it. Every accepted event is published, again only for a fault.
2. `JourneyEnrollment`: re-entry policies under concurrent enrolment by event, schedule,
   segment and backfill. It feeds the `Init` of `JourneyRuntime`.
3. `JourneySystem`: `JourneyRuntime` and `JourneyDelivery` composed over the intents table:
   messages of canceled runs, `message.sent` as an awaited event.
4. `JourneyDelivery` with several intents: the in-flight cap (`postgres/journey_runtime.go:961`), the fatigue cap
   (`postgres/delivery.go:106`), the shared key of a fan-out.
5. Pure operators against reference definitions: graph validation of node configurations,
   quiet hours, flag targeting and rollout, sticky assignment.

Abstract specifications worth stating beside `JourneyWalk`: *at most once for each fault*
delivery, shared by journey delivery, campaigns and the outbox; an ordered log for each
subject, which projection implements as long as no lease runs out; and an append-only list of
versions, which publishing implements.

Theorems. The refinement of the abstract specifications above,
for which `PaidInv` of delivery and projection is already the mapping.
