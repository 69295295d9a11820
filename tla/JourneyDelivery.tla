--------------------------- MODULE JourneyDelivery --------------------------
(***************************************************************************)
(* Delivery of journey messages: the rows of journey_message_intents, the  *)
(* workers that run DeliverNext on them, the channel provider and the      *)
(* message.sent events.                                                    *)
(*                                                                         *)
(* A worker copies the row when it claims it and writes the whole row back *)
(* by id, whoever holds it by then.  The resume-by-decision state machine  *)
(* (decision = provider_sent, sent, ...) is what keeps a message from      *)
(* being sent again.  All intents are of one tenant and one profile.       *)
(***************************************************************************)
EXTENDS Naturals, FiniteSets

CONSTANTS
    Intent,         \* journey_message_intents rows that may be created
    Transactional,  \* those of a transactional message node
    Push,           \* those of the push channel
    Worker,         \* delivery workers
    NoWorker,       \* locked_until IS NULL or in the past
    MaxAttempts,    \* 3 in the code
    InFlightCap,    \* 10 in the code
    MaxSends,       \* the fatigue cap of the tenant; 0 is no cap
    Failures,       \* which calls may fail: see FailureKinds
    MaxFaults,      \* bound on crashes, overrun leases, lost writes
    MaxRetries      \* bound on operator replays

FailureKinds == {"load", "panic", "emit"}

Status == {"none", "pending", "processing", "completed", "failed", "dead"}
Decision == {"none", "sent", "suppressed", "no_consent", "fatigued",
             "render_failed", "send_failed", "failed", "holdout",
             "provider_sent", "retryable_failed"}
\* The decisions DeliverNext takes for final: the intent is only drained.
Drained == {"sent", "suppressed", "no_consent", "fatigued", "render_failed",
            "send_failed", "failed"}

ASSUME DeliveryAssumption ==
    /\ Transactional \subseteq Intent
    /\ Push \subseteq Intent
    /\ NoWorker \notin Worker
    /\ MaxAttempts \in Nat \ {0}
    /\ InFlightCap \in Nat \ {0}
    /\ MaxSends \in Nat
    /\ Failures \subseteq FailureKinds
    /\ MaxFaults \in Nat
    /\ MaxRetries \in Nat

VARIABLES
    rows,           \* journey_message_intents
    sends,          \* how often the provider has accepted the message
    events,         \* intents whose message.sent event was accepted
    workers,        \* the local state of DeliverNext
    versionActive,  \* journey_versions.status = 'active'
    quiet,          \* the recipient is in quiet hours
    faults,         \* crashes, overrun leases and lost answers so far
    retries         \* operator replays so far, of leased rows and of others

vars == <<rows, sends, events, workers, versionActive, quiet, faults, retries>>

\* lease: the worker whose claim set locked_until, while that is ahead.  It
\* is only read on processing rows.
Row == [status : Status, attempts : Nat, due : BOOLEAN, decision : Decision,
        lease : Worker \cup {NoWorker}]
NoRow == [status |-> "none", attempts |-> 0, due |-> FALSE,
          decision |-> "none", lease |-> NoWorker]

Replays == [leased : Nat, others : Nat]

PC == {"idle", "claiming", "claimed", "sending", "saving", "emitting",
       "writing"}
Holding == PC \ {"idle", "claiming"}
\* row: the worker's copy; fresh: its lease has not run out;
\* seen: what the claim's SELECT has read.
WorkerState == [pc : Holding, intent : Intent, row : Row, fresh : BOOLEAN]
ClaimingState == [pc : {"claiming"}, seen : SUBSET Intent]
IdleWorker == [pc |-> "idle"]

TypeOK ==
    /\ rows \in [Intent -> Row]
    /\ sends \in [Intent -> Nat]
    /\ events \subseteq Intent
    /\ workers \in [Worker -> WorkerState \cup ClaimingState \cup {IdleWorker}]
    /\ versionActive \in BOOLEAN
    /\ quiet \in BOOLEAN
    /\ faults \in Nat
    /\ retries \in Replays

Init ==
    /\ rows = [i \in Intent |-> NoRow]
    /\ sends = [i \in Intent |-> 0]
    /\ events = {}
    /\ workers = [w \in Worker |-> IdleWorker]
    /\ versionActive = TRUE
    /\ quiet = FALSE
    /\ faults = 0
    /\ retries = [leased |-> 0, others |-> 0]

-----------------------------------------------------------------------------
\* AdvanceRunTx inserts the intent of a message node; an experiment holdout
\* is inserted completed.
CreateIntent(i, holdout) ==
    /\ rows[i].status = "none"
    /\ rows' = [rows EXCEPT ![i] =
          IF holdout
          THEN [NoRow EXCEPT !.status = "completed", !.decision = "holdout"]
          ELSE [NoRow EXCEPT !.status = "pending", !.due = TRUE]]
    /\ UNCHANGED <<sends, events, workers, versionActive, quiet, faults,
                    retries>>

\* Mutant: expired leases are never reclaimed.
ClaimableNoReclaim(i) ==
    /\ versionActive
    /\ rows[i].status \in {"pending", "failed"}
    /\ rows[i].attempts < MaxAttempts /\ rows[i].due

Claimable(i) ==
    /\ versionActive
    /\ \/ /\ rows[i].status \in {"pending", "failed"}
          /\ rows[i].attempts < MaxAttempts /\ rows[i].due
       \/ rows[i].status = "processing" /\ rows[i].lease = NoWorker

InFlight == {i \in Intent : /\ rows[i].status = "processing"
                            /\ rows[i].lease # NoWorker}

\* ClaimJourneyMessageIntent is one statement, but the count of leased rows
\* is taken from its snapshot and only the row it locks is checked again.
ReadQueue(w) ==
    LET seen == {i \in Intent : Claimable(i)}
    IN  /\ workers[w].pc = "idle"
        /\ seen # {}
        /\ Cardinality(InFlight) < InFlightCap
        /\ workers' = [workers EXCEPT ![w] =
                         [pc |-> "claiming", seen |-> seen]]
        /\ UNCHANGED <<rows, sends, events, versionActive, quiet, faults,
                        retries>>

ClaimedRow(w, row) == [row EXCEPT !.status = "processing", !.lease = w,
                                  !.attempts = row.attempts + 1]

\* Transactional intents first, then by available_at (any order here).
ClaimJourneyMessageIntent(w, i) ==
    /\ workers[w].pc = "claiming"
    /\ i \in workers[w].seen
    /\ Claimable(i)
    /\ \A j \in workers[w].seen \cap Transactional :
          Claimable(j) => i \in Transactional
    /\ rows' = [rows EXCEPT ![i] = ClaimedRow(w, @)]
    /\ workers' = [workers EXCEPT ![w] =
          [pc |-> "claimed", intent |-> i, row |-> ClaimedRow(w, rows[i]),
           fresh |-> TRUE]]
    /\ UNCHANGED <<sends, events, versionActive, quiet, faults, retries>>

ClaimNothing(w) ==
    /\ workers[w].pc = "claiming"
    /\ \A i \in workers[w].seen : ~Claimable(i)
    /\ workers' = [workers EXCEPT ![w] = IdleWorker]
    /\ UNCHANGED <<rows, sends, events, versionActive, quiet, faults, retries>>

-----------------------------------------------------------------------------
(***************************************************************************)
(* DeliverNext between the claim and the row it writes back.               *)
(***************************************************************************)
Held(w) == workers[w].row

\* The worker goes on to pc with its copy of the row changed to st and d.
Goes(w, pc, st, d) ==
    workers' = [workers EXCEPT ![w].pc = pc, ![w].row.status = st,
                               ![w].row.decision = d]

\* Status after a failure that counts attempts.
FailedOr(w, st) == IF Held(w).attempts >= MaxAttempts THEN "dead" ELSE st

Reads == <<rows, sends, events, versionActive, quiet, faults, retries>>

\* The app, template, tokens, sending identity or profile cannot be read.
LoadFails(w) ==
    /\ "load" \in Failures
    /\ workers[w].pc = "claimed"
    /\ \E d \in {"failed", "render_failed"} : Goes(w, "writing", "failed", d)
    /\ UNCHANGED Reads

\* The device token of a push intent is no longer active.
TokenInactive(w) ==
    /\ workers[w].pc = "claimed"
    /\ workers[w].intent \in Push
    /\ Goes(w, "writing", "completed", "failed")
    /\ UNCHANGED Reads

Drain(w) ==
    /\ workers[w].pc = "claimed"
    /\ Held(w).decision \in Drained
    /\ Goes(w, "writing", "completed", Held(w).decision)
    /\ UNCHANGED Reads

\* The provider has it already: only the event is missing.
Reconcile(w) ==
    /\ workers[w].pc = "claimed"
    /\ Held(w).decision = "provider_sent"
    /\ Goes(w, "emitting", Held(w).status, "provider_sent")
    /\ UNCHANGED Reads

\* Mutant: a message the provider already has is decided on again.
UndecidedSent(w) == /\ workers[w].pc = "claimed"
                    /\ Held(w).decision \notin Drained

Undecided(w) == /\ workers[w].pc = "claimed"
                /\ Held(w).decision \notin Drained \cup {"provider_sent"}

IsTransactional(w) == workers[w].intent \in Transactional

\* Back to the queue until the window opens; the attempt is given back.
DeferQuiet(w) ==
    /\ Undecided(w)
    /\ ~IsTransactional(w)
    /\ quiet
    /\ workers' = [workers EXCEPT
          ![w].pc = "writing", ![w].row.status = "pending",
          ![w].row.due = FALSE,
          ![w].row.attempts = IF @ > 0 THEN @ - 1 ELSE @]
    /\ UNCHANGED Reads

\* Quiet hours that cannot be read count as open.
PastQuietHours(w) ==
    Undecided(w) /\ (quiet => IsTransactional(w) \/ "load" \in Failures)

\* SentCountSince counts the rows whose decision is 'sent'.
SentCount == Cardinality({i \in Intent : rows[i].decision = "sent"})

\* policy.Evaluate: suppression, then consent and fatigue for marketing.
Verdicts(w) ==
    {"suppressed", "send_failed"} \cup
    (IF IsTransactional(w) THEN {"sent"}
     ELSE {"no_consent", IF MaxSends > 0 /\ SentCount >= MaxSends
                         THEN "fatigued" ELSE "sent"})

Reject(w) ==
    /\ PastQuietHours(w)
    /\ \E d \in Verdicts(w) \ {"sent"} : Goes(w, "writing", "completed", d)
    /\ UNCHANGED Reads

RenderFails(w) ==
    /\ PastQuietHours(w)
    /\ "sent" \in Verdicts(w)
    /\ Goes(w, "writing", "completed", "render_failed")
    /\ UNCHANGED Reads

Eligible(w) ==
    /\ PastQuietHours(w)
    /\ "sent" \in Verdicts(w)
    /\ Goes(w, "sending", Held(w).status, Held(w).decision)
    /\ UNCHANGED Reads

-----------------------------------------------------------------------------
(***************************************************************************)
(* The provider, the event and the row.                                    *)
(***************************************************************************)

SendAccepted(w) ==
    /\ workers[w].pc = "sending"
    /\ sends' = [sends EXCEPT ![workers[w].intent] = @ + 1]
    /\ Goes(w, "saving", Held(w).status, "provider_sent")
    /\ UNCHANGED <<rows, events, versionActive, quiet, faults, retries>>

\* A retryable error; with a lost answer the provider did accept it.
SendRetryable(w, lost) ==
    LET st == FailedOr(w, "failed")
    IN  /\ workers[w].pc = "sending"
        /\ IF lost
           THEN /\ faults < MaxFaults /\ faults' = faults + 1
                /\ sends' = [sends EXCEPT ![workers[w].intent] = @ + 1]
           ELSE UNCHANGED <<faults, sends>>
        /\ Goes(w, "writing", st,
                IF st = "dead" THEN "send_failed" ELSE "retryable_failed")
        /\ UNCHANGED <<rows, events, versionActive, quiet, retries>>

\* A permanent error, or a push token the provider no longer knows.
SendRejected(w) ==
    /\ workers[w].pc = "sending"
    /\ \E d \in IF workers[w].intent \in Push THEN {"send_failed", "failed"}
                                             ELSE {"send_failed"} :
          Goes(w, "writing", "completed", d)
    /\ UNCHANGED Reads

\* UpdateJourneyMessageIntent: the whole row, by id, with the lease of the
\* claim it was read by.
WrittenRow(w) ==
    [Held(w) EXCEPT !.lease = IF /\ workers[w].fresh
                                 /\ Held(w).status = "processing"
                              THEN w ELSE NoWorker]

SaveProviderSent(w) ==
    /\ workers[w].pc = "saving"
    /\ rows' = [rows EXCEPT ![workers[w].intent] = WrittenRow(w)]
    /\ workers' = [workers EXCEPT ![w].pc = "emitting"]
    /\ UNCHANGED <<sends, events, versionActive, quiet, faults, retries>>

AcceptEvent(w) ==
    /\ workers[w].pc = "emitting"
    /\ workers[w].intent \notin events
    /\ events' = events \cup {workers[w].intent}
    /\ Goes(w, "writing", "completed", "sent")
    /\ UNCHANGED <<rows, sends, versionActive, quiet, faults, retries>>

\* The event is there already: its key is that of the intent, but the second
\* one carries a later occurred_at, which AcceptEvents takes for a conflict.
EmitRefused(w) ==
    /\ workers[w].pc = "emitting"
    /\ workers[w].intent \in events
    /\ Goes(w, "writing", FailedOr(w, "pending"), "provider_sent")
    /\ UNCHANGED Reads

\* Mutant: the sent decision is written although the emission failed.
EmitFailsSent(w) ==
    /\ "emit" \in Failures
    /\ workers[w].pc = "emitting"
    /\ Goes(w, "writing", "completed", "sent")
    /\ UNCHANGED Reads

\* AcceptEvents fails; it may have committed all the same.
EmitFails(w) ==
    /\ "emit" \in Failures
    /\ workers[w].pc = "emitting"
    /\ events' \in {events, events \cup {workers[w].intent}}
    /\ Goes(w, "writing", FailedOr(w, "pending"), "provider_sent")
    /\ UNCHANGED <<rows, sends, versionActive, quiet, faults, retries>>

UpdateJourneyMessageIntent(w) ==
    /\ workers[w].pc = "writing"
    /\ rows' = [rows EXCEPT ![workers[w].intent] = WrittenRow(w)]
    /\ workers' = [workers EXCEPT ![w] = IdleWorker]
    /\ UNCHANGED <<sends, events, versionActive, quiet, faults, retries>>

\* A recovered panic.
Panic(w) ==
    /\ "panic" \in Failures
    /\ workers[w].pc \in Holding \ {"writing"}
    /\ Goes(w, "writing", FailedOr(w, "failed"), "failed")
    /\ UNCHANGED Reads

\* The process dies, or the update of the row is lost.
Crash(w) ==
    /\ faults < MaxFaults
    /\ workers[w].pc \in Holding
    /\ workers' = [workers EXCEPT ![w] = IdleWorker]
    /\ faults' = faults + 1
    /\ UNCHANGED <<rows, sends, events, versionActive, quiet, retries>>

-----------------------------------------------------------------------------
(***************************************************************************)
(* Operators and the clock.                                                *)
(***************************************************************************)

\* A worker works longer than its lease of five minutes.
Overrun(w) ==
    /\ faults < MaxFaults
    /\ workers[w].pc \in Holding
    /\ workers[w].fresh
    /\ workers' = [workers EXCEPT ![w].fresh = FALSE]
    /\ rows' = [rows EXCEPT ![workers[w].intent].lease =
                   IF @ = w THEN NoWorker ELSE @]
    /\ faults' = faults + 1
    /\ UNCHANGED <<sends, events, versionActive, quiet, retries>>

\* The lease left behind by a worker that no longer works on the row.
LeaseExpires(i) ==
    LET w == rows[i].lease
    IN  /\ w # NoWorker
        /\ ~(workers[w].pc \in Holding /\ workers[w].intent = i)
        /\ rows' = [rows EXCEPT ![i].lease = NoWorker]
        /\ UNCHANGED <<sends, events, workers, versionActive, quiet, faults,
                        retries>>

\* available_at is the end of the quiet hours.
WindowOpens(i) ==
    /\ rows[i].status = "pending"
    /\ ~rows[i].due
    /\ ~quiet
    /\ rows' = [rows EXCEPT ![i].due = TRUE]
    /\ UNCHANGED <<sends, events, workers, versionActive, quiet, faults,
                    retries>>

\* The replay of a dead letter, by id: the statement takes a row in any
\* status, one that a worker is processing too.
RetryJourneyMessageIntent(i) ==
    /\ retries.leased + retries.others < MaxRetries
    /\ rows[i].status # "none"
    /\ retries' = IF i \in InFlight
                  THEN [retries EXCEPT !.leased = @ + 1]
                  ELSE [retries EXCEPT !.others = @ + 1]
    /\ rows' = [rows EXCEPT ![i].status = "pending", ![i].attempts = 0,
                            ![i].due = TRUE, ![i].lease = NoWorker]
    /\ UNCHANGED <<sends, events, workers, versionActive, quiet, faults>>

SetJourneyVersionStatus ==
    /\ versionActive' = ~versionActive
    /\ UNCHANGED <<rows, sends, events, workers, quiet, faults, retries>>

QuietHours ==
    /\ quiet' = ~quiet
    /\ UNCHANGED <<rows, sends, events, workers, versionActive, faults,
                    retries>>

-----------------------------------------------------------------------------
Decide(w) == \/ Drain(w) \/ Reconcile(w) \/ DeferQuiet(w) \/ Reject(w)
             \/ RenderFails(w) \/ Eligible(w)

Deliver(w) == \/ SendAccepted(w) \/ SendRetryable(w, FALSE) \/ SendRejected(w)
              \/ SaveProviderSent(w) \/ AcceptEvent(w) \/ EmitRefused(w)
              \/ UpdateJourneyMessageIntent(w)

WorkerStep(w) ==
    \/ ReadQueue(w)
    \/ \E i \in Intent : ClaimJourneyMessageIntent(w, i)
    \/ ClaimNothing(w)
    \/ Decide(w)
    \/ Deliver(w)

Failure(w) == \/ LoadFails(w) \/ TokenInactive(w) \/ SendRetryable(w, TRUE)
              \/ EmitFails(w) \/ Panic(w) \/ Crash(w) \/ Overrun(w)

Clock(i) == LeaseExpires(i) \/ WindowOpens(i)

Next ==
    \/ \E w \in Worker : WorkerStep(w) \/ Failure(w)
    \/ \E i \in Intent : \/ \E holdout \in BOOLEAN : CreateIntent(i, holdout)
                         \/ Clock(i)
                         \/ RetryJourneyMessageIntent(i)
    \/ SetJourneyVersionStatus
    \/ QuietHours

Spec == Init /\ [][Next]_vars

(***************************************************************************)
(* Fairness: journeys-worker loops over DeliverNext, and time passes.      *)
(***************************************************************************)
FairSpec == /\ Spec
            /\ \A w \in Worker : WF_vars(WorkerStep(w))
            /\ \A i \in Intent : WF_vars(Clock(i))

-----------------------------------------------------------------------------
(***************************************************************************)
(* Properties.                                                             *)
(***************************************************************************)

\* What the tables claim is true: an intent recorded as sent was accepted by
\* the provider and announced by a message.sent event, one recorded as
\* provider_sent was accepted, and no event announces a message that the
\* provider never took.  Stale workers write whole rows over one another.
SentIsTrue ==
    \A i \in Intent :
        /\ rows[i].decision = "sent" => i \in events
        /\ rows[i].decision = "provider_sent" => sends[i] > 0
        /\ i \in events => sends[i] > 0

\* Every extra copy of a message is paid for by a crash, an overrun lease, a
\* lost answer or the replay of an intent under lease: emission failures,
\* transient errors, concurrent workers and replays of dead letters, of drained,
\* queued or abandoned intents never send a message twice.
DuplicatesArePaidFor == \A i \in Intent : sends[i] <= 1 + faults + retries.leased

\* Neither claimed nor listed as a dead letter: the attempts of the row are
\* used up but its status does not say so.
Stranded(i) == /\ rows[i].status \in {"pending", "failed"}
               /\ rows[i].attempts >= MaxAttempts

\* Every intent of a journey that stays active, outside quiet hours, is
\* decided, becomes a dead letter, or has used up its attempts: no worker
\* goes on with one forever and none waits for a lease nobody holds.
EveryIntentSettles ==
    <>[](versionActive /\ ~quiet) =>
        \A i \in Intent : (rows[i].status # "none") ~>
            (rows[i].status \in {"completed", "dead"} \/ Stranded(i))
=============================================================================
