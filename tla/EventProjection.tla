-------------------------- MODULE EventProjection ---------------------------
(***************************************************************************)
(* Acceptance and projection of events: the transactions of AcceptEvents,  *)
(* the queue projection_jobs, the projector workers (Drain) and the API    *)
(* calls that project a company event themselves (applyCompanyEvent).      *)
(*                                                                         *)
(* An event is its idempotency key.  The bodies and what ProjectEvent does *)
(* to profiles are abstracted to the order in which projections commit.    *)
(* Quotas and errors abort AcceptEvents.                                   *)
(***************************************************************************)
EXTENDS Naturals, Sequences, FiniteSets

CONSTANTS
    Key,            \* idempotency keys of the events that may be submitted
    Ids,            \* Ids[e]: the external and anonymous ids e names
    Request,        \* calls of AcceptEvents
    Batch,          \* Batch[r]: the keys of the events of the call, in order
    Company,        \* events submitted by applyCompanyEvent
    Projector,      \* projector workers
    NoProjector,    \* locked_until IS NULL or in the past
    MaxAttempts,    \* 10 in the code
    MaxSeq,         \* bound on the sequence values handed out
    MaxFaults,      \* bound on crashes, overrun leases, lost answers
    MaxRetries      \* bound on dead-letter replays

ASSUME ProjectionAssumption ==
    /\ Batch \in [Request -> Seq(Key)]
    /\ Company \subseteq Key
    /\ NoProjector \notin Projector
    /\ MaxAttempts \in Nat \ {0}
    /\ MaxSeq \in Nat
    /\ MaxFaults \in Nat
    /\ MaxRetries \in Nat

VARIABLES
    jobs,           \* projection_jobs: committed rows
    seq,            \* the sequence column, assigned when a row is inserted
    nextSeq,        \* the next value of the bigserial
    txs,            \* open AcceptEvents transactions
    inline,         \* company events: how far applyCompanyEvent is
    projectors,     \* the local state of projectOne
    applied,        \* events in the order their projections committed
    before,         \* <<e, f>>: e was accepted before f was submitted
    refused,        \* company calls answered with ErrIdempotencyConflict
    buried,         \* events that have been dead letters
    faults,         \* crashes, overrun leases and lost answers so far
    retries         \* dead-letter replays so far

acceptance == <<seq, nextSeq, txs, before, refused>>
vars == <<acceptance, jobs, inline, projectors, applied, buried, faults,
          retries>>

Status == {"none", "pending", "processing", "done", "dead"}
\* lease: the worker whose claim set locked_until, while that is ahead.
Job == [status : Status, attempts : Nat, due : BOOLEAN,
        lease : Projector \cup {NoProjector}]
NoJob == [status |-> "none", attempts |-> 0, due |-> FALSE,
          lease |-> NoProjector]
NewJob == [NoJob EXCEPT !.status = "pending", !.due = TRUE]

\* keys: the rows the transaction has inserted and not committed.
Tx == [open : BOOLEAN, keys : SUBSET Key]
NoTx == [open |-> FALSE, keys |-> {}]

ProjectorState == [pc : {"claimed", "failing"}, event : Key]
IdleProjector == [pc |-> "idle"]

TypeOK ==
    /\ jobs \in [Key -> Job]
    /\ seq \in [Key -> Nat]
    /\ nextSeq \in Nat
    /\ txs \in [Request -> Tx]
    /\ inline \in [Key -> {"no", "accepted", "projected"}]
    /\ projectors \in [Projector -> ProjectorState \cup {IdleProjector}]
    /\ applied \in Seq(Key)
    /\ before \subseteq Key \X Key
    /\ refused \subseteq Request
    /\ buried \subseteq Key
    /\ faults \in Nat
    /\ retries \in Nat

Init ==
    /\ jobs = [e \in Key |-> NoJob]
    /\ seq = [e \in Key |-> 0]
    /\ nextSeq = 1
    /\ txs = [r \in Request |-> NoTx]
    /\ inline = [e \in Key |-> "no"]
    /\ projectors = [p \in Projector |-> IdleProjector]
    /\ applied = <<>>
    /\ before = {}
    /\ refused = {}
    /\ buried = {}
    /\ faults = 0
    /\ retries = 0

-----------------------------------------------------------------------------
(***************************************************************************)
(* AcceptEvents.  The sequence values are handed out by the INSERTs; the   *)
(* rows are visible from the commit on.                                    *)
(***************************************************************************)
Accepted(e) == jobs[e].status # "none"
KeysOf(r) == {Batch[r][i] : i \in DOMAIN Batch[r]}
New(r) == {e \in KeysOf(r) : ~Accepted(e)}
\* Where the batch names each of its new keys first.
Positions(r) ==
    {at \in [New(r) -> DOMAIN Batch[r]] :
        \A e \in New(r) : /\ Batch[r][at[e]] = e
                          /\ \A j \in 1..(at[e] - 1) : Batch[r][j] # e}

\* The INSERTs of the whole batch.  A key that another open transaction has
\* inserted makes them wait; a conflicting duplicate is refused below.
AcceptInsert(r) ==
    /\ ~txs[r].open
    /\ \A q \in Request : txs[q].keys \cap KeysOf(r) = {}
    /\ nextSeq + Len(Batch[r]) <= MaxSeq
    /\ txs' = [txs EXCEPT ![r] = [open |-> TRUE, keys |-> New(r)]]
    /\ \E at \in Positions(r) :
          seq' = [e \in Key |-> IF e \in New(r) THEN nextSeq + at[e] - 1
                                               ELSE seq[e]]
    /\ nextSeq' = nextSeq + Len(Batch[r])
    /\ before' = before \cup {e \in Key : Accepted(e)} \X New(r)
    /\ UNCHANGED <<refused, jobs, inline, projectors, applied, buried,
                   faults, retries>>

\* applyCompanyEvent gives every edit of a company the same key and a new
\* occurred_at.  Other submissions of a known key are identical repetitions.
Conflicts(r) == (KeysOf(r) \cap Company) \ txs[r].keys # {}

AcceptCommit(r) ==
    /\ txs[r].open /\ ~Conflicts(r)
    /\ txs' = [txs EXCEPT ![r] = NoTx]
    /\ jobs' = [e \in Key |-> IF e \in txs[r].keys THEN NewJob ELSE jobs[e]]
    /\ inline' = [e \in Key |-> IF e \in txs[r].keys \cap Company
                                THEN "accepted" ELSE inline[e]]
    /\ UNCHANGED <<seq, nextSeq, projectors, applied, before, refused,
                   buried, faults, retries>>

\* A quota, an error or a crash: nothing is kept.
AcceptAbort(r) ==
    /\ txs[r].open
    /\ txs' = [txs EXCEPT ![r] = NoTx]
    /\ before' = {x \in before : x[2] \notin txs[r].keys}
    /\ UNCHANGED <<jobs, seq, nextSeq, inline, projectors, applied, buried,
                   faults, retries, refused>>

AcceptConflict(r) ==
    /\ txs[r].open /\ Conflicts(r)
    /\ txs' = [txs EXCEPT ![r] = NoTx]
    /\ refused' = refused \cup {r}
    /\ before' = {x \in before : x[2] \notin txs[r].keys}
    /\ UNCHANGED <<seq, nextSeq, jobs, inline, projectors, applied, buried,
                    faults, retries>>

-----------------------------------------------------------------------------
(***************************************************************************)
(* The projector workers.                                                  *)
(***************************************************************************)
Related(e, f) == Ids[e] \cap Ids[f] # {}

Open(e) == jobs[e].status \notin {"none", "done", "dead"}

\* Mutant: earlier events that are being worked on do not block.
BlockedByPending(e) ==
    \E f \in Key : /\ jobs[f].status = "pending" /\ seq[f] < seq[e]
                   /\ Related(e, f)
\* NOT EXISTS: an unfinished earlier job of the same subject.
Blocked(e) == \E f \in Key : Open(f) /\ seq[f] < seq[e] /\ Related(e, f)

\* Mutants: leases are never reclaimed; leases are not looked at.
RunnableNoReclaim(e) == jobs[e].status = "pending"
RunnableAnyLease(e) == jobs[e].status \in {"pending", "processing"}
Runnable(e) == \/ jobs[e].status = "pending"
               \/ jobs[e].status = "processing" /\ jobs[e].lease = NoProjector

ClaimedJob(p, job) == [job EXCEPT !.status = "processing", !.lease = p,
                                  !.attempts = job.attempts + 1]

\* ORDER BY sequence with SKIP LOCKED: the lowest row that no transaction in
\* progress has locked, which may be any of them.
ClaimProjectionJob(p, e) ==
    /\ projectors[p].pc = "idle"
    /\ Runnable(e) /\ jobs[e].due /\ ~Blocked(e)
    /\ jobs' = [jobs EXCEPT ![e] = ClaimedJob(p, @)]
    /\ projectors' = [projectors EXCEPT ![p] =
                        [pc |-> "claimed", event |-> e]]
    /\ UNCHANGED <<acceptance, inline, applied, buried, faults, retries>>

DoneJob(job) == [job EXCEPT !.status = "done", !.lease = NoProjector]

\* ProjectEvent: one transaction that ends with status = 'done', by id,
\* whatever the status is by then.
ProjectEvent(p) ==
    LET e == projectors[p].event
    IN  /\ projectors[p].pc = "claimed"
        /\ applied' = Append(applied, e)
        /\ jobs' = [jobs EXCEPT ![e] = DoneJob(@)]
        /\ projectors' = [projectors EXCEPT ![p] = IdleProjector]
        /\ UNCHANGED <<acceptance, inline, buried, faults, retries>>

\* It commits, but the worker is told that it failed.
ProjectCommitLost(p) ==
    LET e == projectors[p].event
    IN  /\ projectors[p].pc = "claimed"
        /\ faults < MaxFaults
        /\ faults' = faults + 1
        /\ applied' = Append(applied, e)
        /\ jobs' = [jobs EXCEPT ![e] = DoneJob(@)]
        /\ projectors' = [projectors EXCEPT ![p].pc = "failing"]
        /\ UNCHANGED <<acceptance, inline, buried, retries>>

\* An error or a recovered panic, each time for an event that cannot be
\* projected; the transaction is rolled back.
ProjectFails(p) ==
    /\ projectors[p].pc = "claimed"
    /\ projectors' = [projectors EXCEPT ![p].pc = "failing"]
    /\ UNCHANGED <<acceptance, jobs, inline, applied, buried, faults,
                   retries>>

\* Mutant: the poison event is dropped.
FailedJobDropped(job) ==
    [job EXCEPT !.status = IF job.attempts >= MaxAttempts THEN "done"
                                                          ELSE "pending",
                !.due = FALSE, !.lease = NoProjector]
FailedJob(job) ==
    [job EXCEPT !.status = IF job.attempts >= MaxAttempts THEN "dead"
                                                          ELSE "pending",
                !.due = FALSE, !.lease = NoProjector]

\* Not fenced by owner or status: a finished job may be queued again.
FailProjectionJob(p) ==
    LET e == projectors[p].event
    IN  /\ projectors[p].pc = "failing"
        /\ jobs' = [jobs EXCEPT ![e] = FailedJob(@)]
        /\ buried' = IF jobs'[e].status = "dead" THEN buried \cup {e}
                                                 ELSE buried
        /\ projectors' = [projectors EXCEPT ![p] = IdleProjector]
        /\ UNCHANGED <<acceptance, inline, applied, faults, retries>>

Crash(p) ==
    /\ faults < MaxFaults
    /\ projectors[p].pc # "idle"
    /\ projectors' = [projectors EXCEPT ![p] = IdleProjector]
    /\ faults' = faults + 1
    /\ UNCHANGED <<acceptance, jobs, inline, applied, buried, retries>>

-----------------------------------------------------------------------------
(***************************************************************************)
(* applyCompanyEvent, after its AcceptEvents: the API projects the event   *)
(* without a claim, then closes the job.  It may fail at either point.     *)
(***************************************************************************)
ProjectInline(e) ==
    /\ inline[e] = "accepted"
    /\ applied' = Append(applied, e)
    /\ jobs' = [jobs EXCEPT ![e] = DoneJob(@)]
    /\ inline' = [inline EXCEPT ![e] = "projected"]
    /\ UNCHANGED <<acceptance, projectors, buried, faults, retries>>

CloseInline(e) ==
    /\ inline[e] = "projected"
    /\ jobs' = [jobs EXCEPT ![e] = DoneJob(@)]
    /\ inline' = [inline EXCEPT ![e] = "no"]
    /\ UNCHANGED <<acceptance, projectors, applied, buried, faults, retries>>

InlineFails(e) ==
    /\ inline[e] # "no"
    /\ inline' = [inline EXCEPT ![e] = "no"]
    /\ UNCHANGED <<acceptance, jobs, projectors, applied, buried, faults,
                   retries>>

-----------------------------------------------------------------------------
(***************************************************************************)
(* Operators and the clock.                                                *)
(***************************************************************************)
\* RetryDeadLetter and DiscardDeadLetter only take dead jobs.
RetryDeadLetter(e) ==
    /\ retries < MaxRetries
    /\ jobs[e].status = "dead"
    /\ jobs' = [jobs EXCEPT ![e] = NewJob]
    /\ retries' = retries + 1
    /\ UNCHANGED <<acceptance, inline, projectors, applied, buried, faults>>

DiscardDeadLetter(e) ==
    /\ jobs[e].status = "dead"
    /\ jobs' = [jobs EXCEPT ![e] = DoneJob(@)]
    /\ UNCHANGED <<acceptance, inline, projectors, applied, buried, faults,
                   retries>>

Backoff(e) ==
    /\ jobs[e].status = "pending" /\ ~jobs[e].due
    /\ jobs' = [jobs EXCEPT ![e].due = TRUE]
    /\ UNCHANGED <<acceptance, inline, projectors, applied, buried, faults,
                   retries>>

\* The lease of a worker that no longer holds the event.
LeaseExpires(e) ==
    LET p == jobs[e].lease
    IN  /\ jobs[e].status = "processing" /\ p # NoProjector
        /\ ~(projectors[p].pc # "idle" /\ projectors[p].event = e)
        /\ jobs' = [jobs EXCEPT ![e].lease = NoProjector]
        /\ UNCHANGED <<acceptance, inline, projectors, applied, buried,
                       faults, retries>>

\* A worker works longer than its lease of 30 seconds.
Overrun(e) ==
    LET p == jobs[e].lease
    IN  /\ faults < MaxFaults
        /\ jobs[e].status = "processing" /\ p # NoProjector
        /\ projectors[p].pc # "idle" /\ projectors[p].event = e
        /\ jobs' = [jobs EXCEPT ![e].lease = NoProjector]
        /\ faults' = faults + 1
        /\ UNCHANGED <<acceptance, inline, projectors, applied, buried,
                       retries>>

-----------------------------------------------------------------------------
WorkerStep(p) == \/ \E e \in Key : ClaimProjectionJob(p, e)
                 \/ ProjectEvent(p)
                 \/ ProjectFails(p)
                 \/ FailProjectionJob(p)

AcceptEnds(r) == AcceptCommit(r) \/ AcceptAbort(r) \/ AcceptConflict(r)
Api(r) == AcceptInsert(r) \/ AcceptEnds(r)
CompanyCall(e) == ProjectInline(e) \/ CloseInline(e) \/ InlineFails(e)
Operator(e) == RetryDeadLetter(e) \/ DiscardDeadLetter(e)
Clock(e) == Backoff(e) \/ LeaseExpires(e)

Next ==
    \/ \E r \in Request : Api(r)
    \/ \E p \in Projector : WorkerStep(p) \/ ProjectCommitLost(p) \/ Crash(p)
    \/ \E e \in Key : CompanyCall(e) \/ Operator(e) \/ Clock(e) \/ Overrun(e)

Spec == Init /\ [][Next]_vars

(***************************************************************************)
(* Fairness: Drain keeps claiming, time passes, and a transaction of the   *)
(* API ends.  Submissions and operators are never forced.                  *)
(***************************************************************************)
FairSpec == /\ Spec
            /\ \A p \in Projector : WF_vars(WorkerStep(p))
            /\ \A e \in Key : WF_vars(Clock(e))
            /\ \A r \in Request : WF_vars(AcceptEnds(r))

-----------------------------------------------------------------------------
(***************************************************************************)
(* Properties.                                                             *)
(***************************************************************************)
IsApplied(e) == \E i \in DOMAIN applied : applied[i] = e

\* No event is dropped: a job that is done was projected, or an operator
\* discarded it as a dead letter.
DoneIsApplied ==
    \A e \in Key : jobs[e].status = "done" => IsApplied(e) \/ e \in buried

\* Subjects are projected in order: when the projector applies an event, the
\* earlier events of its subject, accepted before it was submitted, have been
\* applied, or were dead letters once.
FirstInOrder ==
    \A j \in DOMAIN applied : \A e \in Key :
        (/\ applied[j] \notin Company
         /\ <<e, applied[j]>> \in before
         /\ Related(e, applied[j]))
        => e \in buried \/ \E i \in 1..(j - 1) : applied[i] = e

\* An event is projected again only after a crash, an overrun lease or a lost
\* commit answer: workers that merely fail, retry and race never do it.
\* Company events are projected once more by the API.
ReapplicationsArePaidFor ==
    \A e \in Key : Cardinality({i \in DOMAIN applied : applied[i] = e})
                     <= 1 + faults + (IF e \in Company THEN 1 ELSE 0)

\* Every accepted event is projected or becomes a dead letter, also behind a
\* poison event of its subject.
EveryEventSettles ==
    \A e \in Key : Accepted(e) ~> (jobs[e].status \in {"done", "dead"})
=============================================================================
