----------------------------- MODULE Operations -----------------------------
(***************************************************************************)
(* The leased queue operation_jobs and what its jobs do: imports, AI       *)
(* generations, score computations and privacy requests answer a request   *)
(* row; warehouse syncs, reverse ETL and export replays, which a scheduler *)
(* enqueues for a pipeline, leave rows in the append-only table            *)
(* connector_runs; connector deliveries and retention are single calls.    *)
(*                                                                         *)
(* A job runs to its end between the claim and the write that completes or *)
(* fails it, and both writes are by id: neither looks at the lease, the    *)
(* status or the owner.  Rows of a file, a page or an audience are taken   *)
(* one batch at a time.  Wrong payloads, failed reads and refused calls    *)
(* are one choice, ExecutionFails.                                         *)
(***************************************************************************)
EXTENDS Naturals, FiniteSets

CONSTANTS
    Job,            \* rows of operation_jobs
    JobKinds,       \* the assignments of kinds to jobs that Init may choose
    Replays,        \* the jobs that replays of runs may enqueue
    Worker,         \* processes running DrainWithGatewayAndExtensions
    NoWorker,       \* locked_until IS NULL or in the past
    Batches,        \* how many batches of rows the file, page or audience of
                    \* a job has, by its kind
    MaxPage,        \* the last cursor of a source
    Errors,         \* whether reads and calls may fail and limits refuse
    MaxAttempts,    \* 10 in the code
    MaxFaults,      \* bound on crashes, overrun leases, lost run records
    MaxCalls        \* bound on calls of dead-letter operators and reviewers

Privacy == {"privacy.export", "privacy.delete"}
\* Kinds whose request goes from pending over processing to complete.
Tracked == {"profiles.import", "ai.generate", "scores.compute"}
Requested == Privacy \cup Tracked
Connector == {"warehouse.sync", "reverse_etl.run", "export.replay"}
Single == {"connector.run", "retention.enforce"}
Kind == Requested \cup Connector \cup Single \cup {"unused"}
JobStatus == {"none", "pending", "processing", "done", "dead"}

\* What the constraint on privacy_requests.status admits since migration 060.
PrivacyStatus == {"pending", "in_progress", "completed", "failed", "rejected"}
RequestStatus == PrivacyStatus \cup {"none", "processing", "complete"}
Verification == {"unverified", "verified", "rejected"}

ASSUME OperationsAssumption ==
    /\ JobKinds \subseteq [Job -> Kind]
    /\ Replays \subseteq Job
    /\ IsFiniteSet(Worker)
    /\ NoWorker \notin Worker
    /\ "none" \notin Job
    /\ Batches \in [Kind -> Nat]
    /\ MaxPage \in Nat
    /\ Errors \in BOOLEAN
    /\ MaxAttempts \in Nat \ {0}
    /\ MaxFaults \in Nat
    /\ MaxCalls \in Nat

Page == 0..MaxPage

VARIABLES
    kind,           \* operation_jobs.job_type
    jobs,           \* operation_jobs
    requests,       \* import_requests, ai_generation_requests,
                    \* scoring_requests and privacy_requests, by their job
    results,        \* the blob or the scores the answer of a job refers to
    accepted,       \* idempotency keys of accepted events, keys of sink rows
    runRows,        \* how many connector_runs there are of each status
    quarantined,    \* cursors of failed runs with a reject blob
    workers,        \* the local state of execute
    faults,         \* crashes, overrun leases and lost run records so far
    calls,          \* calls of operators and reviewers so far
    successes       \* how often execute has returned without an error

ghosts == <<faults, calls, successes>>
effects == <<results, accepted, runRows, quarantined>>
vars == <<kind, jobs, requests, effects, workers, ghosts>>

JobRow == [status : JobStatus, attempts : Nat, lease : Worker \cup {NoWorker},
           due : BOOLEAN, cursor : Page]
NoRow == [status |-> "none", attempts |-> 0, lease |-> NoWorker,
          due |-> FALSE, cursor |-> 0]
NewJob(c) == [status |-> "pending", attempts |-> 0, lease |-> NoWorker,
              due |-> TRUE, cursor |-> c]

\* pc "closing" and "denied" write a failed run, for an error that is retried
\* and for one that is not; "failed" and "refused" then fail the job.
Pc == {"idle", "load", "work", "commit", "put", "finish", "closing",
       "denied", "failed", "refused", "ok"}
WorkerState == [pc : Pc, job : Job \cup {"none"}, next : Nat,
                good : SUBSET Nat, blob : BOOLEAN]
Idle == [pc |-> "idle", job |-> "none", next |-> 0, good |-> {},
         blob |-> FALSE]

TypeOK ==
    /\ kind \in [Job -> Kind]
    /\ jobs \in [Job -> JobRow]
    /\ requests \in [Job -> [status : RequestStatus,
                             verification : Verification]]
    /\ results \in [Job -> [kept : BOOLEAN, rows : SUBSET Nat]]
    /\ accepted \subseteq (Job \cup {"source", "sink"}) \X Page \X Nat
    /\ runRows \in [{"running", "succeeded", "failed"} -> Nat]
    /\ quarantined \subseteq Page
    /\ workers \in [Worker -> WorkerState]
    /\ faults \in Nat /\ calls \in Nat
    /\ successes \in [Job -> Nat]

Init ==
    /\ kind \in JobKinds
    /\ jobs = [j \in Job |-> NoRow]
    /\ requests = [j \in Job |-> [status |-> "none",
                                  verification |-> "unverified"]]
    /\ results = [j \in Job |-> [kept |-> FALSE, rows |-> {}]]
    /\ accepted = {}
    /\ runRows = [s \in {"running", "succeeded", "failed"} |-> 0]
    /\ quarantined = {}
    /\ workers = [w \in Worker |-> Idle]
    /\ faults = 0 /\ calls = 0
    /\ successes = [j \in Job |-> 0]

-----------------------------------------------------------------------------
(***************************************************************************)
(* Requests, and the enqueuing of jobs.                                    *)
(***************************************************************************)

Enqueue(j, c) == jobs' = [jobs EXCEPT ![j] = NewJob(c)]

\* The request and the job of a generation or a scoring are one transaction.
\* The job of an import is a second statement.
CreateRequest(j) ==
    /\ kind[j] \in Requested
    /\ requests[j].status = "none"
    /\ requests' = [requests EXCEPT ![j].status = "pending"]
    /\ IF kind[j] \in {"ai.generate", "scores.compute"}
         THEN Enqueue(j, 0)
         ELSE UNCHANGED jobs
    /\ UNCHANGED <<kind, effects, workers, ghosts>>

\* The second statement of CreateImportRequest, which a crash may prevent.
EnqueueImport(j) ==
    /\ kind[j] = "profiles.import"
    /\ requests[j].status = "pending" /\ jobs[j].status = "none"
    /\ Enqueue(j, 0)
    /\ UNCHANGED <<kind, requests, effects, workers, ghosts>>

\* Enqueues the job once: a request that is verified stays so.
VerifyPrivacyRequest(j) ==
    /\ kind[j] \in Privacy
    /\ requests[j].status # "none"
    /\ requests[j].verification = "unverified"
    /\ requests' = [requests EXCEPT ![j].verification = "verified"]
    /\ Enqueue(j, 0)
    /\ UNCHANGED <<kind, effects, workers, ghosts>>

\* The job of a request that was verified before stays in the queue.
RejectPrivacyRequest(j) ==
    /\ kind[j] \in Privacy
    /\ calls < MaxCalls
    /\ requests[j].status \notin {"none", "completed", "in_progress"}
    /\ requests' = [requests EXCEPT ![j] = [status |-> "rejected",
                                            verification |-> "rejected"]]
    /\ calls' = calls + 1
    /\ UNCHANGED <<kind, jobs, effects, workers, faults, successes>>

\* AcceptEvents enqueues connector deliveries; retention is enqueued by hand.
EnqueueSingle(j) ==
    /\ kind[j] \in Single
    /\ jobs[j].status = "none"
    /\ Enqueue(j, 0)
    /\ UNCHANGED <<kind, requests, effects, workers, ghosts>>

\* A run that was ever running keeps its row: the table is append-only.
Blocked == runRows["running"] > 0

\* The scheduler: the pipeline is due, which is left to the scheduling of
\* this action, and has no running run.  A source is read from its start.
ClaimDueConnectorPipeline(j) ==
    /\ kind[j] \in Connector /\ j \notin Replays
    /\ jobs[j].status = "none"
    /\ ~Blocked
    /\ Enqueue(j, 0)
    /\ UNCHANGED <<kind, requests, effects, workers, ghosts>>

\* An operator has the page of a failed run with rejects read again.
ReplayConnectorRun(j) ==
    /\ calls < MaxCalls
    /\ kind[j] = "warehouse.sync" /\ j \in Replays
    /\ jobs[j].status = "none"
    /\ \E c \in quarantined : Enqueue(j, c)
    /\ calls' = calls + 1
    /\ UNCHANGED <<kind, requests, effects, workers, faults, successes>>

-----------------------------------------------------------------------------
(***************************************************************************)
(* The queue.                                                              *)
(***************************************************************************)

\* Mutant: a lease that holds is no obstacle.
ClaimableHeld(j) ==
    jobs[j].due /\ jobs[j].status \in {"pending", "processing"}

\* Mutant: an expired lease is never taken over.
ClaimableNoReclaim(j) == jobs[j].due /\ jobs[j].status = "pending"

Claimable(j) ==
    /\ jobs[j].due
    /\ \/ jobs[j].status = "pending"
       \/ jobs[j].status = "processing" /\ jobs[j].lease = NoWorker

ClaimOperationJob(w) ==
    /\ workers[w].pc = "idle"
    /\ \E j \in Job :
          /\ Claimable(j)
          /\ jobs' = [jobs EXCEPT ![j].status = "processing",
                                  ![j].attempts = @ + 1, ![j].lease = w]
          /\ workers' = [workers EXCEPT ![w].pc = "load", ![w].job = j]
    /\ UNCHANGED <<kind, requests, effects, ghosts>>

CompleteOperationJob(w) ==
    /\ workers[w].pc = "ok"
    /\ LET j == workers[w].job IN
          jobs' = [jobs EXCEPT ![j].status = "done", ![j].lease = NoWorker]
    /\ workers' = [workers EXCEPT ![w] = Idle]
    /\ UNCHANGED <<kind, requests, effects, ghosts>>

Spent(j) == jobs[j].attempts >= MaxAttempts

FailedStatus(j, refused) ==
    IF Spent(j) \/ refused THEN "dead" ELSE "pending"

\* Mutant: scoring requests are forgotten.
FailsRequestNotScores(j, refused) ==
    kind[j] \in Requested \ {"scores.compute"} /\ Spent(j) /\ ~refused

\* A job that dies takes its request with it, unless the error is terminal.
FailsRequest(j, refused) == kind[j] \in Requested /\ Spent(j) /\ ~refused

FailOperationJob(w) ==
    /\ workers[w].pc \in {"failed", "refused"}
    /\ LET j == workers[w].job
           refused == workers[w].pc = "refused"
       IN /\ jobs' = [jobs EXCEPT ![j].status = FailedStatus(j, refused),
                                  ![j].due = refused, ![j].lease = NoWorker]
          /\ requests' = IF FailsRequest(j, refused)
                           THEN [requests EXCEPT ![j].status = "failed"]
                           ELSE requests
    /\ workers' = [workers EXCEPT ![w] = Idle]
    /\ UNCHANGED <<kind, effects, ghosts>>

BackoffPasses(j) ==
    /\ jobs[j].status = "pending" /\ ~jobs[j].due
    /\ jobs' = [jobs EXCEPT ![j].due = TRUE]
    /\ UNCHANGED <<kind, requests, effects, workers, ghosts>>

\* The lease of a process that is gone runs out.
LeaseExpires(j) ==
    /\ jobs[j].status = "processing" /\ jobs[j].lease # NoWorker
    /\ workers[jobs[j].lease].job # j
    /\ jobs' = [jobs EXCEPT ![j].lease = NoWorker]
    /\ UNCHANGED <<kind, requests, effects, workers, ghosts>>

\* The lease of a process that is still at work runs out.
Overrun(j) ==
    /\ faults < MaxFaults
    /\ jobs[j].status = "processing" /\ jobs[j].lease # NoWorker
    /\ workers[jobs[j].lease].job = j
    /\ jobs' = [jobs EXCEPT ![j].lease = NoWorker]
    /\ faults' = faults + 1
    /\ UNCHANGED <<kind, requests, effects, workers, calls, successes>>

\* The process dies, or a write of the queue fails and it gives up.
Crash(w) ==
    /\ faults < MaxFaults
    /\ workers[w].pc # "idle"
    /\ workers' = [workers EXCEPT ![w] = Idle]
    /\ faults' = faults + 1
    /\ UNCHANGED <<kind, jobs, requests, effects, calls, successes>>

RetryDeadLetter(j) ==
    /\ calls < MaxCalls
    /\ jobs[j].status = "dead"
    /\ jobs' = [jobs EXCEPT ![j] = NewJob(@.cursor)]
    /\ calls' = calls + 1
    /\ UNCHANGED <<kind, requests, effects, workers, faults, successes>>

DiscardDeadLetter(j) ==
    /\ calls < MaxCalls
    /\ jobs[j].status = "dead"
    /\ jobs' = [jobs EXCEPT ![j].status = "done"]
    /\ calls' = calls + 1
    /\ UNCHANGED <<kind, requests, effects, workers, faults, successes>>

-----------------------------------------------------------------------------
(***************************************************************************)
(* What a worker does between the claim and the write that ends the job.   *)
(***************************************************************************)

Batch(w) == 1..Batches[kind[workers[w].job]]
At(w, pcs, kinds) == workers[w].pc \in pcs /\ kind[workers[w].job] \in kinds
Goto(w, pc) == workers' = [workers EXCEPT ![w].pc = pc]
Succeed(w) ==
    /\ Goto(w, "ok")
    /\ successes' = [successes EXCEPT ![workers[w].job] = @ + 1]
    /\ UNCHANGED <<faults, calls>>

\* Load what the job is about and mark its request, which only a pending one
\* lets happen.  Privacy requests are not marked.
LoadRequest(w) ==
    /\ At(w, {"load"}, Requested)
    /\ LET j == workers[w].job
           k == kind[j]
       IN /\ requests' =
                IF k \in Tracked /\ requests[j].status = "pending"
                  THEN [requests EXCEPT ![j].status = "processing"]
                  ELSE requests
          /\ workers' = [workers EXCEPT
                ![w].pc = CASE k \in Tracked -> "work"
                            [] k = "privacy.export" -> "put"
                            [] k = "privacy.delete" -> "finish",
                ![w].next = 1]
    /\ UNCHANGED <<kind, jobs, effects, ghosts>>

\* Load the pipeline and record the run as running.
StartRun(w) ==
    /\ At(w, {"load"}, Connector)
    /\ runRows' = [runRows EXCEPT !["running"] = @ + 1]
    /\ workers' = [workers EXCEPT ![w].pc = "work", ![w].next = 1]
    /\ UNCHANGED <<kind, jobs, requests, results, accepted, quarantined,
                   ghosts>>

CallOnce(w) ==
    /\ At(w, {"load"}, Single)
    /\ Succeed(w)
    /\ UNCHANGED <<kind, jobs, requests, effects>>

\* The key of a batch: by the file of an import, by the cursor of a source.
KeyOf(w) ==
    LET j == workers[w].job IN
    CASE kind[j] = "profiles.import" -> <<j, 0, workers[w].next>>
      [] kind[j] = "warehouse.sync" ->
            <<"source", jobs[j].cursor, workers[w].next>>
      [] kind[j] = "reverse_etl.run" -> <<"sink", 0, workers[w].next>>

\* An import has the time of its request and may repeat its events; a source
\* event has the current time, so a key that is there is a conflict.
Acceptable(w) ==
    kind[workers[w].job] = "warehouse.sync" => KeyOf(w) \notin accepted

TakeBatch(w) ==
    /\ At(w, {"work"},
          {"profiles.import", "warehouse.sync", "reverse_etl.run"})
    /\ workers[w].next \in Batch(w)
    /\ Acceptable(w)
    /\ accepted' = accepted \cup {KeyOf(w)}
    /\ workers' = [workers EXCEPT ![w].good = @ \cup {workers[w].next},
                                  ![w].next = @ + 1]
    /\ UNCHANGED <<kind, jobs, requests, results, runRows, quarantined,
                   ghosts>>

\* Mutant: a refused row is counted as imported.
RejectBatchCounted(w) ==
    /\ At(w, {"work"}, {"profiles.import", "warehouse.sync"})
    /\ workers[w].next \in Batch(w)
    /\ workers' = [workers EXCEPT ![w].good = @ \cup {workers[w].next},
                                  ![w].next = @ + 1]
    /\ UNCHANGED <<kind, jobs, requests, effects, ghosts>>

\* Malformed, suppressed or refused: noted in the report, and no error.
RejectBatch(w) ==
    /\ At(w, {"work"}, {"profiles.import", "warehouse.sync"})
    /\ workers[w].next \in Batch(w)
    /\ workers' = [workers EXCEPT ![w].next = @ + 1]
    /\ UNCHANGED <<kind, jobs, requests, effects, ghosts>>

\* The batches are done, or there are none to take: the gateway has answered,
\* the scores are written, the export rows inserted.
EndWork(w) ==
    /\ At(w, {"work"}, Tracked \cup Connector)
    /\ LET j == workers[w].job
           k == kind[j]
       IN /\ k \in {"profiles.import", "warehouse.sync", "reverse_etl.run"} =>
                workers[w].next \notin Batch(w)
          /\ Goto(w, CASE k \in {"profiles.import", "ai.generate"} -> "put"
                       [] k = "warehouse.sync" -> "commit"
                       [] OTHER -> "finish")
          /\ results' = IF k = "scores.compute"
                          THEN [results EXCEPT ![j].kept = TRUE]
                          ELSE results
    /\ UNCHANGED <<kind, jobs, requests, accepted, runRows, quarantined,
                   ghosts>>

\* The source is told, unless some batch was refused; rejects are kept.
CommitSource(w) ==
    /\ At(w, {"commit"}, {"warehouse.sync"})
    /\ workers' = [workers EXCEPT
          ![w].pc = IF workers[w].good = Batch(w) THEN "finish" ELSE "put"]
    /\ UNCHANGED <<kind, jobs, requests, effects, ghosts>>

\* Blobs are written under the key of the request, over what is there.
PutBlob(w) ==
    /\ At(w, {"put"}, Requested \cup Connector)
    /\ LET j == workers[w].job
           sync == kind[j] = "warehouse.sync"
       IN /\ results' = IF sync THEN results
                        ELSE [results EXCEPT ![j] =
                                [kept |-> TRUE, rows |-> workers[w].good]]
          /\ workers' = [workers EXCEPT ![w].pc = "finish",
                                        ![w].blob = sync]
    /\ UNCHANGED <<kind, jobs, requests, accepted, runRows, quarantined,
                   ghosts>>

\* Whether the table of the request admits the status complete.
Storable(j) == kind[j] \in Privacy => "complete" \in PrivacyStatus

CompleteRequest(w) ==
    /\ At(w, {"finish"}, Requested)
    /\ Storable(workers[w].job)
    /\ requests' = [requests EXCEPT ![workers[w].job].status = "complete"]
    /\ Succeed(w)
    /\ UNCHANGED <<kind, jobs, effects>>

\* The constraint refuses the update, and with it the transaction: of an
\* export the audit record, of an erasure everything it deletes.
AnswerRefused(w) ==
    /\ At(w, {"finish"}, Requested)
    /\ ~Storable(workers[w].job)
    /\ Goto(w, "failed")
    /\ UNCHANGED <<kind, jobs, requests, effects, ghosts>>

NextCursor(c) == IF c < MaxPage THEN c + 1 ELSE c

\* The terminal row of a run.  One with rejects has the cursor that follows
\* its page.
RecordRun(w, status) ==
    LET j == workers[w].job IN
    /\ runRows' = [runRows EXCEPT ![status] = @ + 1]
    /\ quarantined' = IF status = "failed" /\ workers[w].blob
                        THEN quarantined \cup {NextCursor(jobs[j].cursor)}
                        ELSE quarantined

\* A page none of whose rows was taken is a failed run of a job that is done.
FinishRun(w) ==
    /\ At(w, {"finish"}, Connector)
    /\ RecordRun(w, IF /\ kind[workers[w].job] = "warehouse.sync"
                       /\ workers[w].good = {} /\ Batch(w) # {}
                      THEN "failed" ELSE "succeeded")
    /\ Succeed(w)
    /\ UNCHANGED <<kind, jobs, requests, results, accepted>>

CloseRun(w) ==
    /\ workers[w].pc \in {"closing", "denied"}
    /\ RecordRun(w, "failed")
    /\ Goto(w, IF workers[w].pc = "closing" THEN "failed" ELSE "refused")
    /\ UNCHANGED <<kind, jobs, requests, results, accepted, ghosts>>

\* The terminal row cannot be written: the run stays open, and an error that
\* was terminal no longer is.
LoseRecord(w) ==
    /\ faults < MaxFaults
    /\ At(w, {"closing", "denied", "finish"}, Connector)
    /\ Goto(w, "failed")
    /\ faults' = faults + 1
    /\ UNCHANGED <<kind, jobs, requests, effects, calls, successes>>

Running(w) ==
    At(w, {"work", "commit", "put", "finish", "closing", "denied"}, Connector)

\* Mutant: an error leaves the run open.
AfterErrorUnclosed(w) == "failed"

\* Where an error leads: a run is closed by a failed row first.
AfterError(w) == IF Running(w) THEN "closing" ELSE "failed"

\* Errors end the work before its first batch; later ones are noted in the
\* report of a file or a page, but end the writing of an audience.
Interruptible(w) ==
    \/ workers[w].next = 1
    \/ kind[workers[w].job] = "reverse_etl.run" /\ workers[w].next \in Batch(w)

\* Some read or call fails.
ExecutionFails(w) ==
    /\ Errors
    /\ \/ workers[w].pc \in {"load", "commit", "put"}
       \/ workers[w].pc = "work" /\ Interruptible(w)
       \/ At(w, {"finish"}, Requested)
    /\ workers' = [workers EXCEPT
          ![w].pc = AfterError(w),
          ![w].blob = At(w, {"put"}, Connector)]
    /\ UNCHANGED <<kind, jobs, requests, effects, ghosts>>

\* The pipeline or its connector is disabled, or over its rate or budget; or
\* the extension that an event is to be delivered to is disabled.
Deny(w) ==
    /\ Errors
    /\ \/ At(w, {"work"}, Connector) /\ Interruptible(w) /\ Goto(w, "denied")
       \/ At(w, {"load"}, {"connector.run"}) /\ Goto(w, "refused")
    /\ UNCHANGED <<kind, jobs, requests, effects, ghosts>>

-----------------------------------------------------------------------------
Work(w) ==
    \/ LoadRequest(w) \/ StartRun(w) \/ CallOnce(w)
    \/ TakeBatch(w) \/ RejectBatch(w) \/ EndWork(w)
    \/ CommitSource(w) \/ PutBlob(w)
    \/ CompleteRequest(w) \/ AnswerRefused(w)
    \/ FinishRun(w) \/ CloseRun(w) \/ LoseRecord(w)
    \/ ExecutionFails(w) \/ Deny(w)

\* One pass of the loop of DrainWithGatewayAndExtensions.
WorkerStep(w) ==
    \/ ClaimOperationJob(w) \/ Work(w)
    \/ CompleteOperationJob(w) \/ FailOperationJob(w)

Clock(j) == BackoffPasses(j) \/ LeaseExpires(j)

Enqueues(j) ==
    \/ CreateRequest(j) \/ EnqueueImport(j) \/ VerifyPrivacyRequest(j)
    \/ EnqueueSingle(j) \/ ClaimDueConnectorPipeline(j)
    \/ ReplayConnectorRun(j)

Operate(j) ==
    RetryDeadLetter(j) \/ DiscardDeadLetter(j) \/ RejectPrivacyRequest(j)

Next ==
    \/ \E w \in Worker : WorkerStep(w) \/ Crash(w)
    \/ \E j \in Job : Enqueues(j) \/ Clock(j) \/ Operate(j) \/ Overrun(j)

Spec == Init /\ [][Next]_vars

Fairness == /\ \A w \in Worker : WF_vars(WorkerStep(w))
            /\ \A j \in Job : WF_vars(Clock(j))
FairSpec == Spec /\ Fairness

-----------------------------------------------------------------------------
(***************************************************************************)
(* Properties.                                                             *)
(***************************************************************************)

\* A job is carried out once more only for a crash, an overrun lease or a
\* lost record: failures and retries, by the queue or by an operator, never
\* repeat an execution that ended well, although completing and failing a job
\* look neither at its lease nor at its status.
SuccessesArePaidFor == \A j \in Job : successes[j] <= 1 + faults

\* Without such a fault a job and its request agree when the job ends: one
\* that is dead has failed, one that is done is answered or was discarded.
\* Only a reviewer's rejection comes on top.
RequestsAgree ==
    faults = 0 => \A j \in Job : kind[j] \in Requested =>
        /\ jobs[j].status = "dead" =>
              requests[j].status \in {"failed", "rejected"}
        /\ jobs[j].status = "done" =>
              \/ requests[j].status = "complete"
              \/ requests[j].status \in {"failed", "rejected"} /\ calls > 0

\* A request that is complete has its result, whichever of several attempts
\* has written it, and a row that an import's report calls imported was
\* accepted.
AnswersAreTrue ==
    \A j \in Job : kind[j] \in Tracked =>
        /\ requests[j].status = "complete" => results[j].kept
        /\ kind[j] = "profiles.import" =>
              \A b \in results[j].rows : <<j, 0, b>> \in accepted

OpenRuns == {w \in Worker : Running(w)}

\* Every run that was recorded as running gets a terminal row on every path,
\* unless its process died or the row could not be written.
RunsAreClosed ==
    /\ runRows["succeeded"] + runRows["failed"] <= runRows["running"]
    /\ runRows["running"] <= runRows["succeeded"] + runRows["failed"]
                             + Cardinality(OpenRuns) + faults

\* Every job that is enqueued ends, done or dead.
EveryJobSettles ==
    \A j \in Job :
        jobs[j].status = "pending" ~> jobs[j].status \in {"done", "dead"}
=============================================================================
