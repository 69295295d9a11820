----------------------------- MODULE Campaigns ------------------------------
(***************************************************************************)
(* One campaign: its row, the dispatchers that turn it into delivery jobs, *)
(* the leased queue delivery_jobs, the delivery workers and the rows of    *)
(* delivery_attempts, one for each recipient, that guard the sends.        *)
(*                                                                         *)
(* Nothing a worker writes is fenced: attempts are updated by key and jobs *)
(* by id, whoever holds the lease by then.  The last job to end closes the *)
(* campaign, in a transaction that counts the other jobs.  Delays (the     *)
(* scheduled time, the minute between two tries of a job) are left to the  *)
(* scheduling of the actions.                                              *)
(***************************************************************************)
EXTENDS Naturals, Sequences, FiniteSets

CONSTANTS
    Recipient,      \* pairs of a profile and an endpoint
    Profile,
    ProfileOf,      \* the profile of each recipient
    Holdout,        \* recipients the campaign's experiment holds out
    Audiences,      \* what a dispatch may resolve the segment to: the
                    \* sequence of its shards, each a sequence of recipients
    MaxJobs,        \* bound on the delivery jobs
    Dispatcher,     \* processes running DispatchNext
    Worker,         \* processes running DeliverNext
    NoWorker,       \* locked_until IS NULL or in the past
    MaxAttempts,    \* 3 in the code
    Refusals,       \* the final decisions of messages that are not sent
    Failures,       \* which calls may fail: see FailureKinds
    MaxFaults,      \* bound on crashes, overrun leases, lost writes
    EditTo,         \* the statuses API calls set
    MaxEdits        \* bound on the updates through the API

FailureKinds == {"dispatch", "resolve", "emit", "panic"}
CampaignStatus == {"none", "draft", "scheduled", "building", "sending",
                   "paused", "completed", "failed", "archived"}
JobStatus == {"none", "pending", "processing", "completed", "failed", "dead"}
Decision == {"none", "sent", "suppressed", "no_consent", "fatigued",
             "render_failed", "send_failed", "failed", "holdout",
             "processing", "provider_sent", "retryable_failed"}
\* The decisions a worker that finds the attempt goes on with.
Open == {"processing", "provider_sent", "retryable_failed"}
Final == Decision \ (Open \cup {"none"})
Rejections == {"failed", "suppressed", "no_consent", "fatigued",
               "render_failed"}
SendErrors == {"failed", "send_failed"}

\* No recipient is in two shards: ResolveSegment returns the keys of a map and
\* the shards are slices of one list.  A push campaign is the exception if a
\* profile has registered one device token with two applications: the token is
\* then listed twice, and the two may come to lie in different shards.
ShardsDisjoint(shards) ==
    \A i, k \in DOMAIN shards : i # k =>
        \A a \in DOMAIN shards[i], b \in DOMAIN shards[k] :
            shards[i][a] # shards[k][b]
AudiencesDisjoint == \A shards \in Audiences : ShardsDisjoint(shards)

ASSUME CampaignAssumption ==
    /\ ProfileOf \in [Recipient -> Profile]
    /\ Holdout \subseteq Recipient
    /\ Audiences \subseteq Seq(Seq(Recipient))
    /\ MaxJobs \in Nat
    /\ NoWorker \notin Worker
    /\ MaxAttempts \in Nat \ {0}
    /\ Refusals \subseteq Rejections \cup SendErrors
    /\ Failures \subseteq FailureKinds
    /\ MaxFaults \in Nat
    /\ EditTo \subseteq CampaignStatus \ {"none"}
    /\ MaxEdits \in Nat

JobId == 1..MaxJobs

VARIABLES
    campaign,       \* campaigns.status
    dispatchers,    \* those between the claim and the manifest
    jobs,           \* delivery_jobs
    decision,       \* delivery_attempts
    sends,          \* how often the provider has accepted the message
    events,         \* profiles whose message.sent event was accepted
    workers,        \* the local state of DeliverNext
    faults,         \* crashes, overrun leases, lost writes and answers so far
    edits,          \* API updates so far
    overrun,        \* whether a worker has outlived its lease
    excused         \* recipients some call of whose delivery has failed

tables == <<campaign, jobs, decision>>
ghosts == <<faults, edits, overrun, excused>>
vars == <<tables, dispatchers, sends, events, workers, ghosts>>

Job == [status : JobStatus, attempts : Nat, lease : Worker \cup {NoWorker},
        recipients : Seq(Recipient)]
NoJob == [status |-> "none", attempts |-> 0, lease |-> NoWorker,
          recipients |-> <<>>]

PC == {"next", "deciding", "sending", "saving", "emitting",
       "recording", "committing"}
\* todo: the recipients left; copy: the decision of the attempt as read;
\* retry: hasRetryableError; closes: what the transaction that ends the job
\* is about to write to the campaign, "none" for nothing.
WorkerState == [pc : PC, job : JobId, todo : Seq(Recipient), copy : Decision,
                retry : BOOLEAN, closes : CampaignStatus]
IdleWorker == [pc |-> "idle"]

TypeOK ==
    /\ campaign \in CampaignStatus
    /\ dispatchers \subseteq Dispatcher
    /\ jobs \in [JobId -> Job]
    /\ decision \in [Recipient -> Decision]
    /\ sends \in [Recipient -> Nat]
    /\ events \subseteq Profile
    /\ workers \in [Worker -> WorkerState \cup {IdleWorker}]
    /\ faults \in Nat
    /\ edits \in Nat
    /\ overrun \in BOOLEAN
    /\ excused \subseteq Recipient

Init ==
    /\ campaign = "none"
    /\ dispatchers = {}
    /\ jobs = [j \in JobId |-> NoJob]
    /\ decision = [r \in Recipient |-> "none"]
    /\ sends = [r \in Recipient |-> 0]
    /\ events = {}
    /\ workers = [w \in Worker |-> IdleWorker]
    /\ faults = 0
    /\ edits = 0
    /\ overrun = FALSE
    /\ excused = {}

-----------------------------------------------------------------------------
(***************************************************************************)
(* The campaign row and the dispatchers.                                   *)
(***************************************************************************)

CreateCampaign(s) ==
    /\ campaign = "none"
    /\ campaign' = s
    /\ UNCHANGED <<jobs, decision, dispatchers, sends, events,
                    workers, ghosts>>

\* The API sets any status at any time, whatever the campaign is doing.
UpdateCampaign(s) ==
    /\ campaign # "none"
    /\ edits < MaxEdits
    /\ campaign' = s
    /\ edits' = edits + 1
    /\ UNCHANGED <<jobs, decision, dispatchers, sends, events,
                    workers, faults, overrun, excused>>

Used == {j \in JobId : jobs[j].status # "none"}

\* Taken only while there is room for a job.
ClaimScheduledCampaign(d) ==
    /\ d \notin dispatchers
    /\ campaign = "scheduled"
    /\ Used # JobId
    /\ campaign' = "building"
    /\ dispatchers' = dispatchers \cup {d}
    /\ UNCHANGED <<jobs, decision, sends, events, workers, ghosts>>

\* The recipients are resolved and the manifest is stored; one transaction
\* then inserts a job for each shard, none when there are no recipients.  A
\* dispatch knows nothing of the jobs of an earlier one.
SaveCampaignManifestAndJobs(d, shards) ==
    LET n == Cardinality(Used)
    IN  /\ d \in dispatchers
        /\ n + Len(shards) <= MaxJobs
        /\ campaign' = "sending"
        /\ jobs' = [j \in JobId |->
              IF j \in n + 1 .. n + Len(shards)
              THEN [NoJob EXCEPT !.status = "pending",
                                 !.recipients = shards[j - n]]
              ELSE jobs[j]]
        /\ dispatchers' = dispatchers \ {d}
        /\ UNCHANGED <<decision, sends, events, workers, ghosts>>

\* Any error on the way, or a panic: the deferred update writes the row the
\* dispatcher has claimed, as failed.
DispatchFails(d) ==
    /\ "dispatch" \in Failures
    /\ d \in dispatchers
    /\ campaign' = "failed"
    /\ dispatchers' = dispatchers \ {d}
    /\ UNCHANGED <<jobs, decision, sends, events, workers, ghosts>>

\* A dispatcher that dies leaves the campaign building.
DispatcherCrash(d) ==
    /\ faults < MaxFaults
    /\ d \in dispatchers
    /\ dispatchers' = dispatchers \ {d}
    /\ faults' = faults + 1
    /\ UNCHANGED <<tables, sends, events, workers, edits, overrun,
                    excused>>

-----------------------------------------------------------------------------
(***************************************************************************)
(* The queue of jobs.                                                      *)
(***************************************************************************)

Busy(w) == workers[w].pc # "idle"

\* The transaction of a worker holds the lock of its job's row.
Locked(j) ==
    \E w \in Worker : workers[w].pc = "committing" /\ workers[w].job = j

\* Mutant: the lease of a worker that died is never taken over.
ClaimableNoReclaim(j) ==
    /\ ~Locked(j)
    /\ jobs[j].status \in {"pending", "failed"}
    /\ jobs[j].attempts < MaxAttempts

\* A job whose lease has run out is claimed whatever its attempts.
Claimable(j) ==
    /\ ~Locked(j)
    /\ \/ /\ jobs[j].status \in {"pending", "failed"}
          /\ jobs[j].attempts < MaxAttempts
       \/ jobs[j].status = "processing" /\ jobs[j].lease = NoWorker

ClaimDeliveryJob(w, j) ==
    /\ ~Busy(w)
    /\ Claimable(j)
    /\ jobs' = [jobs EXCEPT ![j] =
          [status |-> "processing", attempts |-> @.attempts + 1, lease |-> w,
           recipients |-> @.recipients]]
    /\ workers' = [workers EXCEPT ![w] =
          [pc |-> "next", job |-> j, todo |-> jobs[j].recipients,
           copy |-> "none", retry |-> FALSE, closes |-> "none"]]
    /\ UNCHANGED <<campaign, decision, dispatchers, sends, events,
                    ghosts>>

Active(job) == \/ job.status \in {"pending", "processing"}
               \/ job.status = "failed" /\ job.attempts < MaxAttempts

\* What the transaction writes to the campaign once it has changed its job:
\* nothing while jobs are active, by what is committed when it counts.
Closing(js) ==
    IF \E j \in JobId : Active(js[j]) THEN "none"
    ELSE IF \E j \in JobId : js[j].status \in {"failed", "dead"}
         THEN "failed" ELSE "completed"

\* Mutant: a transient error of a recipient does not fail the job.
EndedUnconditionally(w) ==
    [jobs[workers[w].job] EXCEPT !.lease = NoWorker, !.status = "completed"]

Ended(w) ==
    LET j == jobs[workers[w].job]
    IN  [j EXCEPT !.lease = NoWorker,
                  !.status = IF ~workers[w].retry THEN "completed"
                             ELSE IF j.attempts >= MaxAttempts
                                  THEN "dead" ELSE "failed"]

\* CompleteDeliveryJob or FailDeliveryJob, up to the counting of the jobs:
\* it sees its own change and not that of transactions still open.
EndJob(w) ==
    /\ workers[w].pc = "next" /\ workers[w].todo = <<>>
    /\ ~Locked(workers[w].job)
    /\ workers' = [workers EXCEPT ![w].pc = "committing",
          ![w].closes = Closing([jobs EXCEPT ![workers[w].job] = Ended(w)])]
    /\ UNCHANGED <<tables, dispatchers, sends, events, ghosts>>

CommitJob(w) ==
    /\ workers[w].pc = "committing"
    /\ jobs' = [jobs EXCEPT ![workers[w].job] = Ended(w)]
    /\ campaign' = IF workers[w].closes = "none" THEN campaign
                                                 ELSE workers[w].closes
    /\ workers' = [workers EXCEPT ![w] = IdleWorker]
    /\ UNCHANGED <<decision, dispatchers, sends, events, ghosts>>

\* The process dies, or the transaction is rolled back.
Crash(w) ==
    /\ faults < MaxFaults
    /\ Busy(w)
    /\ workers' = [workers EXCEPT ![w] = IdleWorker]
    /\ faults' = faults + 1
    /\ UNCHANGED <<tables, dispatchers, sends, events, edits,
                    overrun, excused>>

\* The lease left behind by a worker that no longer works on the job.
LeaseExpires(j) ==
    LET w == jobs[j].lease
    IN  /\ w # NoWorker
        /\ ~(Busy(w) /\ workers[w].job = j)
        /\ jobs' = [jobs EXCEPT ![j].lease = NoWorker]
        /\ UNCHANGED <<campaign, decision, dispatchers, sends,
                        events, workers, ghosts>>

\* A worker works longer than its lease of five minutes.
Overrun(w) ==
    /\ faults < MaxFaults
    /\ Busy(w)
    /\ jobs[workers[w].job].lease = w
    /\ ~Locked(workers[w].job)
    /\ jobs' = [jobs EXCEPT ![workers[w].job].lease = NoWorker]
    /\ faults' = faults + 1
    /\ overrun' = TRUE
    /\ UNCHANGED <<campaign, decision, dispatchers, sends, events,
                    workers, edits, excused>>

-----------------------------------------------------------------------------
(***************************************************************************)
(* The recipients of a job.                                                *)
(***************************************************************************)

Current(w) == Head(workers[w].todo)

\* On with the same recipient, or with the next one.
Goes(w, pc) == workers' = [workers EXCEPT ![w].pc = pc]
Continue(w, retry) ==
    workers' = [workers EXCEPT ![w].pc = "next", ![w].copy = "none",
                               ![w].todo = Tail(@), ![w].retry = retry]

\* UpdateDeliveryAttempt, by key; its error is logged and no more.
Record(r, d) ==
    \/ /\ decision' = [decision EXCEPT ![r] = d]
       /\ UNCHANGED <<faults, excused>>
    \/ /\ faults < MaxFaults
       /\ faults' = faults + 1
       /\ excused' = excused \cup {r}
       /\ UNCHANGED decision

\* The recipient is decided and the loop goes on.
Decides(w, d, retry) ==
    /\ Record(Current(w), d)
    /\ Continue(w, retry)
    /\ UNCHANGED <<campaign, jobs, dispatchers, events, edits,
                    overrun>>

\* The job is failed with the recipients that are left untried: the campaign,
\* the template or the experiment cannot be read, or a panic is recovered.  A
\* panic after the provider's answer is a fault: nothing has recorded it yet.
GiveUp(w) ==
    /\ "panic" \in Failures
    /\ Busy(w) /\ workers[w].todo # <<>>
    /\ IF workers[w].pc = "saving"
       THEN faults < MaxFaults /\ faults' = faults + 1
       ELSE UNCHANGED faults
    /\ workers' = [workers EXCEPT ![w].pc = "next", ![w].copy = "none",
                                  ![w].todo = <<>>, ![w].retry = TRUE]
    /\ UNCHANGED <<tables, dispatchers, sends, events, edits,
                    overrun, excused>>

\* The variant, its template, the device token or the sending identity
\* cannot be had, or the attempt cannot be written, read or stamped: the
\* recipient is left as it is and the job is not failed for it.
SkipRecipient(w) ==
    /\ "resolve" \in Failures
    /\ workers[w].pc \in {"next", "deciding"} /\ workers[w].todo # <<>>
    /\ excused' = excused \cup {Current(w)}
    /\ Continue(w, workers[w].retry)
    /\ UNCHANGED <<tables, dispatchers, sends, events, faults,
                    edits, overrun>>

\* The attempt is inserted, or found and read; a final one is left alone.
CreateDeliveryAttempt(w) ==
    LET r == Current(w)
    IN  /\ workers[w].pc = "next" /\ workers[w].todo # <<>>
        /\ IF decision[r] = "none"
           THEN decision' = [decision EXCEPT ![r] = "processing"]
           ELSE UNCHANGED decision
        /\ IF decision'[r] \in Open
           THEN workers' = [workers EXCEPT ![w].pc = "deciding",
                                           ![w].copy = decision'[r]]
           ELSE Continue(w, workers[w].retry)
        /\ UNCHANGED <<campaign, jobs, dispatchers, sends, events,
                        ghosts>>

HoldOut(w) ==
    /\ workers[w].pc = "deciding"
    /\ Current(w) \in Holdout
    /\ Decides(w, "holdout", workers[w].retry)
    /\ UNCHANGED sends

\* The profile cannot be loaded, the policy has another verdict than "sent",
\* or the template cannot be rendered, a message already sent or not.
Reject(w) ==
    /\ workers[w].pc = "deciding"
    /\ Current(w) \notin Holdout
    /\ \E d \in Refusals \cap Rejections : Decides(w, d, workers[w].retry)
    /\ UNCHANGED sends

\* Mutant: a message the provider has accepted already is sent again.
EligibleAgain(w) ==
    /\ workers[w].pc = "deciding"
    /\ Current(w) \notin Holdout
    /\ Goes(w, "sending")
    /\ UNCHANGED <<tables, dispatchers, sends, events, ghosts>>

Eligible(w) ==
    /\ workers[w].pc = "deciding"
    /\ Current(w) \notin Holdout
    /\ Goes(w, IF workers[w].copy = "provider_sent" THEN "emitting"
                                                    ELSE "sending")
    /\ UNCHANGED <<tables, dispatchers, sends, events, ghosts>>

SendAccepted(w) ==
    /\ workers[w].pc = "sending"
    /\ sends' = [sends EXCEPT ![Current(w)] = @ + 1]
    /\ Goes(w, "saving")
    /\ UNCHANGED <<tables, dispatchers, events, ghosts>>

\* An invalid device token, a permanent error, or a retryable one.
SendRefused(w) ==
    /\ workers[w].pc = "sending"
    /\ \/ \E d \in Refusals \cap SendErrors : Decides(w, d, workers[w].retry)
       \/ Decides(w, "retryable_failed", TRUE)
    /\ UNCHANGED sends

\* The provider has accepted the message, but its answer is lost: a
\* retryable error as far as the worker knows.
SendLost(w) ==
    /\ workers[w].pc = "sending"
    /\ faults < MaxFaults
    /\ faults' = faults + 1
    /\ sends' = [sends EXCEPT ![Current(w)] = @ + 1]
    /\ decision' = [decision EXCEPT ![Current(w)] = "retryable_failed"]
    /\ Continue(w, TRUE)
    /\ UNCHANGED <<campaign, jobs, dispatchers, events, edits,
                    overrun, excused>>

SaveProviderSent(w) ==
    /\ workers[w].pc = "saving"
    /\ Record(Current(w), "provider_sent")
    /\ Goes(w, "emitting")
    /\ UNCHANGED <<campaign, jobs, dispatchers, sends, events,
                    edits, overrun>>

\* The key of the event names the campaign and the profile.
Key(r) == ProfileOf[r]

AcceptEvent(w) ==
    /\ workers[w].pc = "emitting"
    /\ Key(Current(w)) \notin events
    /\ events' = events \cup {Key(Current(w))}
    /\ Goes(w, "recording")
    /\ UNCHANGED <<tables, dispatchers, sends, ghosts>>

\* The key is taken by an event with another time or payload, which
\* AcceptEvents takes for a conflict: the attempt stays as it is.
EmitRefused(w) ==
    /\ workers[w].pc = "emitting"
    /\ Key(Current(w)) \in events
    /\ Continue(w, workers[w].retry)
    /\ UNCHANGED <<tables, dispatchers, sends, events, ghosts>>

\* Mutant: the worker goes on to record the message although the event has
\* not been accepted.
EmitFailsRecorded(w) ==
    /\ "emit" \in Failures
    /\ workers[w].pc = "emitting"
    /\ Goes(w, "recording")
    /\ UNCHANGED <<tables, dispatchers, sends, events, ghosts>>

\* AcceptEvents fails; it may have committed all the same.
EmitFails(w) ==
    /\ "emit" \in Failures
    /\ workers[w].pc = "emitting"
    /\ events' \in {events, events \cup {Key(Current(w))}}
    /\ excused' = excused \cup {Current(w)}
    /\ Continue(w, workers[w].retry)
    /\ UNCHANGED <<tables, dispatchers, sends, faults, edits,
                    overrun>>

RecordSent(w) ==
    /\ workers[w].pc = "recording"
    /\ Decides(w, "sent", workers[w].retry)
    /\ UNCHANGED sends

-----------------------------------------------------------------------------
Deliver(w) == \/ CreateDeliveryAttempt(w) \/ HoldOut(w) \/ Reject(w)
              \/ Eligible(w) \/ SendAccepted(w) \/ SendRefused(w)
              \/ SaveProviderSent(w) \/ AcceptEvent(w) \/ EmitRefused(w)
              \/ RecordSent(w)

WorkerStep(w) == \/ \E j \in JobId : ClaimDeliveryJob(w, j)
                 \/ Deliver(w)
                 \/ EndJob(w)
                 \/ CommitJob(w)

Failure(w) == \/ GiveUp(w) \/ SkipRecipient(w) \/ SendLost(w) \/ EmitFails(w)
              \/ Crash(w) \/ Overrun(w)

Dispatch(d) ==
    \/ ClaimScheduledCampaign(d)
    \/ \E shards \in Audiences : SaveCampaignManifestAndJobs(d, shards)

Next ==
    \/ \E s \in EditTo : CreateCampaign(s) \/ UpdateCampaign(s)
    \/ \E d \in Dispatcher : \/ Dispatch(d) \/ DispatchFails(d)
                             \/ DispatcherCrash(d)
    \/ \E w \in Worker : WorkerStep(w) \/ Failure(w)
    \/ \E j \in JobId : LeaseExpires(j)

Spec == Init /\ [][Next]_vars

(***************************************************************************)
(* Fairness: campaigns-dispatcher and campaigns-delivery loop over         *)
(* DispatchNext and DeliverNext, and time passes.  No failure is forced.   *)
(***************************************************************************)
FairSpec == /\ Spec
            /\ \A d \in Dispatcher : WF_vars(Dispatch(d))
            /\ \A w \in Worker : WF_vars(WorkerStep(w))
            /\ \A j \in JobId : WF_vars(LeaseExpires(j))

-----------------------------------------------------------------------------
(***************************************************************************)
(* Properties.                                                             *)
(***************************************************************************)

\* What the attempts claim is true, although a worker that has lost its lease
\* writes over the one that has it: a recipient recorded as sent got the
\* message and a message.sent event of its profile was accepted, one recorded
\* as provider_sent got the message, and an event means that some endpoint of
\* the profile did.
AttemptsAreTrue ==
    /\ \A r \in Recipient :
          /\ decision[r] = "sent" => sends[r] > 0 /\ Key(r) \in events
          /\ decision[r] = "provider_sent" => sends[r] > 0
    /\ \A p \in events : \E r \in Recipient : Key(r) = p /\ sends[r] > 0

\* A campaign that nobody schedules again, and that has no recipient in two
\* shards, sends a message twice only for a crash, an overrun lease, a lost
\* write or a lost answer: retries of a job, after a transient error, a failed
\* load or a panic, never repeat the sends that were made.
SendsArePaidFor ==
    edits = 0 /\ AudiencesDisjoint => \A r \in Recipient : sends[r] <= 1 + faults

Lists(j, r) == \E i \in DOMAIN jobs[j].recipients : r = jobs[j].recipients[i]
Listed(r) == \E j \in JobId : Lists(j, r)

\* Decided, or accepted by the provider and announced, with the record of it
\* left at provider_sent.
Settled(r) == \/ decision[r] \in Final
              \/ decision[r] = "provider_sent" /\ Key(r) \in events

\* Some job still has the recipient to deliver, or died with it.
Waits(r) == \E j \in JobId : jobs[j].status # "completed" /\ Lists(j, r)

\* A recipient is settled, or some call of its delivery failed, or a job that
\* has not completed still has it, as long as workers keep within their
\* leases; and the last is not so in a completed campaign: a job that crashed
\* or is to be tried again keeps the campaign open, whichever job ends last.
\* Only a campaign that somebody edits may be called completed with jobs left:
\* those of a second dispatch that commits after the jobs were counted.
CompletedIsDecided ==
    ~overrun => \A r \in Recipient : Listed(r) =>
        \/ r \in excused \/ Settled(r)
        \/ Waits(r) /\ (campaign = "completed" => edits > 0)

\* Every job ends, completed or dead: none is left to a worker that is gone,
\* none is tried forever.
EveryJobSettles ==
    <>[](\A j \in JobId : jobs[j].status \in {"none", "completed", "dead"})
=============================================================================
