-------------------------- MODULE CampaignsProofs ---------------------------
(***************************************************************************)
(* Proofs about Campaigns, for any recipients, audiences, workers and      *)
(* dispatchers, any number of faults and any edits.                        *)
(***************************************************************************)
EXTENDS Campaigns, FiniteSetTheorems, TLAPS

\* The pcs at which a worker is in the middle of a recipient.
AtRecipient == PC \ {"next", "committing"}

InTheLoop ==
    \A w \in Worker : workers[w].pc \in AtRecipient => workers[w].todo # <<>>

TypeInv == TypeOK /\ InTheLoop

\* What a worker has read or done for its recipient is as true as what the
\* attempts say: it emits only what the provider has accepted and records
\* only what has been emitted.
HeldTrue(w) ==
    /\ workers[w].pc = "deciding" /\ workers[w].copy = "provider_sent" =>
         sends[Current(w)] > 0
    /\ workers[w].pc \in {"saving", "emitting", "recording"} =>
         sends[Current(w)] > 0
    /\ workers[w].pc = "recording" => Key(Current(w)) \in events

RecordTrue(r) ==
    /\ decision[r] = "sent" => sends[r] > 0 /\ Key(r) \in events
    /\ decision[r] = "provider_sent" => sends[r] > 0

TruthInv == TypeInv /\ AttemptsAreTrue /\ \A w \in Worker : HeldTrue(w)

-----------------------------------------------------------------------------
(***************************************************************************)
(* Types.                                                                  *)
(***************************************************************************)

LEMMA BusyType ==
    ASSUME TypeOK, NEW w \in Worker, Busy(w)
    PROVE  workers[w] \in WorkerState
BY DEF TypeOK, Busy, IdleWorker

LEMMA CurrentType ==
    ASSUME TypeOK, NEW w \in Worker, Busy(w), workers[w].todo # <<>>
    PROVE  /\ Current(w) \in Recipient
           /\ Tail(workers[w].todo) \in Seq(Recipient)
           /\ Key(Current(w)) \in Profile
BY BusyType, CampaignAssumption DEF WorkerState, Current, Key

LEMMA AtRecipientType ==
    ASSUME TypeInv, NEW w \in Worker, workers[w].pc \in AtRecipient
    PROVE  /\ Busy(w) /\ workers[w].todo # <<>>
           /\ workers[w] \in WorkerState
           /\ Current(w) \in Recipient
           /\ Key(Current(w)) \in Profile
<1>1. Busy(w) /\ workers[w].todo # <<>>
  BY DEF TypeInv, InTheLoop, Busy, AtRecipient, PC
<1>2. QED
  BY <1>1, BusyType, CurrentType DEF TypeInv

\* A worker that is given a new typed state, with a recipient left where one
\* is needed.
LEMMA WorkersType ==
    ASSUME TypeInv, NEW w \in Worker, NEW new \in WorkerState \cup {IdleWorker},
           workers' = [workers EXCEPT ![w] = new],
           new.pc \in AtRecipient => new.todo # <<>>
    PROVE  /\ workers' \in [Worker -> WorkerState \cup {IdleWorker}]
           /\ InTheLoop'
           /\ workers'[w] = new
           /\ \A v \in Worker : v # w => workers'[v] = workers[v]
BY DEF TypeInv, TypeOK, InTheLoop

LEMMA GoesType ==
    ASSUME TypeInv, NEW w \in Worker, Busy(w), NEW pc \in PC, Goes(w, pc),
           pc \in AtRecipient => workers[w].todo # <<>>
    PROVE  /\ workers' \in [Worker -> WorkerState \cup {IdleWorker}]
           /\ InTheLoop'
           /\ workers'[w] = [workers[w] EXCEPT !.pc = pc]
           /\ \A v \in Worker : v # w => workers'[v] = workers[v]
<1> DEFINE new == [workers[w] EXCEPT !.pc = pc]
<1>1. workers[w] \in WorkerState
  BY BusyType DEF TypeInv
<1>2. new \in WorkerState /\ new.pc = pc /\ new.todo = workers[w].todo
  BY <1>1 DEF WorkerState
<1>3. workers' = [workers EXCEPT ![w] = new]
  BY DEF Goes, TypeInv, TypeOK
<1> HIDE DEF new
<1>4. QED
  BY <1>2, <1>3, WorkersType DEF new

LEMMA ContinueType ==
    ASSUME TypeInv, NEW w \in Worker, Busy(w), workers[w].todo # <<>>,
           NEW retry \in BOOLEAN, Continue(w, retry)
    PROVE  /\ workers' \in [Worker -> WorkerState \cup {IdleWorker}]
           /\ InTheLoop'
           /\ workers'[w].pc = "next"
           /\ \A v \in Worker : v # w => workers'[v] = workers[v]
<1> DEFINE new == [workers[w] EXCEPT !.pc = "next", !.copy = "none",
                        !.todo = Tail(workers[w].todo), !.retry = retry]
<1>1. workers[w] \in WorkerState /\ Tail(workers[w].todo) \in Seq(Recipient)
  BY BusyType, CurrentType DEF TypeInv
<1>2. new \in WorkerState /\ new.pc = "next"
  BY <1>1 DEF WorkerState, PC, Decision
<1>3. workers' = [workers EXCEPT ![w] = new]
  BY <1>1 DEF Continue, TypeInv, TypeOK, WorkerState
<1> HIDE DEF new
<1>4. QED
  BY <1>2, <1>3, WorkersType DEF AtRecipient

LEMMA RecordType ==
    ASSUME TypeOK, NEW r \in Recipient, NEW d \in Decision, Record(r, d)
    PROVE  /\ decision' \in [Recipient -> Decision]
           /\ faults' \in Nat
           /\ excused' \subseteq Recipient
           /\ \A q \in Recipient : \/ decision'[q] = decision[q]
                                   \/ q = r /\ decision'[q] = d
BY DEF TypeOK, Record

LEMMA DecidesType ==
    ASSUME TypeInv, NEW w \in Worker, workers[w].pc \in AtRecipient,
           NEW d \in Decision, NEW retry \in BOOLEAN, Decides(w, d, retry),
           sends' \in [Recipient -> Nat]
    PROVE  /\ TypeInv'
           /\ workers'[w].pc = "next"
           /\ \A v \in Worker : v # w => workers'[v] = workers[v]
           /\ \A q \in Recipient : \/ decision'[q] = decision[q]
                                   \/ q = Current(w) /\ decision'[q] = d
           /\ events' = events
<1>1. Busy(w) /\ workers[w].todo # <<>> /\ Current(w) \in Recipient
  BY AtRecipientType
<1>2. Record(Current(w), d) /\ Continue(w, retry)
      /\ UNCHANGED <<campaign, jobs, dispatchers, events, edits, overrun>>
  BY DEF Decides
<1>3. /\ workers' \in [Worker -> WorkerState \cup {IdleWorker}]
      /\ InTheLoop'
      /\ workers'[w].pc = "next"
      /\ \A v \in Worker : v # w => workers'[v] = workers[v]
  BY <1>1, <1>2, ContinueType
<1>4. /\ decision' \in [Recipient -> Decision]
      /\ faults' \in Nat
      /\ excused' \subseteq Recipient
      /\ \A q \in Recipient : \/ decision'[q] = decision[q]
                              \/ q = Current(w) /\ decision'[q] = d
  BY <1>1, <1>2, RecordType DEF TypeInv
<1>5. QED
  BY <1>2, <1>3, <1>4 DEF TypeInv, TypeOK

LEMMA UsedType == Cardinality(Used) \in Nat
<1>1. IsFiniteSet(JobId)
  BY FS_Interval, CampaignAssumption DEF JobId
<1>2. Used \subseteq JobId
  BY DEF Used
<1>3. QED
  BY <1>1, <1>2, FS_Subset, FS_CardinalityType

\* The campaign row, the dispatchers and the clock leave the workers alone.
LEMMA TypeDispatch ==
    ASSUME TypeInv,
           \/ \E s \in EditTo : CreateCampaign(s) \/ UpdateCampaign(s)
           \/ \E d \in Dispatcher : \/ Dispatch(d) \/ DispatchFails(d)
                                    \/ DispatcherCrash(d)
           \/ \E j \in JobId : LeaseExpires(j)
    PROVE  TypeInv' /\ UNCHANGED <<decision, sends, events, workers>>
<1> USE DEF TypeInv, TypeOK, InTheLoop, ghosts, tables
<1>1. CASE \E s \in EditTo : CreateCampaign(s) \/ UpdateCampaign(s)
  BY <1>1, CampaignAssumption DEF CreateCampaign, UpdateCampaign
<1>2. CASE \E d \in Dispatcher : Dispatch(d)
  <2>1. PICK d \in Dispatcher : Dispatch(d)
    BY <1>2
  <2>2. CASE ClaimScheduledCampaign(d)
    BY <2>2 DEF ClaimScheduledCampaign, CampaignStatus
  <2>3. CASE \E shards \in Audiences : SaveCampaignManifestAndJobs(d, shards)
    <3>1. PICK shards \in Audiences : SaveCampaignManifestAndJobs(d, shards)
      BY <2>3
    <3> DEFINE n == Cardinality(Used)
    <3>2. n \in Nat /\ shards \in Seq(Seq(Recipient))
      BY UsedType, CampaignAssumption
    <3> HIDE DEF n
    <3>3. \A j \in JobId : j \in n + 1 .. n + Len(shards) =>
             shards[j - n] \in Seq(Recipient)
      BY <3>2, CampaignAssumption DEF JobId
    <3>4. jobs' \in [JobId -> Job]
      <4>1. jobs' = [j \in JobId |->
               IF j \in n + 1 .. n + Len(shards)
               THEN [NoJob EXCEPT !.status = "pending",
                                  !.recipients = shards[j - n]]
               ELSE jobs[j]]
        BY <3>1 DEF SaveCampaignManifestAndJobs, n
      <4>2. \A rs \in Seq(Recipient) :
              [NoJob EXCEPT !.status = "pending", !.recipients = rs] \in Job
        BY DEF NoJob, Job, JobStatus
      <4>3. QED
        BY <4>1, <4>2, <3>3
    <3>5. QED
      BY <3>1, <3>4 DEF SaveCampaignManifestAndJobs, CampaignStatus
  <2>4. QED
    BY <2>1, <2>2, <2>3 DEF Dispatch
<1>3. CASE \E d \in Dispatcher : DispatchFails(d) \/ DispatcherCrash(d)
  BY <1>3 DEF DispatchFails, DispatcherCrash, CampaignStatus
<1>4. CASE \E j \in JobId : LeaseExpires(j)
  BY <1>4, ZenonT(60) DEF LeaseExpires, Job
<1>5. QED
  BY <1>1, <1>2, <1>3, <1>4

\* The job that a busy worker ends keeps its recipients and its attempts.
LEMMA EndedType ==
    ASSUME TypeOK, NEW w \in Worker, Busy(w)
    PROVE  Ended(w) \in Job
<1>1. workers[w].job \in JobId
  BY BusyType DEF WorkerState
<1>2. jobs[workers[w].job] \in Job
  BY <1>1 DEF TypeOK
<1>3. QED
  BY <1>2 DEF Ended, Job, JobStatus

\* The queue: claims, the transaction that ends a job, crashes, overruns.
LEMMA TypeQueue ==
    ASSUME TypeInv, NEW w \in Worker,
           \/ \E j \in JobId : ClaimDeliveryJob(w, j)
           \/ EndJob(w) \/ CommitJob(w) \/ Crash(w) \/ Overrun(w)
    PROVE  /\ TypeInv'
           /\ UNCHANGED <<decision, sends, events>>
           /\ \A v \in Worker : v # w => workers'[v] = workers[v]
           /\ \/ workers'[w] = workers[w]
              \/ workers'[w].pc \notin AtRecipient
<1> USE DEF ghosts, tables
<1>1. ASSUME NEW j \in JobId, ClaimDeliveryJob(w, j)
      PROVE  /\ TypeInv'
             /\ \A v \in Worker : v # w => workers'[v] = workers[v]
             /\ workers'[w].pc \notin AtRecipient
  <2> DEFINE new == [pc |-> "next", job |-> j, todo |-> jobs[j].recipients,
                     copy |-> "none", retry |-> FALSE, closes |-> "none"]
  <2>1. jobs[j] \in Job
    BY DEF TypeInv, TypeOK
  <2>2. new \in WorkerState /\ new.pc = "next"
    BY <2>1 DEF Job, WorkerState, PC, Decision, CampaignStatus
  <2>3. workers' = [workers EXCEPT ![w] = new]
    BY <1>1 DEF ClaimDeliveryJob
  <2> HIDE DEF new
  <2>4. /\ workers' \in [Worker -> WorkerState \cup {IdleWorker}]
        /\ InTheLoop'
        /\ workers'[w] = new
        /\ \A v \in Worker : v # w => workers'[v] = workers[v]
    BY <2>2, <2>3, WorkersType DEF AtRecipient
  <2>5. jobs' \in [JobId -> Job]
    <3> DEFINE claimed == [status |-> "processing",
                           attempts |-> jobs[j].attempts + 1, lease |-> w,
                           recipients |-> jobs[j].recipients]
    <3>1. claimed \in Job
      BY <2>1 DEF Job, JobStatus
    <3>2. jobs' = [jobs EXCEPT ![j] = claimed]
      BY <1>1 DEF ClaimDeliveryJob
    <3> HIDE DEF claimed
    <3>3. QED
      BY <3>1, <3>2 DEF TypeInv, TypeOK
  <2>6. QED
    BY <1>1, <2>2, <2>4, <2>5
    DEF ClaimDeliveryJob, TypeInv, TypeOK, AtRecipient
<1>2. CASE EndJob(w)
  <2> DEFINE c == Closing([jobs EXCEPT ![workers[w].job] = Ended(w)])
             new == [workers[w] EXCEPT !.pc = "committing", !.closes = c]
  <2>1. Busy(w)
    BY <1>2 DEF EndJob, Busy
  <2>2. c \in CampaignStatus
    BY DEF Closing, CampaignStatus
  <2> HIDE DEF c
  <2>3. new \in WorkerState /\ new.pc = "committing"
    BY <2>1, <2>2, BusyType DEF TypeInv, WorkerState, PC
  <2>4. workers' = [workers EXCEPT ![w] = new]
    BY <1>2 DEF EndJob, TypeInv, TypeOK, c
  <2> HIDE DEF new
  <2>5. /\ workers' \in [Worker -> WorkerState \cup {IdleWorker}]
        /\ InTheLoop'
        /\ workers'[w] = new
        /\ \A v \in Worker : v # w => workers'[v] = workers[v]
    BY <2>3, <2>4, WorkersType DEF AtRecipient
  <2>6. QED
    BY <1>2, <2>3, <2>5 DEF EndJob, TypeInv, TypeOK, AtRecipient
<1>3. CASE CommitJob(w) \/ Crash(w)
  <2>1. Busy(w) /\ workers' = [workers EXCEPT ![w] = IdleWorker]
    BY <1>3 DEF CommitJob, Crash, Busy
  <2>2. /\ workers' \in [Worker -> WorkerState \cup {IdleWorker}]
        /\ InTheLoop'
        /\ workers'[w] = IdleWorker
        /\ \A v \in Worker : v # w => workers'[v] = workers[v]
    BY <2>1, WorkersType DEF IdleWorker, AtRecipient, PC
  <2>3. workers[w].job \in JobId /\ workers[w].closes \in CampaignStatus
        /\ Ended(w) \in Job
    BY <2>1, BusyType, EndedType DEF TypeInv, WorkerState
  <2>4. QED
    BY <1>3, <2>2, <2>3
    DEF CommitJob, Crash, TypeInv, TypeOK, AtRecipient, PC, IdleWorker
<1>4. CASE Overrun(w)
  <2>1. workers[w].job \in JobId
    BY <1>4, BusyType DEF Overrun, TypeInv, WorkerState
  <2>2. jobs' \in [JobId -> Job]
    BY <1>4, <2>1 DEF Overrun, TypeInv, TypeOK, Job
  <2>3. QED
    BY <1>4, <2>2 DEF Overrun, TypeInv, TypeOK, InTheLoop
<1>5. QED
  BY <1>1, <1>2, <1>3, <1>4
  DEF ClaimDeliveryJob, EndJob, CommitJob, Crash, Overrun

-----------------------------------------------------------------------------
(***************************************************************************)
(* Truth.                                                                  *)
(***************************************************************************)

\* Sends and events only grow, so what was true of the rows and the workers
\* a step leaves alone stays true.
LEMMA TruthKept ==
    ASSUME TruthInv, TypeInv', NEW w \in Worker,
           \A r \in Recipient : sends'[r] >= sends[r],
           events \subseteq events',
           \A p \in events' : \/ p \in events
                              \/ \E r \in Recipient : Key(r) = p /\ sends'[r] > 0,
           \A r \in Recipient : decision'[r] = decision[r] \/ RecordTrue(r)',
           \A v \in Worker : v # w => workers'[v] = workers[v],
           workers'[w] = workers[w] \/ HeldTrue(w)'
    PROVE  TruthInv'
<1>1. \A r \in Recipient : sends[r] > 0 => sends'[r] > 0
  BY DEF TruthInv, TypeInv, TypeOK
<1>2. \A r \in Recipient : RecordTrue(r)'
  BY <1>1 DEF TruthInv, AttemptsAreTrue, RecordTrue
<1>3. \A p \in events' : \E r \in Recipient : Key(r) = p /\ sends'[r] > 0
  BY <1>1 DEF TruthInv, AttemptsAreTrue
<1>4. ASSUME NEW v \in Worker, workers'[v] = workers[v]
      PROVE  HeldTrue(v)'
  <2>1. CASE workers[v].pc \in AtRecipient
    BY <1>1, <1>4, <2>1, AtRecipientType DEF TruthInv, HeldTrue, Current
  <2>2. CASE workers[v].pc \notin AtRecipient
    BY <1>4, <2>2 DEF HeldTrue, AtRecipient, PC
  <2>3. QED
    BY <2>1, <2>2
<1>5. \A v \in Worker : HeldTrue(v)'
  BY <1>4
<1>6. QED
  BY <1>2, <1>3, <1>5 DEF TruthInv, AttemptsAreTrue, RecordTrue

\* A decision other than sent and provider_sent claims nothing.
LEMMA DecidesKeeps ==
    ASSUME TruthInv, NEW w \in Worker, workers[w].pc \in AtRecipient,
           NEW d \in Decision, NEW retry \in BOOLEAN, Decides(w, d, retry),
           UNCHANGED sends,
           d = "sent" => sends[Current(w)] > 0 /\ Key(Current(w)) \in events,
           d # "provider_sent"
    PROVE  TruthInv'
<1>1. /\ TypeInv'
      /\ workers'[w].pc = "next"
      /\ \A v \in Worker : v # w => workers'[v] = workers[v]
      /\ \A q \in Recipient : \/ decision'[q] = decision[q]
                              \/ q = Current(w) /\ decision'[q] = d
      /\ events' = events
  BY DecidesType DEF TruthInv, TypeInv, TypeOK
<1>2. \A r \in Recipient : decision'[r] = decision[r] \/ RecordTrue(r)'
  BY <1>1 DEF RecordTrue, Key
<1>3. HeldTrue(w)'
  BY <1>1 DEF HeldTrue
<1>4. \A r \in Recipient : sends'[r] >= sends[r]
  BY DEF TruthInv, TypeInv, TypeOK
<1>5. QED
  BY <1>1, <1>2, <1>3, <1>4, TruthKept

\* A step that only moves the worker on.
LEMMA MoveKeeps ==
    ASSUME TruthInv, NEW w \in Worker, UNCHANGED <<decision, sends, events>>,
           TypeInv', HeldTrue(w)',
           \A v \in Worker : v # w => workers'[v] = workers[v]
    PROVE  TruthInv'
<1>1. \A r \in Recipient : sends'[r] >= sends[r]
  BY DEF TruthInv, TypeInv, TypeOK
<1>2. QED
  BY <1>1, TruthKept

\* The loop over the recipients, up to the provider.
LEMMA TruthDeciding ==
    ASSUME TruthInv, NEW w \in Worker,
           \/ CreateDeliveryAttempt(w) \/ HoldOut(w) \/ Reject(w)
           \/ Eligible(w) \/ GiveUp(w) \/ SkipRecipient(w)
    PROVE  TruthInv'
<1> USE DEF ghosts, tables
<1>0. TypeInv
  BY DEF TruthInv
<1>1. CASE CreateDeliveryAttempt(w)
  <2> DEFINE r == Current(w)
  <2>1. Busy(w) /\ workers[w].todo # <<>>
    BY <1>1 DEF CreateDeliveryAttempt, Busy
  <2>2. workers[w] \in WorkerState /\ r \in Recipient
    BY <1>0, <2>1, BusyType, CurrentType DEF TypeInv
  <2>3. /\ decision' \in [Recipient -> Decision]
        /\ \A q \in Recipient : \/ decision'[q] = decision[q]
                                \/ decision'[q] = "processing"
    BY <1>0, <1>1, <2>2
    DEF CreateDeliveryAttempt, TypeInv, TypeOK, Decision
  <2>4. /\ workers' \in [Worker -> WorkerState \cup {IdleWorker}]
        /\ InTheLoop'
        /\ \A v \in Worker : v # w => workers'[v] = workers[v]
        /\ HeldTrue(w)'
    <3>1. CASE decision'[r] \in Open
      <4> DEFINE new == [workers[w] EXCEPT !.pc = "deciding",
                                           !.copy = decision'[r]]
      <4>1. /\ new \in WorkerState /\ new.pc = "deciding"
            /\ new.todo = workers[w].todo /\ new.copy = decision'[r]
        BY <2>2, <2>3 DEF WorkerState, PC
      <4>2. workers' = [workers EXCEPT ![w] = new]
        BY <1>0, <1>1, <2>2, <3>1
        DEF CreateDeliveryAttempt, TypeInv, TypeOK, WorkerState
      <4> HIDE DEF new
      <4>3. /\ workers' \in [Worker -> WorkerState \cup {IdleWorker}]
            /\ InTheLoop'
            /\ workers'[w] = new
            /\ \A v \in Worker : v # w => workers'[v] = workers[v]
        BY <1>0, <2>1, <4>1, <4>2, WorkersType
      <4>4. decision'[r] = "provider_sent" => sends'[r] > 0
        BY <1>1, <2>2, <2>3
        DEF CreateDeliveryAttempt, TruthInv, AttemptsAreTrue
      <4>5. HeldTrue(w)'
        BY <4>1, <4>3, <4>4 DEF HeldTrue, Current
      <4>6. QED
        BY <4>3, <4>5
    <3>2. CASE decision'[r] \notin Open
      <4>1. Continue(w, workers[w].retry) /\ workers[w].retry \in BOOLEAN
        BY <1>1, <2>2, <3>2 DEF CreateDeliveryAttempt, WorkerState
      <4>2. QED
        BY <1>0, <2>1, <4>1, ContinueType DEF HeldTrue
    <3>3. QED
      BY <3>1, <3>2
  <2>5. TypeInv'
    BY <1>0, <1>1, <2>3, <2>4 DEF CreateDeliveryAttempt, TypeInv, TypeOK
  <2>6. \A q \in Recipient : decision'[q] = decision[q] \/ RecordTrue(q)'
    BY <2>3 DEF RecordTrue
  <2>7. \A q \in Recipient : sends'[q] >= sends[q]
    BY <1>0, <1>1 DEF CreateDeliveryAttempt, TypeInv, TypeOK
  <2>8. events' = events
    BY <1>1 DEF CreateDeliveryAttempt
  <2>9. QED
    BY <2>4, <2>5, <2>6, <2>7, <2>8, TruthKept
<1>2. CASE HoldOut(w) \/ Reject(w)
  <2>1. workers[w].pc \in AtRecipient
    BY <1>2 DEF HoldOut, Reject, AtRecipient, PC
  <2>2. workers[w].retry \in BOOLEAN
    BY <1>0, <2>1, AtRecipientType DEF WorkerState
  <2>3. PICK d \in Rejections \cup {"holdout"} :
          Decides(w, d, workers[w].retry) /\ UNCHANGED sends
    BY <1>2 DEF HoldOut, Reject
  <2>4. d \in Decision /\ d # "sent" /\ d # "provider_sent"
    BY <2>3 DEF Rejections, Decision
  <2>5. QED
    BY <2>1, <2>2, <2>3, <2>4, DecidesKeeps
<1>3. CASE Eligible(w)
  <2> DEFINE pc == IF workers[w].copy = "provider_sent" THEN "emitting"
                                                        ELSE "sending"
  <2>1. workers[w].pc \in AtRecipient
    BY <1>3 DEF Eligible, AtRecipient, PC
  <2>2. Busy(w) /\ workers[w].todo # <<>> /\ workers[w] \in WorkerState
    BY <1>0, <2>1, AtRecipientType
  <2>3. Goes(w, pc) /\ pc \in PC
    BY <1>3 DEF Eligible, PC
  <2>4. /\ workers' \in [Worker -> WorkerState \cup {IdleWorker}]
        /\ InTheLoop'
        /\ workers'[w] = [workers[w] EXCEPT !.pc = pc]
        /\ \A v \in Worker : v # w => workers'[v] = workers[v]
    BY <1>0, <2>2, <2>3, GoesType
  <2>5. pc = "emitting" => sends[Current(w)] > 0
    BY <1>3 DEF Eligible, TruthInv, HeldTrue
  <2>6. workers'[w].pc = pc /\ workers'[w].todo = workers[w].todo
    BY <2>2, <2>4 DEF WorkerState
  <2>7. HeldTrue(w)'
    BY <1>3, <2>5, <2>6 DEF Eligible, HeldTrue, Current
  <2>8. QED
    BY <1>0, <1>3, <2>4, <2>7, MoveKeeps DEF Eligible, TypeInv, TypeOK
<1>4. CASE GiveUp(w)
  <2> DEFINE new == [workers[w] EXCEPT !.pc = "next", !.copy = "none",
                                       !.todo = <<>>, !.retry = TRUE]
  <2>1. workers[w] \in WorkerState
    BY <1>0, <1>4, BusyType DEF GiveUp, TypeInv
  <2>2. new \in WorkerState /\ new.pc = "next"
    <3>1. \A rs \in Seq(Recipient) :
            [workers[w] EXCEPT !.pc = "next", !.copy = "none", !.todo = rs,
                               !.retry = TRUE] \in WorkerState
      BY <2>1 DEF WorkerState, PC, Decision
    <3>2. <<>> \in Seq(Recipient)
      OBVIOUS
    <3>3. new \in WorkerState
      BY <3>1, <3>2
    <3>4. QED
      BY <2>1, <3>3 DEF WorkerState
  <2>3. workers' = [workers EXCEPT ![w] = new]
    BY <1>0, <1>4, <2>1 DEF GiveUp, TypeInv, TypeOK, WorkerState
  <2> HIDE DEF new
  <2>4. /\ workers' \in [Worker -> WorkerState \cup {IdleWorker}]
        /\ InTheLoop'
        /\ workers'[w] = new
        /\ \A v \in Worker : v # w => workers'[v] = workers[v]
    BY <1>0, <2>2, <2>3, WorkersType DEF AtRecipient
  <2>5. HeldTrue(w)'
    BY <2>2, <2>4 DEF HeldTrue
  <2>6. faults' \in Nat
    BY <1>0, <1>4 DEF GiveUp, TypeInv, TypeOK
  <2>7. QED
    BY <1>0, <1>4, <2>4, <2>5, <2>6, MoveKeeps DEF GiveUp, TypeInv, TypeOK
<1>5. CASE SkipRecipient(w)
  <2>1. Busy(w) /\ workers[w].todo # <<>>
    BY <1>5 DEF SkipRecipient, Busy
  <2>2. workers[w].retry \in BOOLEAN /\ Current(w) \in Recipient
    BY <1>0, <2>1, BusyType, CurrentType DEF TypeInv, WorkerState
  <2>3. /\ workers' \in [Worker -> WorkerState \cup {IdleWorker}]
        /\ InTheLoop'
        /\ workers'[w].pc = "next"
        /\ \A v \in Worker : v # w => workers'[v] = workers[v]
    BY <1>0, <1>5, <2>1, <2>2, ContinueType DEF SkipRecipient
  <2>4. HeldTrue(w)'
    BY <2>3 DEF HeldTrue
  <2>5. QED
    BY <1>0, <1>5, <2>2, <2>3, <2>4, MoveKeeps
    DEF SkipRecipient, TypeInv, TypeOK
<1>6. QED
  BY <1>1, <1>2, <1>3, <1>4, <1>5

\* The provider, the event and the record of the send.
LEMMA TruthSending ==
    ASSUME TruthInv, NEW w \in Worker,
           \/ SendAccepted(w) \/ SendRefused(w) \/ SendLost(w)
           \/ SaveProviderSent(w) \/ AcceptEvent(w) \/ EmitRefused(w)
           \/ EmitFails(w) \/ RecordSent(w)
    PROVE  TruthInv'
<1> USE DEF ghosts, tables
<1> DEFINE r == Current(w)
<1>0. TypeInv
  BY DEF TruthInv
<1>1. /\ Busy(w) /\ workers[w].todo # <<>>
      /\ workers[w] \in WorkerState
      /\ workers[w].pc \in AtRecipient
      /\ r \in Recipient /\ Key(r) \in Profile
  <2>1. workers[w].pc \in AtRecipient
    BY DEF SendAccepted, SendRefused, SendLost, SaveProviderSent, AcceptEvent,
           EmitRefused, EmitFails, RecordSent, AtRecipient, PC
  <2>2. QED
    BY <1>0, <2>1, AtRecipientType
<1>2. workers[w].retry \in BOOLEAN
  BY <1>1 DEF WorkerState
<1>3. CASE SendAccepted(w) \/ SendLost(w)
  <2>1. sends' = [sends EXCEPT ![r] = @ + 1] /\ events' = events
    BY <1>3 DEF SendAccepted, SendLost
  <2>2. /\ sends' \in [Recipient -> Nat] /\ sends'[r] > 0
        /\ \A q \in Recipient : sends'[q] >= sends[q]
    BY <1>0, <1>1, <2>1 DEF TypeInv, TypeOK
  <2>3. CASE SendAccepted(w)
    <3>1. Goes(w, "saving") /\ "saving" \in PC
      BY <2>3 DEF SendAccepted, PC
    <3>2. /\ workers' \in [Worker -> WorkerState \cup {IdleWorker}]
          /\ InTheLoop'
          /\ workers'[w] = [workers[w] EXCEPT !.pc = "saving"]
          /\ \A v \in Worker : v # w => workers'[v] = workers[v]
      BY <1>0, <1>1, <3>1, GoesType
    <3>3. workers'[w].pc = "saving" /\ workers'[w].todo = workers[w].todo
      BY <1>1, <3>2 DEF WorkerState
    <3>4. HeldTrue(w)'
      BY <2>2, <3>3 DEF HeldTrue, Current
    <3>5. TypeInv' /\ decision' = decision
      BY <1>0, <2>1, <2>2, <2>3, <3>2 DEF SendAccepted, TypeInv, TypeOK
    <3>6. QED
      BY <2>1, <2>2, <3>2, <3>4, <3>5, TruthKept
  <2>4. CASE SendLost(w)
    <3>1. Continue(w, TRUE)
          /\ decision' = [decision EXCEPT ![r] = "retryable_failed"]
      BY <2>4 DEF SendLost
    <3>2. /\ workers' \in [Worker -> WorkerState \cup {IdleWorker}]
          /\ InTheLoop'
          /\ workers'[w].pc = "next"
          /\ \A v \in Worker : v # w => workers'[v] = workers[v]
      BY <1>0, <1>1, <3>1, ContinueType
    <3>3. HeldTrue(w)'
      BY <3>2 DEF HeldTrue
    <3>4. /\ decision' \in [Recipient -> Decision]
          /\ \A q \in Recipient : \/ decision'[q] = decision[q]
                                  \/ decision'[q] = "retryable_failed"
      BY <1>0, <1>1, <3>1 DEF TypeInv, TypeOK, Decision
    <3>5. \A q \in Recipient : decision'[q] = decision[q] \/ RecordTrue(q)'
      BY <3>4 DEF RecordTrue
    <3>6. faults' \in Nat
      BY <1>0, <2>4 DEF SendLost, TypeInv, TypeOK
    <3>7. TypeInv'
      BY <1>0, <2>1, <2>2, <2>4, <3>2, <3>4, <3>6
      DEF SendLost, TypeInv, TypeOK
    <3>8. QED
      BY <2>1, <2>2, <3>2, <3>3, <3>5, <3>7, TruthKept
  <2>5. QED
    BY <1>3, <2>3, <2>4
<1>4. CASE SendRefused(w)
  <2>1. PICK d \in SendErrors \cup {"retryable_failed"}, retry \in BOOLEAN :
          Decides(w, d, retry)
    BY <1>2, <1>4 DEF SendRefused
  <2>2. d \in Decision /\ d # "sent" /\ d # "provider_sent"
    BY <2>1 DEF SendErrors, Decision
  <2>3. UNCHANGED sends
    BY <1>4 DEF SendRefused
  <2>4. QED
    BY <1>1, <2>1, <2>2, <2>3, DecidesKeeps
<1>5. CASE SaveProviderSent(w)
  <2>1. /\ Record(r, "provider_sent") /\ "provider_sent" \in Decision
        /\ Goes(w, "emitting") /\ "emitting" \in PC
        /\ UNCHANGED <<campaign, jobs, dispatchers, sends, events, edits,
                       overrun>>
    BY <1>5 DEF SaveProviderSent, PC, Decision
  <2>2. sends[r] > 0
    BY <1>5 DEF SaveProviderSent, TruthInv, HeldTrue
  <2>3. /\ decision' \in [Recipient -> Decision]
        /\ faults' \in Nat
        /\ excused' \subseteq Recipient
        /\ \A q \in Recipient : \/ decision'[q] = decision[q]
                                \/ q = r /\ decision'[q] = "provider_sent"
    BY <1>0, <1>1, <2>1, RecordType DEF TypeInv
  <2>4. /\ workers' \in [Worker -> WorkerState \cup {IdleWorker}]
        /\ InTheLoop'
        /\ workers'[w] = [workers[w] EXCEPT !.pc = "emitting"]
        /\ \A v \in Worker : v # w => workers'[v] = workers[v]
    BY <1>0, <1>1, <2>1, GoesType
  <2>5. workers'[w].pc = "emitting" /\ workers'[w].todo = workers[w].todo
    BY <1>1, <2>4 DEF WorkerState
  <2>6. HeldTrue(w)'
    BY <2>1, <2>2, <2>5 DEF HeldTrue, Current
  <2>7. \A q \in Recipient : decision'[q] = decision[q] \/ RecordTrue(q)'
    BY <2>1, <2>2, <2>3 DEF RecordTrue
  <2>8. TypeInv' /\ \A q \in Recipient : sends'[q] >= sends[q]
    BY <1>0, <2>1, <2>3, <2>4 DEF TypeInv, TypeOK
  <2>9. QED
    BY <2>1, <2>4, <2>6, <2>7, <2>8, TruthKept
<1>6. CASE AcceptEvent(w)
  <2>1. /\ events' = events \cup {Key(r)}
        /\ Goes(w, "recording") /\ "recording" \in PC
        /\ UNCHANGED <<tables, dispatchers, sends, ghosts>>
    BY <1>6 DEF AcceptEvent, PC
  <2>2. sends[r] > 0
    BY <1>6 DEF AcceptEvent, TruthInv, HeldTrue
  <2>3. /\ workers' \in [Worker -> WorkerState \cup {IdleWorker}]
        /\ InTheLoop'
        /\ workers'[w] = [workers[w] EXCEPT !.pc = "recording"]
        /\ \A v \in Worker : v # w => workers'[v] = workers[v]
    BY <1>0, <1>1, <2>1, GoesType
  <2>4. workers'[w].pc = "recording" /\ workers'[w].todo = workers[w].todo
    BY <1>1, <2>3 DEF WorkerState
  <2>5. HeldTrue(w)'
    BY <2>1, <2>2, <2>4 DEF HeldTrue, Current, Key
  <2>6. TypeInv' /\ \A q \in Recipient : sends'[q] >= sends[q]
    BY <1>0, <1>1, <2>1, <2>3 DEF TypeInv, TypeOK
  <2>7. \A p \in events' : \/ p \in events
                           \/ \E q \in Recipient : Key(q) = p /\ sends'[q] > 0
    BY <1>1, <2>1, <2>2
  <2>8. QED
    BY <2>1, <2>3, <2>5, <2>6, <2>7, TruthKept
<1>7. CASE EmitRefused(w) \/ EmitFails(w)
  <2>1. /\ Continue(w, workers[w].retry)
        /\ events' \in {events, events \cup {Key(r)}}
        /\ excused' \in {excused, excused \cup {r}}
        /\ UNCHANGED <<tables, dispatchers, sends, faults, edits, overrun>>
    BY <1>7 DEF EmitRefused, EmitFails
  <2>2. sends[r] > 0
    BY <1>7 DEF EmitRefused, EmitFails, TruthInv, HeldTrue
  <2>3. /\ workers' \in [Worker -> WorkerState \cup {IdleWorker}]
        /\ InTheLoop'
        /\ workers'[w].pc = "next"
        /\ \A v \in Worker : v # w => workers'[v] = workers[v]
    BY <1>0, <1>1, <1>2, <2>1, ContinueType
  <2>4. HeldTrue(w)'
    BY <2>3 DEF HeldTrue
  <2>5. TypeInv' /\ \A q \in Recipient : sends'[q] >= sends[q]
    BY <1>0, <1>1, <2>1, <2>3 DEF TypeInv, TypeOK
  <2>6. \A p \in events' : \/ p \in events
                           \/ \E q \in Recipient : Key(q) = p /\ sends'[q] > 0
    BY <1>1, <2>1, <2>2
  <2>7. QED
    BY <2>1, <2>3, <2>4, <2>5, <2>6, TruthKept
<1>8. CASE RecordSent(w)
  <2>1. Decides(w, "sent", workers[w].retry) /\ UNCHANGED sends
    BY <1>8 DEF RecordSent
  <2>2. sends[r] > 0 /\ Key(r) \in events
    BY <1>8 DEF RecordSent, TruthInv, HeldTrue
  <2>3. "sent" \in Decision
    BY DEF Decision
  <2>4. QED
    BY <1>1, <1>2, <2>1, <2>2, <2>3, DecidesKeeps
<1>9. QED
  BY <1>3, <1>4, <1>5, <1>6, <1>7, <1>8

-----------------------------------------------------------------------------
(***************************************************************************)
(* The theorems.                                                           *)
(***************************************************************************)

LEMMA TruthInit == Init => TruthInv
<1> SUFFICES ASSUME Init PROVE TruthInv
  OBVIOUS
<1>1. <<>> \in Seq(Recipient)
  OBVIOUS
<1>2. NoJob \in Job
  BY <1>1 DEF NoJob, Job, JobStatus
<1>3. TypeOK
  BY <1>2 DEF Init, TypeOK, CampaignStatus, Decision
<1>4. \A w \in Worker : workers[w].pc = "idle"
  BY DEF Init, IdleWorker
<1>5. InTheLoop /\ \A w \in Worker : HeldTrue(w)
  BY <1>4 DEF InTheLoop, HeldTrue, AtRecipient, PC
<1>6. AttemptsAreTrue
  BY DEF Init, AttemptsAreTrue
<1>7. QED
  BY <1>3, <1>5, <1>6 DEF TruthInv, TypeInv

LEMMA TruthStep ==
    ASSUME TruthInv, [Next]_vars
    PROVE  TruthInv'
<1>0. TypeInv
  BY DEF TruthInv
<1>1. CASE \/ \E s \in EditTo : CreateCampaign(s) \/ UpdateCampaign(s)
           \/ \E d \in Dispatcher : \/ Dispatch(d) \/ DispatchFails(d)
                                    \/ DispatcherCrash(d)
           \/ \E j \in JobId : LeaseExpires(j)
  <2>1. TypeInv' /\ UNCHANGED <<decision, sends, events, workers>>
    BY <1>0, <1>1, TypeDispatch
  <2>2. QED
    BY <2>1 DEF TruthInv, AttemptsAreTrue, HeldTrue, Current
<1>2. ASSUME NEW w \in Worker,
             \/ \E j \in JobId : ClaimDeliveryJob(w, j)
             \/ EndJob(w) \/ CommitJob(w) \/ Crash(w) \/ Overrun(w)
      PROVE  TruthInv'
  <2>1. /\ TypeInv'
        /\ UNCHANGED <<decision, sends, events>>
        /\ \A v \in Worker : v # w => workers'[v] = workers[v]
        /\ \/ workers'[w] = workers[w]
           \/ workers'[w].pc \notin AtRecipient
    BY <1>0, <1>2, TypeQueue
  <2>2. HeldTrue(w)'
    BY <2>1 DEF HeldTrue, AtRecipient, PC, TruthInv, Current
  <2>3. QED
    BY <2>1, <2>2, MoveKeeps
<1>3. ASSUME NEW w \in Worker, Deliver(w) \/ GiveUp(w) \/ SkipRecipient(w)
                                 \/ SendLost(w) \/ EmitFails(w)
      PROVE  TruthInv'
  BY <1>3, TruthDeciding, TruthSending DEF Deliver
<1>4. CASE UNCHANGED vars
  BY <1>4 DEF vars, tables, ghosts, TruthInv, TypeInv, TypeOK, InTheLoop,
              AttemptsAreTrue, HeldTrue, Current
<1>5. QED
  BY <1>1, <1>2, <1>3, <1>4 DEF Next, WorkerStep, Failure

\* Every reachable state of the campaign tables, the dispatchers and the
\* workers is of its type.
THEOREM CampaignTypeCorrect == Spec => []TypeOK
<1>1. TruthInv => TypeOK
  BY DEF TruthInv, TypeInv
<1>2. QED
  BY <1>1, TruthInit, TruthStep, PTL DEF Spec

\* The rows of delivery_attempts never claim a send or an event that did not
\* happen, whoever writes them and whatever fails: the order accept, save,
\* emit, record of DeliverNext is enough, with no fencing at all.
THEOREM CampaignRecordsAreTrue == Spec => []AttemptsAreTrue
<1>1. TruthInv => AttemptsAreTrue
  BY DEF TruthInv
<1>2. QED
  BY <1>1, TruthInit, TruthStep, PTL DEF Spec
-----------------------------------------------------------------------------
(***************************************************************************)
(* Leases and dispatches.                                                  *)
(***************************************************************************)

\* Jobs are numbered as they are inserted.
Numbered ==
    /\ \E n \in Nat : Used = 1..n
    /\ \A j \in JobId : jobs[j].status = "none" => jobs[j].recipients = <<>>

\* A worker works on recipients of its job, and has the lease of it until one
\* overruns its own.
Lawful(w) ==
    Busy(w) => /\ jobs[workers[w].job].status # "none"
               /\ \A i \in DOMAIN workers[w].todo :
                     Lists(workers[w].job, workers[w].todo[i])
               /\ workers[w].pc = "committing" =>
                     /\ workers[w].todo = <<>>
                     /\ workers[w].closes \in {"none", "completed", "failed"}
Leased(w) ==
    Busy(w) => /\ jobs[workers[w].job].status = "processing"
               /\ jobs[workers[w].job].lease = w
QueueInv ==
    /\ Numbered
    /\ \A w \in Worker : Lawful(w)
    /\ ~overrun => \A w \in Worker : Leased(w)

\* A campaign that nobody edits is dispatched once.
DispatchInv ==
    edits = 0 =>
        /\ campaign \in {"none", "scheduled"} => Used = {}
        /\ dispatchers # {} => campaign = "building" /\ Used = {}
        /\ \A d, e \in dispatchers : d = e
        /\ AudiencesDisjoint =>
              \A r \in Recipient, j, k \in JobId : Lists(j, r) /\ Lists(k, r) => j = k

-----------------------------------------------------------------------------
(***************************************************************************)
(* Completed campaigns.                                                    *)
(***************************************************************************)

Ahead(w, r) == \E i \in DOMAIN workers[w].todo : workers[w].todo[i] = r

\* Worker w has seen or written that the provider accepted the message.
Announcing(w, r) ==
    /\ workers[w].todo # <<>> /\ Current(w) = r
    /\ \/ workers[w].pc \in {"emitting", "recording"}
       \/ workers[w].pc = "deciding" /\ workers[w].copy = "provider_sent"

\* A job that has not completed has the recipient to deliver; or to send to.
Owes(j, r) ==
    /\ jobs[j].status # "completed" /\ Lists(j, r)
    /\ \A w \in Worker : Busy(w) /\ workers[w].job = j =>
          workers[w].retry \/ Ahead(w, r)
OwesSend(j, r) ==
    /\ jobs[j].status # "completed" /\ Lists(j, r)
    /\ \A w \in Worker : Busy(w) /\ workers[w].job = j =>
          workers[w].retry \/ (Ahead(w, r) /\ ~Announcing(w, r))

Sent(r) == decision[r] \in Final \cup {"provider_sent"}
DecidedInv ==
    ~overrun => \A r \in Recipient :
        /\ Listed(r) => \/ r \in excused \/ Sent(r)
                        \/ \E j \in JobId : OwesSend(j, r)
        /\ decision[r] = "provider_sent" =>
              \/ r \in excused \/ Key(r) \in events
              \/ \E j \in JobId : Owes(j, r)

Over(j) == jobs[j].status \in {"none", "completed"}
CloseInv ==
    edits = 0 /\ ~overrun =>
        /\ campaign = "completed" => \A j \in JobId : Over(j)
        /\ \A w \in Worker :
              workers[w].pc = "committing" /\ workers[w].closes = "completed" =>
                 /\ ~workers[w].retry
                 /\ \A j \in JobId : j # workers[w].job => Over(j)

-----------------------------------------------------------------------------
(***************************************************************************)
(* Sends.                                                                  *)
(***************************************************************************)

Sendable == {"none", "processing", "retryable_failed"}

\* What a worker has read of the attempt is still so.
Fresh(w) ==
    /\ workers[w].pc = "deciding" =>
          decision[Current(w)] = workers[w].copy /\ workers[w].copy \in Open
    /\ workers[w].pc \in {"sending", "saving"} => decision[Current(w)] \in Sendable
Saving(r) == \E w \in Worker : workers[w].pc = "saving" /\ Current(w) = r
Spare(r) == IF decision[r] \in Sendable /\ ~Saving(r) THEN 1 ELSE 0
SendsInv ==
    edits = 0 /\ AudiencesDisjoint /\ ~overrun =>
        /\ \A w \in Worker : Fresh(w)
        /\ \A r \in Recipient : sends[r] + Spare(r) <= 1 + faults
-----------------------------------------------------------------------------
(***************************************************************************)
(* What the steps of the loop over the recipients amount to.               *)
(***************************************************************************)

Frame(w) ==
    /\ workers[w] \in WorkerState /\ workers[w].pc # "committing"
    /\ workers[w].todo # <<>> /\ Current(w) \in Recipient
    /\ workers'[w] \in WorkerState /\ workers'[w].pc # "committing"
    /\ workers'[w].job = workers[w].job
    /\ \A v \in Worker \ {w} : workers'[v] = workers[v]
    /\ \A q \in Recipient \ {Current(w)} :
          decision'[q] = decision[q] /\ sends'[q] = sends[q]
    /\ events \subseteq events' /\ excused \subseteq excused'
    /\ faults' \in {faults, faults + 1}
    /\ UNCHANGED <<campaign, jobs, dispatchers, edits, overrun>>

\* On with the recipient at pc, or with the next one.
Stays(w, pc) ==
    /\ workers'[w].pc = pc
    /\ workers'[w].todo = workers[w].todo
    /\ workers'[w].retry = workers[w].retry
Passes(w, retry) ==
    /\ workers'[w].pc = "next"
    /\ workers'[w].todo = Tail(workers[w].todo)
    /\ workers'[w].retry = retry
Same(r) == decision'[r] = decision[r]
Silent(r) == sends'[r] = sends[r]

Reads(w, r) ==
    /\ workers[w].pc = "next" /\ Stays(w, "deciding")
    /\ decision'[r] \in Open /\ workers'[w].copy = decision'[r]
    /\ \/ Same(r)
       \/ decision[r] = "none" /\ decision'[r] = "processing"
    /\ Silent(r)
Settles(w, r) ==
    /\ workers[w].pc # "saving" /\ Passes(w, workers[w].retry)
    /\ \/ decision'[r] \in Final
       \/ Same(r) /\ r \in excused'
    /\ Silent(r)
Retries(w, r) ==
    /\ workers[w].pc = "sending" /\ Passes(w, TRUE)
    /\ \/ decision'[r] = "retryable_failed"
       \/ Same(r)
    /\ \/ Silent(r)
       \/ sends'[r] = sends[r] + 1 /\ faults' = faults + 1
Drops(w, r) ==
    /\ workers'[w].pc = "next" /\ workers'[w].todo = <<>>
    /\ workers'[w].retry = TRUE
    /\ workers[w].pc = "saving" => faults' = faults + 1
    /\ Same(r) /\ Silent(r)
Chooses(w, r) ==
    /\ workers[w].pc = "deciding"
    /\ Stays(w, IF workers[w].copy = "provider_sent" THEN "emitting"
                                                     ELSE "sending")
    /\ Same(r) /\ Silent(r)
Accepts(w, r) ==
    /\ workers[w].pc = "sending" /\ Stays(w, "saving")
    /\ Same(r) /\ sends'[r] = sends[r] + 1
Saves(w, r) ==
    /\ workers[w].pc = "saving" /\ Stays(w, "emitting")
    /\ \/ decision'[r] = "provider_sent"
       \/ Same(r) /\ r \in excused' /\ faults' = faults + 1
    /\ Silent(r)
Announces(w, r) ==
    /\ workers[w].pc = "emitting" /\ Stays(w, "recording")
    /\ Same(r) /\ Silent(r)
Leaves(w, r) ==
    /\ workers[w].pc = "emitting" /\ Passes(w, workers[w].retry)
    /\ Key(r) \in events
    /\ Same(r) /\ Silent(r)

Loops(w, r) ==
    \/ Reads(w, r) \/ Settles(w, r) \/ Retries(w, r) \/ Drops(w, r)
    \/ Chooses(w, r) \/ Accepts(w, r) \/ Saves(w, r) \/ Announces(w, r)
    \/ Leaves(w, r)

LEMMA ContinueFields ==
    ASSUME TypeInv, NEW w \in Worker, Busy(w), workers[w].todo # <<>>,
           NEW retry \in BOOLEAN, Continue(w, retry)
    PROVE  /\ workers'[w] \in WorkerState
           /\ workers'[w].job = workers[w].job
           /\ Passes(w, retry)
           /\ \A v \in Worker \ {w} : workers'[v] = workers[v]
<1>1. workers[w] \in WorkerState /\ Tail(workers[w].todo) \in Seq(Recipient)
  BY BusyType, CurrentType DEF TypeInv
<1>2. workers'[w] = [workers[w] EXCEPT !.pc = "next", !.copy = "none",
                        !.todo = Tail(workers[w].todo), !.retry = retry]
      /\ \A v \in Worker \ {w} : workers'[v] = workers[v]
  BY <1>1 DEF Continue, TypeInv, TypeOK, WorkerState
<1> QED
  BY <1>1, <1>2 DEF Passes, WorkerState, PC, Decision

LEMMA GoesFields ==
    ASSUME TypeInv, NEW w \in Worker, Busy(w), NEW pc \in PC, Goes(w, pc)
    PROVE  /\ workers'[w] \in WorkerState
           /\ workers'[w].job = workers[w].job
           /\ Stays(w, pc)
           /\ \A v \in Worker \ {w} : workers'[v] = workers[v]
<1>1. workers[w] \in WorkerState
  BY BusyType DEF TypeInv
<1>2. workers'[w] = [workers[w] EXCEPT !.pc = pc]
      /\ \A v \in Worker \ {w} : workers'[v] = workers[v]
  BY <1>1 DEF Goes, TypeInv, TypeOK
<1> QED
  BY <1>1, <1>2 DEF Stays, WorkerState

LEMMA RecordFields ==
    ASSUME TypeInv, NEW r \in Recipient, NEW d, Record(r, d)
    PROVE  /\ \A q \in Recipient \ {r} : decision'[q] = decision[q]
           /\ excused \subseteq excused' /\ faults' \in {faults, faults + 1}
           /\ \/ decision'[r] = d
              \/ Same(r) /\ r \in excused' /\ faults' = faults + 1
BY DEF Record, TypeInv, TypeOK, Same

\* A step at a recipient that passes on with a decision.
LEMMA DecidesFields ==
    ASSUME TypeInv, NEW w \in Worker, workers[w].pc \in AtRecipient,
           NEW d, NEW retry \in BOOLEAN, Decides(w, d, retry), UNCHANGED sends
    PROVE  /\ Frame(w) /\ Passes(w, retry) /\ Silent(Current(w))
           /\ \/ decision'[Current(w)] = d
              \/ Same(Current(w)) /\ Current(w) \in excused'
<1>1. /\ Busy(w) /\ workers[w].todo # <<>> /\ workers[w] \in WorkerState
      /\ Current(w) \in Recipient
  BY AtRecipientType
<1>2. /\ workers'[w] \in WorkerState
      /\ workers'[w].job = workers[w].job
      /\ Passes(w, retry)
      /\ \A v \in Worker \ {w} : workers'[v] = workers[v]
  BY <1>1, ContinueFields DEF Decides
<1>3. /\ \A q \in Recipient \ {Current(w)} : decision'[q] = decision[q]
      /\ excused \subseteq excused' /\ faults' \in {faults, faults + 1}
      /\ \/ decision'[Current(w)] = d
         \/ Same(Current(w)) /\ Current(w) \in excused' /\ faults' = faults + 1
  BY <1>1, RecordFields DEF Decides
<1>4. workers[w].pc # "committing" /\ workers'[w].pc # "committing"
  BY <1>2 DEF AtRecipient, Passes
<1> QED
  BY <1>1, <1>2, <1>3, <1>4 DEF Frame, Decides, Silent

\* The steps that change nothing but the worker, or sends and events too.
LEMMA GoesFrame ==
    ASSUME TypeInv, NEW w \in Worker, workers[w].pc \in AtRecipient,
           NEW pc \in PC \ {"committing"}, Goes(w, pc),
           \A q \in Recipient \ {Current(w)} :
              decision'[q] = decision[q] /\ sends'[q] = sends[q],
           events \subseteq events', excused \subseteq excused',
           faults' \in {faults, faults + 1},
           UNCHANGED <<campaign, jobs, dispatchers, edits, overrun>>
    PROVE  Frame(w) /\ Stays(w, pc)
<1>1. /\ Busy(w) /\ workers[w].todo # <<>> /\ workers[w] \in WorkerState
      /\ Current(w) \in Recipient
  BY AtRecipientType
<1>2. /\ workers'[w] \in WorkerState
      /\ workers'[w].job = workers[w].job
      /\ Stays(w, pc)
      /\ \A v \in Worker \ {w} : workers'[v] = workers[v]
  BY <1>1, GoesFields
<1>3. workers[w].pc # "committing" /\ workers'[w].pc # "committing"
  BY <1>2 DEF AtRecipient, Stays
<1> QED
  BY <1>1, <1>2, <1>3 DEF Frame

LEMMA ContinueFrame ==
    ASSUME TypeInv, NEW w \in Worker, workers[w].pc \in AtRecipient \cup {"next"},
           workers[w].todo # <<>>, Continue(w, workers[w].retry),
           UNCHANGED <<decision, sends, campaign, jobs, dispatchers, edits, overrun>>,
           events \subseteq events', excused \subseteq excused', faults' = faults
    PROVE  /\ Frame(w) /\ Passes(w, workers[w].retry)
           /\ Same(Current(w)) /\ Silent(Current(w))
<1>1. /\ Busy(w) /\ workers[w] \in WorkerState /\ Current(w) \in Recipient
      /\ workers[w].retry \in BOOLEAN
  <2>1. Busy(w)
    BY DEF Busy, AtRecipient, PC
  <2> QED
    BY <2>1, BusyType, CurrentType DEF TypeInv, WorkerState
<1>2. /\ workers'[w] \in WorkerState
      /\ workers'[w].job = workers[w].job
      /\ Passes(w, workers[w].retry)
      /\ \A v \in Worker \ {w} : workers'[v] = workers[v]
  BY <1>1, ContinueFields
<1>3. workers[w].pc # "committing" /\ workers'[w].pc # "committing"
  BY <1>2 DEF AtRecipient, Passes
<1> QED
  BY <1>1, <1>2, <1>3 DEF Frame, Same, Silent

LEMMA LoopSteps ==
    ASSUME TypeInv, QueueInv, NEW w \in Worker,
           Deliver(w) \/ GiveUp(w) \/ SkipRecipient(w) \/ SendLost(w) \/ EmitFails(w)
    PROVE  Frame(w) /\ Loops(w, Current(w))
<1> USE DEF ghosts, tables
<1> DEFINE r == Current(w)
<1>1. CASE CreateDeliveryAttempt(w)
  <2>1. Busy(w) /\ workers[w].todo # <<>> /\ workers[w].pc = "next"
    BY <1>1 DEF CreateDeliveryAttempt, Busy
  <2>2. workers[w] \in WorkerState /\ r \in Recipient /\ workers[w].retry \in BOOLEAN
    BY <2>1, BusyType, CurrentType DEF TypeInv, WorkerState
  <2>3. /\ \A q \in Recipient \ {r} : decision'[q] = decision[q]
        /\ \/ Same(r)
           \/ decision[r] = "none" /\ decision'[r] = "processing"
        /\ decision'[r] \in Decision
    BY <1>1, <2>2 DEF CreateDeliveryAttempt, TypeInv, TypeOK, Same, Decision
  <2>4. /\ Silent(r) /\ \A q \in Recipient \ {r} : sends'[q] = sends[q]
        /\ UNCHANGED <<campaign, jobs, dispatchers, edits, overrun, events, excused, faults>>
    BY <1>1 DEF CreateDeliveryAttempt, Silent
  <2>5. CASE decision'[r] \in Open
    <3>1. /\ workers'[w] = [workers[w] EXCEPT !.pc = "deciding", !.copy = decision'[r]]
          /\ \A v \in Worker \ {w} : workers'[v] = workers[v]
      BY <1>1, <2>2, <2>5 DEF CreateDeliveryAttempt, TypeInv, TypeOK, WorkerState
    <3>2. /\ workers'[w] \in WorkerState /\ workers'[w].job = workers[w].job
          /\ Stays(w, "deciding") /\ workers'[w].copy = decision'[r]
      BY <2>2, <2>3, <3>1 DEF WorkerState, PC, Stays
    <3> QED
      BY <2>1, <2>2, <2>3, <2>4, <2>5, <3>1, <3>2 DEF Frame, Loops, Reads, Stays
  <2>6. CASE decision'[r] \notin Open
    <3>1. Continue(w, workers[w].retry)
      BY <1>1, <2>6 DEF CreateDeliveryAttempt
    <3>2. /\ workers'[w] \in WorkerState /\ workers'[w].job = workers[w].job
          /\ Passes(w, workers[w].retry)
          /\ \A v \in Worker \ {w} : workers'[v] = workers[v]
      BY <2>1, <2>2, <3>1, ContinueFields
    <3>3. decision'[r] \in Final
      BY <1>1, <2>2, <2>3, <2>6 DEF CreateDeliveryAttempt, Final, Open, TypeInv, TypeOK
    <3> QED
      BY <2>1, <2>2, <2>3, <2>4, <3>2, <3>3 DEF Frame, Loops, Settles, Passes
  <2> QED
    BY <2>5, <2>6
<1>2. CASE HoldOut(w) \/ Reject(w) \/ RecordSent(w)
  <2>1. workers[w].pc \in AtRecipient /\ workers[w].pc # "saving"
    BY <1>2 DEF HoldOut, Reject, RecordSent, AtRecipient, PC
  <2>2. workers[w].retry \in BOOLEAN
    BY <2>1, AtRecipientType DEF WorkerState
  <2>3. PICK d \in Rejections \cup {"holdout", "sent"} :
          Decides(w, d, workers[w].retry) /\ UNCHANGED sends
    BY <1>2 DEF HoldOut, Reject, RecordSent
  <2>4. d \in Final
    BY <2>3 DEF Rejections, Final, Open, Decision
  <2> QED
    BY <2>1, <2>2, <2>3, <2>4, DecidesFields DEF Loops, Settles
<1>3. CASE SendRefused(w)
  <2>1. workers[w].pc \in AtRecipient /\ workers[w].pc = "sending"
    BY <1>3 DEF SendRefused, AtRecipient, PC
  <2>2. workers[w].retry \in BOOLEAN
    BY <2>1, AtRecipientType DEF WorkerState
  <2>3. CASE Decides(w, "retryable_failed", TRUE)
    BY <1>3, <2>1, <2>3, DecidesFields DEF SendRefused, Loops, Retries
  <2>4. ASSUME NEW d \in SendErrors, Decides(w, d, workers[w].retry)
        PROVE  Frame(w) /\ Loops(w, r)
    <3>1. d \in Final
      BY DEF SendErrors, Final, Open, Decision
    <3> QED
      BY <1>3, <2>1, <2>2, <2>4, <3>1, DecidesFields DEF SendRefused, Loops, Settles
  <2> QED
    BY <1>3, <2>3, <2>4 DEF SendRefused
<1>4. CASE Eligible(w)
  <2> DEFINE pc == IF workers[w].copy = "provider_sent" THEN "emitting" ELSE "sending"
  <2>1. workers[w].pc \in AtRecipient /\ workers[w].pc = "deciding"
    BY <1>4 DEF Eligible, AtRecipient, PC
  <2>2. Goes(w, pc) /\ pc \in PC \ {"committing"}
    BY <1>4 DEF Eligible, PC
  <2> HIDE DEF pc
  <2>3. Frame(w) /\ Stays(w, pc)
    BY <1>4, <2>1, <2>2, GoesFrame DEF Eligible
  <2> QED
    BY <1>4, <2>1, <2>3 DEF Eligible, Loops, Chooses, Same, Silent, pc
<1>5. CASE SendAccepted(w)
  <2>1. workers[w].pc \in AtRecipient /\ workers[w].pc = "sending"
    BY <1>5 DEF SendAccepted, AtRecipient, PC
  <2>2. r \in Recipient
    BY <2>1, AtRecipientType
  <2>3. /\ \A q \in Recipient \ {r} : sends'[q] = sends[q]
        /\ sends'[r] = sends[r] + 1
    BY <1>5, <2>2 DEF SendAccepted, TypeInv, TypeOK
  <2>4. Frame(w) /\ Stays(w, "saving")
    BY <1>5, <2>1, <2>3, GoesFrame DEF SendAccepted, PC
  <2> QED
    BY <1>5, <2>1, <2>3, <2>4 DEF SendAccepted, Loops, Accepts, Same
<1>6. CASE SendLost(w)
  <2>1. workers[w].pc \in AtRecipient /\ workers[w].pc = "sending"
    BY <1>6 DEF SendLost, AtRecipient, PC
  <2>2. /\ Busy(w) /\ workers[w].todo # <<>> /\ workers[w] \in WorkerState
        /\ r \in Recipient
    BY <2>1, AtRecipientType
  <2>3. /\ \A q \in Recipient \ {r} : sends'[q] = sends[q] /\ decision'[q] = decision[q]
        /\ sends'[r] = sends[r] + 1 /\ decision'[r] = "retryable_failed"
        /\ faults' = faults + 1
        /\ UNCHANGED <<campaign, jobs, dispatchers, edits, overrun, events, excused>>
    BY <1>6, <2>2 DEF SendLost, TypeInv, TypeOK
  <2>4. /\ workers'[w] \in WorkerState /\ workers'[w].job = workers[w].job
        /\ Passes(w, TRUE)
        /\ \A v \in Worker \ {w} : workers'[v] = workers[v]
    BY <1>6, <2>2, ContinueFields DEF SendLost
  <2> QED
    BY <2>1, <2>2, <2>3, <2>4 DEF Frame, Loops, Retries, Passes
<1>7. CASE SaveProviderSent(w)
  <2>1. workers[w].pc \in AtRecipient /\ workers[w].pc = "saving"
    BY <1>7 DEF SaveProviderSent, AtRecipient, PC
  <2>2. r \in Recipient
    BY <2>1, AtRecipientType
  <2>3. /\ \A q \in Recipient \ {r} : decision'[q] = decision[q]
        /\ excused \subseteq excused' /\ faults' \in {faults, faults + 1}
        /\ \/ decision'[r] = "provider_sent"
           \/ Same(r) /\ r \in excused' /\ faults' = faults + 1
    BY <1>7, <2>2, RecordFields DEF SaveProviderSent
  <2>4. Frame(w) /\ Stays(w, "emitting")
    BY <1>7, <2>1, <2>3, GoesFrame DEF SaveProviderSent, PC
  <2> QED
    BY <1>7, <2>1, <2>3, <2>4 DEF SaveProviderSent, Loops, Saves, Silent
<1>8. CASE AcceptEvent(w)
  <2>1. workers[w].pc \in AtRecipient /\ workers[w].pc = "emitting"
    BY <1>8 DEF AcceptEvent, AtRecipient, PC
  <2>2. Frame(w) /\ Stays(w, "recording")
    BY <1>8, <2>1, GoesFrame DEF AcceptEvent, PC
  <2> QED
    BY <1>8, <2>1, <2>2 DEF AcceptEvent, Loops, Announces, Same, Silent
<1>9. CASE EmitRefused(w)
  <2>1. workers[w].pc \in AtRecipient /\ workers[w].pc = "emitting"
    BY <1>9 DEF EmitRefused, AtRecipient, PC
  <2>2. workers[w].todo # <<>>
    BY <2>1, AtRecipientType
  <2>3. /\ Frame(w) /\ Passes(w, workers[w].retry) /\ Same(r) /\ Silent(r)
    BY <1>9, <2>1, <2>2, ContinueFrame DEF EmitRefused
  <2> QED
    BY <1>9, <2>1, <2>3 DEF EmitRefused, Loops, Leaves
<1>10. CASE EmitFails(w) \/ SkipRecipient(w)
  <2>1. workers[w].pc \in AtRecipient \cup {"next"} /\ workers[w].pc # "saving"
    BY <1>10 DEF EmitFails, SkipRecipient, AtRecipient, PC
  <2>2. workers[w].todo # <<>>
    BY <1>10, AtRecipientType DEF EmitFails, SkipRecipient, AtRecipient, PC
  <2>3. r \in excused' /\ excused \subseteq excused' /\ events \subseteq events'
    BY <1>10 DEF EmitFails, SkipRecipient
  <2>4. /\ Frame(w) /\ Passes(w, workers[w].retry) /\ Same(r) /\ Silent(r)
    BY <1>10, <2>1, <2>2, <2>3, ContinueFrame DEF EmitFails, SkipRecipient
  <2> QED
    BY <2>1, <2>3, <2>4 DEF Loops, Settles
<1>11. CASE GiveUp(w)
  <2>1. workers[w] \in WorkerState /\ workers[w].todo # <<>> /\ r \in Recipient /\ Busy(w)
    BY <1>11, BusyType, CurrentType DEF GiveUp, TypeInv
  <2>a. <<>> \in Seq(Recipient)
    OBVIOUS
  <2>2. PICK s \in Seq(Recipient) : s = <<>>
    BY <2>a, Zenon
  <2>3. /\ workers'[w] = [workers[w] EXCEPT !.pc = "next", !.copy = "none",
                                            !.todo = s, !.retry = TRUE]
        /\ \A v \in Worker \ {w} : workers'[v] = workers[v]
    BY <1>11, <2>1, <2>2 DEF GiveUp, TypeInv, TypeOK, WorkerState
  <2>4. /\ workers'[w] \in WorkerState /\ workers'[w].job = workers[w].job
        /\ workers'[w].pc = "next" /\ workers'[w].todo = s
        /\ workers'[w].retry = TRUE
    BY <2>1, <2>3 DEF WorkerState, PC, Decision
  <2>5. workers[w].pc # "committing"
    BY <2>1 DEF QueueInv, Lawful
  <2>6. /\ faults' \in {faults, faults + 1}
        /\ workers[w].pc = "saving" => faults' = faults + 1
        /\ UNCHANGED <<campaign, jobs, dispatchers, edits, overrun, events, excused, decision, sends>>
    BY <1>11 DEF GiveUp
  <2> QED
    BY <2>1, <2>2, <2>3, <2>4, <2>5, <2>6 DEF Frame, Loops, Drops, Same, Silent
<1> QED
  BY <1>1, <1>2, <1>3, <1>4, <1>5, <1>6, <1>7, <1>8, <1>9, <1>10, <1>11 DEF Deliver
-----------------------------------------------------------------------------
(***************************************************************************)
(* The queue and the dispatches.                                           *)
(***************************************************************************)

JobsKept ==
    \A j \in JobId : /\ jobs'[j].recipients = jobs[j].recipients
                     /\ jobs'[j].status = "none" <=> jobs[j].status = "none"

LEMMA KeptFacts ==
    ASSUME JobsKept
    PROVE  /\ Used' = Used
           /\ \A j \in JobId : \A r : Lists(j, r)' <=> Lists(j, r)
           /\ Numbered => Numbered'
<1>1. Used' = Used
  BY DEF JobsKept, Used
<1> QED
  BY <1>1 DEF JobsKept, Lists, Numbered

LEMMA Lone ==
    ASSUME QueueInv, ~overrun, NEW w \in Worker, Busy(w), NEW v \in Worker, Busy(v),
           workers[v].job = workers[w].job
    PROVE  v = w
BY DEF QueueInv, Leased

\* The steps of the queue, by what they do to the job and to the worker.
LEMMA ClaimFields ==
    ASSUME TypeInv, NEW w \in Worker, NEW j \in JobId, ClaimDeliveryJob(w, j)
    PROVE  /\ JobsKept
           /\ jobs'[j].status = "processing" /\ jobs'[j].lease = w
           /\ jobs[j].status \in {"pending", "failed", "processing"}
           /\ jobs[j].status = "processing" => jobs[j].lease = NoWorker
           /\ \A i \in JobId \ {j} : jobs'[i] = jobs[i]
           /\ ~Busy(w) /\ workers'[w].pc = "next" /\ workers'[w].job = j
           /\ workers'[w].todo = jobs[j].recipients /\ ~workers'[w].retry
           /\ \A v \in Worker \ {w} : workers'[v] = workers[v]
           /\ UNCHANGED <<campaign, decision, dispatchers, sends, events, ghosts>>
<1>1. jobs \in [JobId -> Job] /\ workers \in [Worker -> WorkerState \cup {IdleWorker}]
  BY DEF TypeInv, TypeOK
<1>2. jobs[j].status \in {"pending", "failed", "processing"}
      /\ (jobs[j].status = "processing" => jobs[j].lease = NoWorker)
  BY DEF ClaimDeliveryJob, Claimable
<1>3. /\ jobs'[j] = [status |-> "processing", attempts |-> jobs[j].attempts + 1,
                     lease |-> w, recipients |-> jobs[j].recipients]
      /\ \A i \in JobId \ {j} : jobs'[i] = jobs[i]
  BY <1>1 DEF ClaimDeliveryJob
<1>4. JobsKept
  BY <1>2, <1>3 DEF JobsKept
<1>5. /\ workers'[w] = [pc |-> "next", job |-> j, todo |-> jobs[j].recipients,
                        copy |-> "none", retry |-> FALSE, closes |-> "none"]
      /\ \A v \in Worker \ {w} : workers'[v] = workers[v]
  BY <1>1 DEF ClaimDeliveryJob
<1> QED
  BY <1>2, <1>3, <1>4, <1>5 DEF ClaimDeliveryJob

LEMMA EndFields ==
    ASSUME TypeInv, NEW w \in Worker, EndJob(w)
    PROVE  /\ Busy(w) /\ Busy(w)' /\ workers[w] \in WorkerState
           /\ workers'[w].pc = "committing" /\ workers'[w].todo = <<>>
           /\ workers[w].todo = <<>> /\ workers[w].pc = "next"
           /\ workers'[w].job = workers[w].job /\ workers'[w].retry = workers[w].retry
           /\ workers'[w].closes =
                Closing([jobs EXCEPT ![workers[w].job] = Ended(w)])
           /\ \A v \in Worker \ {w} : workers'[v] = workers[v]
           /\ UNCHANGED <<tables, dispatchers, sends, events, ghosts>>
<1> DEFINE c == Closing([jobs EXCEPT ![workers[w].job] = Ended(w)])
<1>1. Busy(w)
  BY DEF EndJob, Busy
<1>2. workers[w] \in WorkerState /\ workers \in [Worker -> WorkerState \cup {IdleWorker}]
  BY <1>1, BusyType DEF TypeInv, TypeOK
<1> HIDE DEF c
<1>3. workers'[w] = [workers[w] EXCEPT !.pc = "committing", !.closes = c]
      /\ \A v \in Worker \ {w} : workers'[v] = workers[v]
  BY <1>2 DEF EndJob, c
<1>4. /\ workers'[w].pc = "committing" /\ workers'[w].todo = workers[w].todo
      /\ workers'[w].job = workers[w].job /\ workers'[w].retry = workers[w].retry
      /\ workers'[w].closes = c
  BY <1>2, <1>3 DEF WorkerState
<1> QED
  BY <1>1, <1>2, <1>3, <1>4 DEF EndJob, Busy, c

LEMMA CommitFields ==
    ASSUME TypeInv, QueueInv, NEW w \in Worker, CommitJob(w)
    PROVE  /\ Busy(w) /\ workers[w].job \in JobId /\ workers[w].pc = "committing"
           /\ JobsKept
           /\ jobs'[workers[w].job].status \in {"completed", "dead", "failed"}
           /\ jobs'[workers[w].job].status = "completed" <=> ~workers[w].retry
           /\ \A i \in JobId \ {workers[w].job} : jobs'[i] = jobs[i]
           /\ ~Busy(w)' /\ \A v \in Worker \ {w} : workers'[v] = workers[v]
           /\ campaign' = IF workers[w].closes = "none" THEN campaign
                                                        ELSE workers[w].closes
           /\ UNCHANGED <<decision, dispatchers, sends, events, ghosts>>
<1> DEFINE job == workers[w].job
<1>1. Busy(w) /\ workers[w].pc = "committing"
  BY DEF CommitJob, Busy
<1>2. /\ workers[w] \in WorkerState /\ job \in JobId /\ jobs[job] \in Job
      /\ workers \in [Worker -> WorkerState \cup {IdleWorker}]
      /\ jobs \in [JobId -> Job]
  BY <1>1, BusyType DEF TypeInv, TypeOK, WorkerState
<1>3. /\ Ended(w).status \in {"completed", "dead", "failed"}
      /\ Ended(w).status = "completed" <=> ~workers[w].retry
      /\ Ended(w).recipients = jobs[job].recipients
  BY <1>2 DEF Ended, Job
<1>4. /\ jobs'[job] = Ended(w)
      /\ \A i \in JobId \ {job} : jobs'[i] = jobs[i]
  BY <1>2 DEF CommitJob
<1>5. jobs[job].status # "none"
  BY <1>1 DEF QueueInv, Lawful
<1>6. JobsKept
  BY <1>3, <1>4, <1>5 DEF JobsKept
<1>7. ~Busy(w)' /\ \A v \in Worker \ {w} : workers'[v] = workers[v]
  BY <1>2 DEF CommitJob, Busy, IdleWorker
<1> QED
  BY <1>1, <1>2, <1>3, <1>4, <1>6, <1>7 DEF CommitJob

LEMMA CrashFields ==
    ASSUME TypeInv, NEW w \in Worker, Crash(w)
    PROVE  /\ Busy(w) /\ ~Busy(w)' /\ \A v \in Worker \ {w} : workers'[v] = workers[v]
           /\ faults' = faults + 1
           /\ UNCHANGED <<tables, dispatchers, sends, events, edits, overrun, excused>>
BY DEF TypeInv, TypeOK, Crash, Busy, IdleWorker

LEMMA ExpireFields ==
    ASSUME TypeInv, NEW j \in JobId, LeaseExpires(j)
    PROVE  /\ JobsKept
           /\ jobs'[j].status = jobs[j].status
           /\ \A w \in Worker : jobs[j].lease = w => ~(Busy(w) /\ workers[w].job = j)
           /\ \A i \in JobId \ {j} : jobs'[i] = jobs[i]
           /\ UNCHANGED <<campaign, decision, dispatchers, sends, events, workers, ghosts>>
<1>1. jobs \in [JobId -> Job] /\ jobs[j] \in Job
  BY DEF TypeInv, TypeOK
<1>2. /\ jobs'[j].status = jobs[j].status /\ jobs'[j].recipients = jobs[j].recipients
      /\ \A i \in JobId \ {j} : jobs'[i] = jobs[i]
  BY <1>1 DEF LeaseExpires, Job
<1> QED
  BY <1>2 DEF LeaseExpires, JobsKept

\* The rows of a dispatch come after those of the dispatches before it.
LEMMA SaveFields ==
    ASSUME TypeInv, Numbered, NEW d, NEW shards \in Audiences,
           SaveCampaignManifestAndJobs(d, shards)
    PROVE  \E n \in Nat :
              /\ Used = 1..n /\ Used' = 1..(n + Len(shards)) /\ Len(shards) \in Nat
              /\ \A j \in JobId : j \in n+1 .. n+Len(shards) =>
                    /\ jobs'[j].status = "pending" /\ jobs[j].status = "none"
                    /\ jobs'[j].recipients = shards[j - n]
              /\ \A j \in JobId : j \notin n+1 .. n+Len(shards) => jobs'[j] = jobs[j]
<1>1. PICK n \in Nat : Used = 1..n
  BY DEF Numbered
<1>2. Cardinality(Used) = n
  <2>1. Cardinality(1..n) = IF 1 > n THEN 0 ELSE n - 1 + 1
    BY FS_Interval
  <2> QED
    BY <1>1, <2>1
<1>3. Len(shards) \in Nat
  BY CampaignAssumption
<1>4. n + Len(shards) <= MaxJobs
      /\ jobs' = [j \in JobId |->
              IF j \in n + 1 .. n + Len(shards)
              THEN [NoJob EXCEPT !.status = "pending",
                                 !.recipients = shards[j - n]]
              ELSE jobs[j]]
  BY <1>2 DEF SaveCampaignManifestAndJobs
<1>5. ASSUME NEW j \in JobId, j \in n+1 .. n+Len(shards)
      PROVE  /\ jobs'[j].status = "pending" /\ jobs[j].status = "none"
             /\ jobs'[j].recipients = shards[j - n]
  <2>1. jobs'[j] = [NoJob EXCEPT !.status = "pending", !.recipients = shards[j - n]]
    BY <1>4, <1>5
  <2>2. j \notin Used
    BY <1>1, <1>5
  <2>3. jobs[j].status = "none"
    BY <2>2 DEF Used
  <2> QED
    BY <2>1, <2>3 DEF NoJob
<1>6. \A j \in JobId : j \notin n+1 .. n+Len(shards) => jobs'[j] = jobs[j]
  BY <1>4
<1>7. ASSUME NEW j \in JobId PROVE jobs'[j].status # "none" <=> j \in 1..(n + Len(shards))
  <2>1. j \in Int /\ j >= 1
    BY CampaignAssumption DEF JobId
  <2>2. jobs[j].status # "none" <=> j \in 1..n
    BY <1>1 DEF Used
  <2>3. CASE j \in n+1 .. n+Len(shards)
    BY <1>3, <1>5, <2>1, <2>3
  <2>4. CASE j \notin n+1 .. n+Len(shards)
    BY <1>3, <1>6, <2>1, <2>2, <2>4
  <2> QED
    BY <2>3, <2>4
<1>8. 1..(n + Len(shards)) \subseteq JobId
  <2>1. n + Len(shards) <= MaxJobs
    BY <1>4
  <2>2. MaxJobs \in Nat
    BY CampaignAssumption
  <2> QED
    BY <1>3, <2>1, <2>2 DEF JobId
<1>9. Used' = 1..(n + Len(shards))
  BY <1>7, <1>8 DEF Used
<1>10. \A j \in JobId : j \in n+1 .. n+Len(shards) =>
                    /\ jobs'[j].status = "pending" /\ jobs[j].status = "none"
                    /\ jobs'[j].recipients = shards[j - n]
  BY <1>5
<1> WITNESS n \in Nat
<1> QED
  BY <1>1, <1>3, <1>6, <1>9, <1>10

\* The kinds of steps.
RowStep ==
    \/ \E s \in EditTo : CreateCampaign(s) \/ UpdateCampaign(s)
    \/ \E d \in Dispatcher : \/ ClaimScheduledCampaign(d) \/ DispatchFails(d)
                             \/ DispatcherCrash(d)
SaveStep == \E d \in Dispatcher, shards \in Audiences :
                SaveCampaignManifestAndJobs(d, shards)
LoopStep(w) ==
    Deliver(w) \/ GiveUp(w) \/ SkipRecipient(w) \/ SendLost(w) \/ EmitFails(w)
QueueStep(w) ==
    \/ \E j \in JobId : ClaimDeliveryJob(w, j)
    \/ EndJob(w) \/ CommitJob(w) \/ Crash(w) \/ Overrun(w)

LEMMA NextKinds ==
    ASSUME [Next]_vars
    PROVE  \/ RowStep \/ SaveStep
           \/ \E w \in Worker : LoopStep(w) \/ QueueStep(w)
           \/ \E j \in JobId : LeaseExpires(j)
           \/ UNCHANGED vars
BY DEF Next, Dispatch, WorkerStep, Failure, RowStep, SaveStep, LoopStep, QueueStep

LEMMA RowFields ==
    ASSUME TypeInv, RowStep
    PROVE  /\ UNCHANGED <<jobs, decision, sends, events, workers, overrun, excused>>
           /\ faults' \in {faults, faults + 1}
           /\ edits' \in {edits, edits + 1}
BY DEF RowStep, CreateCampaign, UpdateCampaign, ClaimScheduledCampaign,
       DispatchFails, DispatcherCrash, ghosts, tables

\* What is left of a list is on the list.
LEMMA WhatIsLeft ==
    ASSUME NEW S, NEW q \in Seq(S), q # <<>>, NEW p \in {q, Tail(q), <<>>}
    PROVE  \A i \in DOMAIN p : \E k \in DOMAIN q : p[i] = q[k]
<1>1. CASE p = q
  BY <1>1
<1>2. CASE p = <<>>
  BY <1>2
<1>3. CASE p = Tail(q)
  <2>1. Len(p) = Len(q) - 1 /\ Len(q) \in Nat /\ DOMAIN q = 1..Len(q)
        /\ p \in Seq(S)
    BY <1>3
  <2>2. DOMAIN p = 1..(Len(q) - 1)
    BY ONLY <2>1
  <2>3. ASSUME NEW i \in 1..(Len(q) - 1)
        PROVE  p[i] = q[i + 1]
    BY <1>3, <2>1, <2>3
  <2>4. \A i \in DOMAIN p : i + 1 \in DOMAIN q
    BY ONLY <2>1, <2>2
  <2> QED
    BY <2>2, <2>3, <2>4
<1> QED
  BY <1>1, <1>2, <1>3

LEMMA QueueLoop ==
    ASSUME TypeInv, QueueInv, NEW w \in Worker, LoopStep(w)
    PROVE  QueueInv'
<1>1. Frame(w) /\ Loops(w, Current(w))
  BY LoopSteps DEF LoopStep
<1>2. UNCHANGED <<jobs, overrun>> /\ workers'[w].job = workers[w].job /\ Busy(w)
      /\ \A v \in Worker \ {w} : workers'[v] = workers[v]
  BY <1>1 DEF Frame, Busy, WorkerState, PC
<1>3. Numbered' /\ \A j \in JobId : \A r : Lists(j, r)' <=> Lists(j, r)
  BY <1>2 DEF QueueInv, Numbered, Used, Lists
<1>4. \A i \in DOMAIN workers'[w].todo :
         \E k \in DOMAIN workers[w].todo : workers'[w].todo[i] = workers[w].todo[k]
  <2>1. workers'[w].todo \in {workers[w].todo, Tail(workers[w].todo), <<>>}
    BY <1>1 DEF Loops, Reads, Settles, Retries, Drops, Chooses, Accepts, Saves,
                Announces, Leaves, Stays, Passes
  <2>2. workers[w].todo \in Seq(Recipient) /\ workers[w].todo # <<>>
    BY <1>1 DEF Frame, WorkerState
  <2> DEFINE q == workers[w].todo
             p == workers'[w].todo
  <2>3. q \in Seq(Recipient) /\ q # <<>> /\ p \in {q, Tail(q), <<>>}
    BY <2>1, <2>2
  <2> HIDE DEF q, p
  <2>4. \A i \in DOMAIN p : \E k \in DOMAIN q : p[i] = q[k]
    BY ONLY <2>3, WhatIsLeft
  <2> QED
    BY <2>4 DEF q, p
<1>5. Lawful(w)'
  <2>1. Lawful(w) /\ workers'[w].pc # "committing"
    BY <1>1 DEF QueueInv, Frame
  <2> QED
    BY <1>2, <1>4, <2>1 DEF Lawful, Lists
<1>6. \A v \in Worker \ {w} : Lawful(v)'
  BY <1>2 DEF QueueInv, Lawful, Lists, Busy
<1>7. ~overrun' => \A v \in Worker : Leased(v)'
  BY <1>2 DEF QueueInv, Leased, Busy
<1> QED
  BY <1>3, <1>5, <1>6, <1>7 DEF QueueInv

LEMMA QueueQueue ==
    ASSUME TypeInv, QueueInv, NEW w \in Worker, QueueStep(w)
    PROVE  QueueInv'
<1> USE DEF ghosts, tables
<1>1. ASSUME NEW j \in JobId, ClaimDeliveryJob(w, j) PROVE QueueInv'
  <2>1. /\ JobsKept
        /\ jobs'[j].status = "processing" /\ jobs'[j].lease = w
        /\ jobs[j].status \in {"pending", "failed", "processing"}
        /\ jobs[j].status = "processing" => jobs[j].lease = NoWorker
        /\ \A i \in JobId \ {j} : jobs'[i] = jobs[i]
        /\ workers'[w].pc = "next" /\ workers'[w].job = j
        /\ workers'[w].todo = jobs[j].recipients
        /\ \A v \in Worker \ {w} : workers'[v] = workers[v]
        /\ overrun' = overrun
    BY <1>1, ClaimFields
  <2>2. /\ Numbered' /\ \A i \in JobId : \A r : Lists(i, r)' <=> Lists(i, r)
    BY <2>1, KeptFacts DEF QueueInv
  <2>3. \A v \in Worker : Busy(v) => workers[v].job \in JobId
    BY BusyType DEF TypeInv, WorkerState
  <2>4. Lawful(w)'
    BY <2>1, <2>2 DEF Lawful, Lists
  <2>5. ASSUME NEW v \in Worker \ {w} PROVE Lawful(v)'
    <3>1. Busy(v)' <=> Busy(v)
      BY <2>1 DEF Busy
    <3>2. Lawful(v)
      BY DEF QueueInv
    <3> QED
      BY <2>1, <2>2, <2>3, <3>1, <3>2 DEF Lawful, JobsKept
  <2>6. ASSUME ~overrun PROVE \A v \in Worker : Leased(v)'
    <3>1. Leased(w)'
      BY <2>1 DEF Leased
    <3>2. ASSUME NEW v \in Worker \ {w} PROVE Leased(v)'
      BY <2>1, <2>3, <2>6, CampaignAssumption DEF QueueInv, Leased, Busy
    <3> QED
      BY <3>1, <3>2
  <2> QED
    BY <2>1, <2>2, <2>4, <2>5, <2>6 DEF QueueInv
<1>2. CASE EndJob(w)
  <2>1. /\ Busy(w) /\ Busy(w)'
        /\ workers'[w].pc = "committing" /\ workers'[w].todo = <<>>
        /\ workers'[w].job = workers[w].job
        /\ workers'[w].closes = Closing([jobs EXCEPT ![workers[w].job] = Ended(w)])
        /\ \A v \in Worker \ {w} : workers'[v] = workers[v]
        /\ UNCHANGED <<jobs, overrun>>
    BY <1>2, EndFields
  <2>2. workers'[w].closes \in {"none", "completed", "failed"}
    BY <2>1 DEF Closing
  <2>3. DOMAIN workers'[w].todo = {}
    BY <2>1
  <2>4. Numbered' /\ \A j \in JobId : \A r : Lists(j, r)' <=> Lists(j, r)
    BY <2>1 DEF QueueInv, Numbered, Used, Lists
  <2>5. Lawful(w)'
    BY <2>1, <2>2, <2>3 DEF QueueInv, Lawful
  <2>6. \A v \in Worker \ {w} : Lawful(v)'
    BY <2>1 DEF QueueInv, Lawful, Lists, Busy
  <2>7. ~overrun' => \A v \in Worker : Leased(v)'
    BY <2>1 DEF QueueInv, Leased, Busy
  <2> QED
    BY <2>4, <2>5, <2>6, <2>7 DEF QueueInv
<1>3. CASE CommitJob(w)
  <2>1. /\ Busy(w) /\ JobsKept
        /\ \A i \in JobId \ {workers[w].job} : jobs'[i] = jobs[i]
        /\ ~Busy(w)' /\ \A v \in Worker \ {w} : workers'[v] = workers[v]
        /\ overrun' = overrun
    BY <1>3, CommitFields
  <2>2. /\ Numbered' /\ \A i \in JobId : \A r : Lists(i, r)' <=> Lists(i, r)
    BY <2>1, KeptFacts DEF QueueInv
  <2>3. \A v \in Worker : Busy(v) => workers[v].job \in JobId
    BY BusyType DEF TypeInv, WorkerState
  <2>4. ASSUME NEW v \in Worker \ {w} PROVE Lawful(v)'
    <3>1. Busy(v)' <=> Busy(v)
      BY <2>1 DEF Busy
    <3>2. Lawful(v)
      BY DEF QueueInv
    <3> QED
      BY <2>1, <2>2, <2>3, <3>1, <3>2 DEF Lawful, JobsKept
  <2>5. ASSUME ~overrun, NEW v \in Worker \ {w} PROVE Leased(v)'
    <3>1. Busy(v)' <=> Busy(v)
      BY <2>1 DEF Busy
    <3>2. Busy(v) => workers[v].job # workers[w].job
      BY <2>1, <2>5, Lone
    <3> QED
      BY <2>1, <2>3, <2>5, <3>1, <3>2 DEF QueueInv, Leased
  <2>6. Lawful(w)' /\ Leased(w)'
    BY <2>1 DEF Lawful, Leased
  <2> QED
    BY <2>1, <2>2, <2>4, <2>5, <2>6 DEF QueueInv
<1>4. CASE Crash(w)
  <2>1. /\ ~Busy(w)' /\ \A v \in Worker \ {w} : workers'[v] = workers[v]
        /\ UNCHANGED <<jobs, overrun>>
    BY <1>4, CrashFields
  <2>2. Numbered' /\ \A j \in JobId : \A r : Lists(j, r)' <=> Lists(j, r)
    BY <2>1 DEF QueueInv, Numbered, Used, Lists
  <2>3. Lawful(w)' /\ Leased(w)'
    BY <2>1 DEF Lawful, Leased
  <2>4. \A v \in Worker \ {w} : Lawful(v)'
    BY <2>1 DEF QueueInv, Lawful, Lists, Busy
  <2>5. ~overrun' => \A v \in Worker \ {w} : Leased(v)'
    BY <2>1 DEF QueueInv, Leased, Busy
  <2> QED
    BY <2>2, <2>3, <2>4, <2>5 DEF QueueInv
<1>5. CASE Overrun(w)
  <2>1. workers[w].job \in JobId
    BY <1>5, BusyType DEF Overrun, TypeInv, WorkerState
  <2>2. /\ JobsKept /\ workers' = workers /\ overrun' = TRUE
    BY <1>5, <2>1 DEF Overrun, JobsKept, TypeInv, TypeOK, Job
  <2>3. /\ Numbered' /\ \A i \in JobId : \A r : Lists(i, r)' <=> Lists(i, r)
    BY <2>2, KeptFacts DEF QueueInv
  <2>4. ASSUME NEW v \in Worker PROVE Lawful(v)'
    <3>1. (Busy(v)' <=> Busy(v)) /\ (Busy(v) => workers[v].job \in JobId)
      BY <2>2, BusyType DEF Busy, TypeInv, WorkerState
    <3>2. Lawful(v)
      BY DEF QueueInv
    <3> QED
      BY <2>2, <2>3, <3>1, <3>2 DEF Lawful, JobsKept
  <2> QED
    BY <2>2, <2>3, <2>4 DEF QueueInv
<1> QED
  BY <1>1, <1>2, <1>3, <1>4, <1>5 DEF QueueStep

\* A dispatch leaves the jobs that workers have alone.
LEMMA SaveKeeps ==
    ASSUME TypeInv, QueueInv, SaveStep
    PROVE  /\ QueueInv'
           /\ \A j \in JobId : jobs[j].status # "none" => jobs'[j] = jobs[j]
           /\ \A w \in Worker : Busy(w) => /\ workers[w].job \in JobId
                                           /\ jobs[workers[w].job].status # "none"
           /\ \A j \in JobId : jobs'[j] = jobs[j] \/ jobs'[j].status = "pending"
           /\ UNCHANGED <<workers, overrun, edits, decision, sends, events, excused, faults>>
<1>1. PICK d \in Dispatcher, shards \in Audiences : SaveCampaignManifestAndJobs(d, shards)
  BY DEF SaveStep
<1>2. UNCHANGED <<workers, overrun, edits, decision, sends, events, excused, faults>>
  BY <1>1 DEF SaveCampaignManifestAndJobs, ghosts
<1>3. PICK n \in Nat :
              /\ Used = 1..n /\ Used' = 1..(n + Len(shards)) /\ Len(shards) \in Nat
              /\ \A j \in JobId : j \in n+1 .. n+Len(shards) =>
                    /\ jobs'[j].status = "pending" /\ jobs[j].status = "none"
                    /\ jobs'[j].recipients = shards[j - n]
              /\ \A j \in JobId : j \notin n+1 .. n+Len(shards) => jobs'[j] = jobs[j]
  BY <1>1, SaveFields DEF QueueInv
<1>4. /\ \A j \in JobId : jobs[j].status # "none" => jobs'[j] = jobs[j]
      /\ \A j \in JobId : jobs'[j] = jobs[j] \/ jobs'[j].status = "pending"
  BY <1>3
<1>5. \A w \in Worker : Busy(w) => /\ workers[w].job \in JobId
                                   /\ jobs[workers[w].job].status # "none"
  BY BusyType DEF TypeInv, WorkerState, QueueInv, Lawful
<1>6. Numbered'
  <2>1. n + Len(shards) \in Nat
    BY <1>3
  <2>2. \A j \in JobId : jobs'[j].status = "none" => jobs'[j].recipients = <<>>
    BY <1>4 DEF QueueInv, Numbered
  <2> QED
    BY <1>3, <2>1, <2>2 DEF Numbered
<1>7. ASSUME NEW w \in Worker PROVE Lawful(w)' /\ (~overrun => Leased(w)')
  <2>1. Lawful(w) /\ (~overrun => Leased(w))
    BY DEF QueueInv
  <2>2. Busy(w)' <=> Busy(w)
    BY <1>2 DEF Busy
  <2>3. Busy(w) => jobs'[workers[w].job] = jobs[workers[w].job]
    BY <1>4, <1>5
  <2> QED
    BY <1>2, <2>1, <2>2, <2>3 DEF Lawful, Leased, Lists
<1> QED
  BY <1>2, <1>4, <1>5, <1>6, <1>7 DEF QueueInv

LEMMA QueueKeeps ==
    ASSUME TypeInv, QueueInv, [Next]_vars
    PROVE  QueueInv'
<1>1. CASE RowStep \/ UNCHANGED vars
  <2>1. UNCHANGED <<jobs, workers, overrun>>
    BY <1>1, RowFields DEF vars, tables, ghosts
  <2> QED
    BY <2>1 DEF QueueInv, Numbered, Used, Lawful, Leased, Lists, Busy
<1>2. ASSUME NEW j \in JobId, LeaseExpires(j) PROVE QueueInv'
  <2>1. /\ JobsKept
        /\ jobs'[j].status = jobs[j].status
        /\ \A w \in Worker : jobs[j].lease = w => ~(Busy(w) /\ workers[w].job = j)
        /\ \A i \in JobId \ {j} : jobs'[i] = jobs[i]
        /\ UNCHANGED <<workers, overrun>>
    BY <1>2, ExpireFields DEF ghosts
  <2>2. /\ Numbered' /\ \A i \in JobId : \A r : Lists(i, r)' <=> Lists(i, r)
    BY <2>1, KeptFacts DEF QueueInv
  <2>3. ASSUME NEW v \in Worker PROVE Lawful(v)' /\ (~overrun => Leased(v)')
    <3>1. (Busy(v)' <=> Busy(v)) /\ (Busy(v) => workers[v].job \in JobId)
      BY <2>1, BusyType DEF Busy, TypeInv, WorkerState
    <3>2. Lawful(v) /\ (~overrun => Leased(v))
      BY DEF QueueInv
    <3>3. Lawful(v)'
      BY <2>1, <2>2, <3>1, <3>2 DEF Lawful, JobsKept
    <3>4. ASSUME ~overrun PROVE Leased(v)'
      BY <2>1, <3>1, <3>2, <3>4 DEF Leased
    <3> QED
      BY <3>3, <3>4
  <2> QED
    BY <2>1, <2>2, <2>3 DEF QueueInv
<1> QED
  BY <1>1, <1>2, NextKinds, QueueLoop, QueueQueue, SaveKeeps

\* The steps that insert no job and leave the row and the dispatchers alone.
LEMMA DispatchKept ==
    ASSUME DispatchInv, JobsKept, UNCHANGED <<campaign, dispatchers, edits>>
    PROVE  DispatchInv'
<1>1. Used' = Used /\ \A j \in JobId : \A r : Lists(j, r)' <=> Lists(j, r)
  BY KeptFacts
<1> QED
  BY <1>1 DEF DispatchInv

LEMMA DispatchSave ==
    ASSUME TypeInv, QueueInv, DispatchInv, SaveStep
    PROVE  DispatchInv'
<1>1. PICK d \in Dispatcher, shards \in Audiences : SaveCampaignManifestAndJobs(d, shards)
  BY DEF SaveStep
<1> SUFFICES ASSUME edits' = 0 PROVE DispatchInv'
  BY DEF DispatchInv
<1>2. /\ d \in dispatchers /\ dispatchers' = dispatchers \ {d} /\ campaign' = "sending"
      /\ edits = 0
  BY <1>1 DEF SaveCampaignManifestAndJobs, ghosts
<1>3. Used = {} /\ dispatchers' = {}
  BY <1>2 DEF DispatchInv
<1>4. PICK n \in Nat :
              /\ Used = 1..n /\ Len(shards) \in Nat
              /\ \A j \in JobId : j \in n+1 .. n+Len(shards) =>
                    /\ jobs'[j].status = "pending" /\ jobs[j].status = "none"
                    /\ jobs'[j].recipients = shards[j - n]
              /\ \A j \in JobId : j \notin n+1 .. n+Len(shards) => jobs'[j] = jobs[j]
  BY <1>1, SaveFields DEF QueueInv
<1>5. n = 0
  <2>1. n >= 1 => 1 \in 1..n
    OBVIOUS
  <2> QED
    BY <1>3, <1>4, <2>1
<1>6. ASSUME NEW j \in JobId, NEW r, Lists(j, r)'
      PROVE  j \in DOMAIN shards /\ \E a \in DOMAIN shards[j] : shards[j][a] = r
  <2>1. j \in Int
    BY CampaignAssumption DEF JobId
  <2>2. CASE j \in 1..Len(shards)
    <3>1. jobs'[j].recipients = shards[j]
      BY <1>4, <1>5, <2>1, <2>2
    <3>2. shards \in Seq(Seq(Recipient))
      BY CampaignAssumption
    <3> QED
      BY <1>6, <2>2, <3>1, <3>2 DEF Lists
  <2>3. CASE j \notin 1..Len(shards)
    <3>1. jobs'[j] = jobs[j]
      BY <1>4, <1>5, <2>3
    <3>2. jobs[j].recipients = <<>>
      BY <1>3 DEF QueueInv, Numbered, Used
    <3> QED
      BY <1>6, <3>1, <3>2 DEF Lists
  <2> QED
    BY <2>2, <2>3
<1>7. ASSUME NEW r \in Recipient, NEW j \in JobId, NEW k \in JobId,
             AudiencesDisjoint, Lists(j, r)', Lists(k, r)'
      PROVE  j = k
  <2>1. /\ j \in DOMAIN shards /\ \E a \in DOMAIN shards[j] : shards[j][a] = r
        /\ k \in DOMAIN shards /\ \E a \in DOMAIN shards[k] : shards[k][a] = r
    BY <1>6, <1>7
  <2>2. ShardsDisjoint(shards)
    BY <1>7 DEF AudiencesDisjoint
  <2> QED
    BY <2>1, <2>2 DEF ShardsDisjoint
<1> QED
  BY <1>2, <1>3, <1>7 DEF DispatchInv

LEMMA DispatchKeeps ==
    ASSUME TypeInv, QueueInv, DispatchInv, [Next]_vars
    PROVE  DispatchInv'
<1> USE DEF ghosts, tables
<1>1. CASE RowStep
  <2> SUFFICES ASSUME edits' = 0 PROVE DispatchInv'
    BY DEF DispatchInv
  <2>1. Used' = Used /\ \A j \in JobId : \A r : Lists(j, r)' <=> Lists(j, r)
    BY <1>1, RowFields DEF Used, Lists
  <2>2. edits = 0 /\ edits' = edits
    BY <1>1, RowFields DEF TypeInv, TypeOK
  <2>3. ASSUME NEW s \in EditTo, CreateCampaign(s) PROVE DispatchInv'
    BY <2>1, <2>2, <2>3 DEF CreateCampaign, DispatchInv
  <2>4. ASSUME NEW s \in EditTo, UpdateCampaign(s) PROVE DispatchInv'
    BY <2>2, <2>4 DEF UpdateCampaign
  <2>5. ASSUME NEW d \in Dispatcher, ClaimScheduledCampaign(d) PROVE DispatchInv'
    BY <2>1, <2>2, <2>5 DEF ClaimScheduledCampaign, DispatchInv
  <2>6. ASSUME NEW d \in Dispatcher, DispatchFails(d) PROVE DispatchInv'
    BY <2>1, <2>2, <2>6 DEF DispatchFails, DispatchInv
  <2>7. ASSUME NEW d \in Dispatcher, DispatcherCrash(d) PROVE DispatchInv'
    BY <2>1, <2>2, <2>7 DEF DispatcherCrash, DispatchInv
  <2> QED
    BY <1>1, <2>3, <2>4, <2>5, <2>6, <2>7 DEF RowStep
<1>2. ASSUME NEW w \in Worker, CommitJob(w) PROVE DispatchInv'
  <2>1. /\ Busy(w) /\ workers[w].job \in JobId /\ JobsKept
        /\ workers[w].pc = "committing"
        /\ campaign' = IF workers[w].closes = "none" THEN campaign
                                                     ELSE workers[w].closes
        /\ UNCHANGED <<dispatchers, edits>>
    BY <1>2, CommitFields
  <2>2. Used' = Used /\ \A j \in JobId : \A r : Lists(j, r)' <=> Lists(j, r)
    BY <2>1, KeptFacts
  <2>3. Used # {} /\ workers[w].closes \in {"none", "completed", "failed"}
    BY <2>1 DEF QueueInv, Lawful, Used
  <2> QED
    BY <2>1, <2>2, <2>3 DEF DispatchInv
<1>3. ASSUME NEW w \in Worker, QueueStep(w), ~CommitJob(w) PROVE DispatchInv'
  <2>1. ASSUME NEW j \in JobId, ClaimDeliveryJob(w, j)
        PROVE  JobsKept /\ UNCHANGED <<campaign, dispatchers, edits>>
    BY <2>1, ClaimFields
  <2>2. CASE EndJob(w) \/ Crash(w)
    BY <2>2 DEF EndJob, Crash, DispatchInv, Used, Lists
  <2>3. CASE Overrun(w)
    <3>1. workers[w].job \in JobId
      BY <2>3, BusyType DEF Overrun, TypeInv, WorkerState
    <3> QED
      BY <2>3, <3>1, DispatchKept DEF Overrun, JobsKept, TypeInv, TypeOK, Job
  <2> QED
    BY <1>3, <2>1, <2>2, <2>3, DispatchKept DEF QueueStep
<1>4. ASSUME NEW w \in Worker, LoopStep(w) PROVE DispatchInv'
  <2>1. UNCHANGED <<campaign, jobs, dispatchers, edits>>
    BY <1>4, LoopSteps DEF LoopStep, Frame
  <2> QED
    BY <2>1 DEF DispatchInv, Used, Lists
<1>5. ASSUME NEW j \in JobId, LeaseExpires(j) PROVE DispatchInv'
  BY <1>5, ExpireFields, DispatchKept
<1>6. CASE UNCHANGED vars
  BY <1>6 DEF vars, DispatchInv, Used, Lists
<1> QED
  BY <1>1, <1>2, <1>3, <1>4, <1>5, <1>6, DispatchSave, NextKinds
-----------------------------------------------------------------------------
(***************************************************************************)
(* Closing the campaign.                                                   *)
(***************************************************************************)

LEMMA CloseQueue ==
    ASSUME TypeInv, QueueInv, CloseInv, NEW w \in Worker, QueueStep(w)
    PROVE  CloseInv'
<1> USE DEF ghosts, tables
<1> SUFFICES ASSUME edits' = 0, ~overrun' PROVE CloseInv'
  BY DEF CloseInv
<1>1. ASSUME NEW j \in JobId, ClaimDeliveryJob(w, j) PROVE CloseInv'
  <2>1. /\ jobs[j].status \in {"pending", "failed", "processing"}
        /\ \A i \in JobId \ {j} : jobs'[i] = jobs[i]
        /\ workers'[w].pc = "next"
        /\ \A v \in Worker \ {w} : workers'[v] = workers[v]
        /\ UNCHANGED <<campaign, edits, overrun>>
    BY <1>1, ClaimFields
  <2>2. ~Over(j) /\ campaign # "completed"
    BY <2>1 DEF CloseInv, Over
  <2>3. ~Locked(j)
    BY <1>1 DEF ClaimDeliveryJob, Claimable
  <2>4. \A v \in Worker : ~(workers[v].pc = "committing" /\ workers[v].closes = "completed")
    BY <2>1, <2>2, <2>3 DEF CloseInv, Locked
  <2> QED
    BY <2>1, <2>2, <2>4 DEF CloseInv
<1>2. CASE EndJob(w)
  <2> DEFINE js == [jobs EXCEPT ![workers[w].job] = Ended(w)]
  <2>1. /\ Busy(w) /\ workers[w] \in WorkerState
        /\ workers'[w].pc = "committing"
        /\ workers'[w].job = workers[w].job /\ workers'[w].retry = workers[w].retry
        /\ workers'[w].closes = Closing(js)
        /\ \A v \in Worker \ {w} : workers'[v] = workers[v]
        /\ UNCHANGED <<jobs, campaign, edits, overrun>>
    BY <1>2, EndFields
  <2>2. /\ workers[w].job \in JobId /\ jobs \in [JobId -> Job]
        /\ js[workers[w].job] = Ended(w)
        /\ \A j \in JobId : j # workers[w].job => js[j] = jobs[j]
    BY <2>1 DEF WorkerState, TypeInv, TypeOK
  <2>3. Ended(w).status = "completed" <=> ~workers[w].retry
    BY <2>2 DEF Ended, Job
  <2>4. Ended(w).status \in {"completed", "dead", "failed"}
    BY <2>2 DEF Ended, Job
  <2> HIDE DEF js
  <2>5. ASSUME workers'[w].closes = "completed"
        PROVE  ~workers[w].retry /\ \A j \in JobId : j # workers[w].job => Over(j)
    <3>1. \A j \in JobId : ~Active(js[j]) /\ js[j].status \notin {"failed", "dead"}
      BY <2>1, <2>5 DEF Closing
    <3>2. ~workers[w].retry
      BY <2>2, <2>3, <2>4, <3>1
    <3>3. ASSUME NEW j \in JobId, j # workers[w].job PROVE Over(j)
      <4>1. jobs[j].status \in JobStatus /\ js[j] = jobs[j]
        BY <2>2, <3>3 DEF Job
      <4> QED
        BY <3>1, <4>1 DEF Over, Active, JobStatus
    <3> QED
      BY <3>2, <3>3
  <2> QED
    BY <2>1, <2>5 DEF CloseInv, Over
<1>3. CASE CommitJob(w)
  <2>1. /\ Busy(w) /\ workers[w].job \in JobId /\ workers[w].pc = "committing"
        /\ jobs'[workers[w].job].status = "completed" <=> ~workers[w].retry
        /\ \A i \in JobId \ {workers[w].job} : jobs'[i] = jobs[i]
        /\ ~Busy(w)' /\ \A v \in Worker \ {w} : workers'[v] = workers[v]
        /\ campaign' = IF workers[w].closes = "none" THEN campaign
                                                     ELSE workers[w].closes
        /\ UNCHANGED <<edits, overrun>>
    BY <1>3, CommitFields
  <2>2. ~Over(workers[w].job)
    BY <2>1 DEF QueueInv, Leased, Over
  <2>3. campaign # "completed"
    BY <2>1, <2>2 DEF CloseInv
  <2>4. campaign' = "completed" => \A j \in JobId : Over(j)'
    BY <2>1, <2>3 DEF CloseInv, Over
  <2>5. ASSUME NEW v \in Worker, workers'[v].pc = "committing",
               workers'[v].closes = "completed"
        PROVE  FALSE
    <3>1. v # w /\ workers'[v] = workers[v] /\ Busy(v)
      BY <2>1, <2>5 DEF Busy
    <3>2. workers[v].job # workers[w].job
      BY <2>1, <3>1, Lone
    <3> QED
      BY <2>1, <2>2, <2>5, <3>1, <3>2 DEF CloseInv
  <2> QED
    BY <2>1, <2>4, <2>5 DEF CloseInv
<1>4. CASE Crash(w)
  <2>1. /\ ~Busy(w)' /\ \A v \in Worker \ {w} : workers'[v] = workers[v]
        /\ UNCHANGED <<campaign, jobs, edits, overrun>>
    BY <1>4, CrashFields
  <2> QED
    BY <2>1 DEF CloseInv, Over, Busy
<1>5. CASE Overrun(w)
  BY <1>5 DEF Overrun
<1> QED
  BY <1>1, <1>2, <1>3, <1>4, <1>5 DEF QueueStep

LEMMA CloseKeeps ==
    ASSUME TypeInv, QueueInv, DispatchInv, CloseInv, [Next]_vars
    PROVE  CloseInv'
<1> USE DEF ghosts, tables
<1>1. CASE RowStep
  <2> SUFFICES ASSUME edits' = 0, ~overrun' PROVE CloseInv'
    BY DEF CloseInv
  <2>1. edits = 0 /\ edits' = edits /\ UNCHANGED <<jobs, workers, overrun>>
    BY <1>1, RowFields DEF TypeInv, TypeOK
  <2>2. campaign' = "completed" => campaign = "completed" \/ Used = {}
    BY <1>1, <2>1 DEF RowStep, CreateCampaign, UpdateCampaign,
       ClaimScheduledCampaign, DispatchFails, DispatcherCrash, DispatchInv
  <2>3. Used = {} => \A j \in JobId : Over(j)
    BY DEF Used, Over
  <2> QED
    BY <2>1, <2>2, <2>3 DEF CloseInv, Over
<1>2. CASE SaveStep
  <2> SUFFICES ASSUME edits' = 0, ~overrun' PROVE CloseInv'
    BY DEF CloseInv
  <2>1. /\ \A w \in Worker : Busy(w) => /\ workers[w].job \in JobId
                                        /\ jobs[workers[w].job].status # "none"
        /\ UNCHANGED <<workers, edits, overrun>>
    BY <1>2, SaveKeeps
  <2>2. dispatchers # {} /\ campaign' = "sending"
    BY <1>2 DEF SaveStep, SaveCampaignManifestAndJobs
  <2>3. Used = {}
    BY <2>1, <2>2 DEF DispatchInv
  <2>4. \A w \in Worker : ~Busy(w)
    BY <2>1, <2>3 DEF Used
  <2> QED
    BY <2>1, <2>2, <2>4 DEF CloseInv, Busy
<1>3. ASSUME NEW w \in Worker, LoopStep(w) PROVE CloseInv'
  <2>1. /\ workers'[w].pc # "committing"
        /\ \A v \in Worker \ {w} : workers'[v] = workers[v]
        /\ UNCHANGED <<campaign, jobs, edits, overrun>>
    BY <1>3, LoopSteps DEF LoopStep, Frame
  <2> QED
    BY <2>1 DEF CloseInv, Over
<1>4. ASSUME NEW j \in JobId, LeaseExpires(j) PROVE CloseInv'
  <2>1. /\ jobs'[j].status = jobs[j].status
        /\ \A i \in JobId \ {j} : jobs'[i] = jobs[i]
        /\ UNCHANGED <<campaign, workers, edits, overrun>>
    BY <1>4, ExpireFields
  <2>2. \A i \in JobId : Over(i)' <=> Over(i)
    BY <2>1 DEF Over
  <2> QED
    BY <2>1, <2>2 DEF CloseInv
<1>5. CASE UNCHANGED vars
  BY <1>5 DEF vars, CloseInv, Over
<1> QED
  BY <1>1, <1>2, <1>3, <1>4, <1>5, CloseQueue, NextKinds
-----------------------------------------------------------------------------
(***************************************************************************)
(* Counting the sends.                                                     *)
(***************************************************************************)

\* No two workers are at the same recipient.
LEMMA Apart ==
    ASSUME TypeInv, QueueInv, DispatchInv, edits = 0, AudiencesDisjoint, ~overrun,
           NEW w \in Worker, Busy(w), workers[w].todo # <<>>,
           NEW v \in Worker, workers[v].pc \in AtRecipient, Current(v) = Current(w)
    PROVE  v = w
<1>1. /\ Busy(v) /\ workers[v].todo # <<>>
      /\ workers[v] \in WorkerState /\ workers[w] \in WorkerState
      /\ Current(w) \in Recipient
  BY AtRecipientType, BusyType, CurrentType DEF TypeInv
<1>2. /\ 1 \in DOMAIN workers[v].todo /\ Current(v) = workers[v].todo[1]
      /\ 1 \in DOMAIN workers[w].todo /\ Current(w) = workers[w].todo[1]
  BY <1>1 DEF Current, WorkerState
<1>3. Lists(workers[v].job, Current(w)) /\ Lists(workers[w].job, Current(w))
  BY <1>1, <1>2 DEF QueueInv, Lawful
<1>4. workers[v].job = workers[w].job
  BY <1>1, <1>3 DEF DispatchInv, WorkerState
<1> QED
  BY <1>1, <1>4, Lone

LEMMA SpareType == \A r : Spare(r) \in {0, 1}
BY DEF Spare

\* A worker that stops saving pays for it.
LEMMA SendsKept ==
    ASSUME TypeInv, SendsInv, UNCHANGED <<decision, sends>>,
           edits' = 0 => edits = 0, overrun => overrun',
           faults' \in {faults, faults + 1},
           \A w \in Worker : \/ workers'[w] = workers[w]
                             \/ /\ workers'[w].pc \notin {"deciding", "sending", "saving"}
                                /\ workers[w].pc = "saving" => faults' = faults + 1
    PROVE  SendsInv'
<1> SUFFICES ASSUME edits' = 0, AudiencesDisjoint, ~overrun' PROVE SendsInv'
  BY DEF SendsInv
<1>1. edits = 0 /\ ~overrun /\ faults \in Nat /\ sends \in [Recipient -> Nat]
  BY DEF TypeInv, TypeOK
<1>2. \A w \in Worker : Fresh(w)'
  BY <1>1 DEF SendsInv, Fresh, Current
<1>3. ASSUME NEW r \in Recipient PROVE sends'[r] + Spare(r)' <= 1 + faults'
  <2>1. Saving(r)' => Saving(r)
    BY DEF Saving, Current
  <2>2. Saving(r) /\ ~Saving(r)' => faults' = faults + 1
    BY DEF Saving, Current
  <2>3. sends[r] + Spare(r) <= 1 + faults /\ sends[r] \in Nat
    BY <1>1 DEF SendsInv
  <2>4. Spare(r) \in {0, 1} /\ Spare(r)' \in {0, 1}
    BY DEF Spare
  <2>5. Spare(r)' = Spare(r) \/ faults' = faults + 1
    BY <2>1, <2>2 DEF Spare
  <2> QED
    BY <1>1, <2>3, <2>4, <2>5
<1> QED
  BY <1>2, <1>3 DEF SendsInv

LEMMA SendsLoop ==
    ASSUME TypeInv, QueueInv, DispatchInv, SendsInv, NEW w \in Worker, LoopStep(w)
    PROVE  SendsInv'
<1>1. Frame(w) /\ Loops(w, Current(w))
  BY LoopSteps DEF LoopStep
<1> SUFFICES ASSUME edits' = 0, AudiencesDisjoint, ~overrun' PROVE SendsInv'
  BY DEF SendsInv
<1>2. /\ edits = 0 /\ ~overrun /\ faults \in Nat /\ sends \in [Recipient -> Nat]
      /\ faults' \in {faults, faults + 1}
  BY <1>1 DEF TypeInv, TypeOK, Frame
<1>3. PICK r \in Recipient : r = Current(w)
  BY <1>1 DEF Frame
<1>4. /\ Busy(w) /\ workers[w].todo # <<>>
      /\ workers[w] \in WorkerState
      /\ \A v \in Worker \ {w} : workers'[v] = workers[v]
      /\ \A q \in Recipient \ {r} : decision'[q] = decision[q] /\ sends'[q] = sends[q]
  BY <1>1, <1>3 DEF Frame, Busy, WorkerState, PC
<1>5. \A v \in Worker \ {w} : workers[v].pc \in AtRecipient =>
         Current(v) # r /\ Current(v) \in Recipient
  BY <1>2, <1>3, <1>4, Apart, AtRecipientType
<1>6. \A v \in Worker \ {w} : Fresh(v)'
  <2>1. {"deciding", "sending", "saving"} \subseteq AtRecipient
    BY DEF AtRecipient, PC
  <2> QED
    BY <1>2, <1>4, <1>5, <2>1 DEF SendsInv, Fresh, Current
<1>7. /\ Saving(r) <=> workers[w].pc = "saving"
      /\ Saving(r)' <=> workers'[w].pc = "saving" /\ Current(w)' = r
  <2>1. "saving" \in AtRecipient
    BY DEF AtRecipient, PC
  <2>2. \A v \in Worker \ {w} :
           /\ ~(workers[v].pc = "saving" /\ Current(v) = r)
           /\ ~(workers'[v].pc = "saving" /\ Current(v)' = r)
    BY <1>4, <1>5, <2>1 DEF Current
  <2> QED
    BY <1>3, <2>2 DEF Saving
<1>8. Fresh(w) /\ sends[r] \in Nat /\ sends[r] + Spare(r) <= 1 + faults
  BY <1>2 DEF SendsInv
<1>9. Spare(r) \in {0, 1} /\ Spare(r)' \in {0, 1}
  BY DEF Spare
<1>10. Fresh(w)' /\ sends'[r] + Spare(r)' <= 1 + faults'
       /\ (workers'[w].pc = "saving" => Current(w)' = r)
  <2>0. Loops(w, r)
    BY <1>1, <1>3
  <2>1. CASE Reads(w, r)
    <3>1. Spare(r)' = Spare(r) /\ sends'[r] = sends[r]
      BY <1>7, <2>1 DEF Reads, Stays, Same, Silent, Spare, Sendable
    <3>2. Fresh(w)' /\ workers'[w].pc # "saving"
      BY <1>3, <2>1 DEF Reads, Stays, Fresh, Current
    <3> QED
      BY <1>2, <1>8, <1>9, <3>1, <3>2
  <2>2. CASE Settles(w, r)
    <3>1. sends'[r] = sends[r] /\ (Spare(r)' = Spare(r) \/ Spare(r)' = 0)
      BY <1>7, <2>2 DEF Settles, Passes, Same, Silent, Spare, Sendable, Final, Open
    <3>2. Fresh(w)' /\ workers'[w].pc # "saving"
      BY <2>2 DEF Settles, Passes, Fresh
    <3> QED
      BY <1>2, <1>8, <1>9, <3>1, <3>2
  <2>3. CASE Retries(w, r)
    <3>1. Spare(r) = 1
      BY <1>3, <1>7, <1>8, <2>3 DEF Retries, Fresh, Spare
    <3>2. sends'[r] = sends[r] \/ (sends'[r] = sends[r] + 1 /\ faults' = faults + 1)
      BY <2>3 DEF Retries, Silent
    <3>3. Fresh(w)' /\ workers'[w].pc # "saving"
      BY <2>3 DEF Retries, Passes, Fresh
    <3> QED
      BY <1>2, <1>8, <1>9, <3>1, <3>2, <3>3
  <2>4. CASE Drops(w, r)
    <3>1. sends'[r] = sends[r] /\ (Spare(r)' = Spare(r) \/ faults' = faults + 1)
      BY <1>7, <2>4 DEF Drops, Same, Silent, Spare
    <3>2. Fresh(w)' /\ workers'[w].pc # "saving"
      BY <2>4 DEF Drops, Fresh
    <3> QED
      BY <1>2, <1>8, <1>9, <3>1, <3>2
  <2>5. CASE Chooses(w, r)
    <3>1. sends'[r] = sends[r] /\ Spare(r)' = Spare(r) /\ workers'[w].pc # "saving"
      BY <1>7, <2>5 DEF Chooses, Stays, Same, Silent, Spare
    <3>2. Fresh(w)'
      <4>1. decision[r] = workers[w].copy /\ workers[w].copy \in Open
        BY <1>3, <1>8, <2>5 DEF Chooses, Fresh
      <4>2. workers'[w].pc = "sending" => decision'[r] \in Sendable
        BY <4>1, <2>5 DEF Chooses, Stays, Same, Open, Sendable
      <4>3. Current(w)' = r /\ workers'[w].pc \in {"emitting", "sending"}
        BY <1>3, <2>5 DEF Chooses, Stays, Current
      <4> QED
        BY <4>2, <4>3 DEF Fresh
    <3> QED
      BY <1>2, <1>8, <1>9, <3>1, <3>2
  <2>6. CASE Accepts(w, r)
    <3>1. decision[r] \in Sendable /\ Current(w)' = r /\ workers'[w].pc = "saving"
          /\ workers[w].pc = "sending"
      BY <1>3, <1>8, <2>6 DEF Accepts, Stays, Fresh, Current
    <3>2. sends'[r] = sends[r] + 1 /\ Spare(r) = 1 /\ Spare(r)' = 0
      BY <1>7, <2>6, <3>1 DEF Accepts, Spare
    <3>3. Fresh(w)'
      BY <2>6, <3>1 DEF Accepts, Same, Fresh
    <3> QED
      BY <1>2, <1>8, <3>1, <3>2, <3>3
  <2>7. CASE Saves(w, r)
    <3>1. sends'[r] = sends[r] /\ (Spare(r)' = 0 \/ faults' = faults + 1)
      BY <2>7 DEF Saves, Silent, Spare, Sendable
    <3>2. Fresh(w)' /\ workers'[w].pc # "saving"
      BY <2>7 DEF Saves, Stays, Fresh
    <3>3. Spare(r) = 0
      BY <1>7, <2>7 DEF Saves, Spare
    <3> QED
      BY <1>2, <1>8, <1>9, <3>1, <3>2, <3>3
  <2>8. CASE Announces(w, r) \/ Leaves(w, r)
    <3>1. sends'[r] = sends[r] /\ Spare(r)' = Spare(r)
      BY <1>7, <2>8 DEF Announces, Leaves, Stays, Passes, Same, Silent, Spare
    <3>2. Fresh(w)' /\ workers'[w].pc # "saving"
      BY <2>8 DEF Announces, Leaves, Stays, Passes, Fresh
    <3> QED
      BY <1>2, <1>8, <1>9, <3>1, <3>2
  <2> QED
    BY <2>0, <2>1, <2>2, <2>3, <2>4, <2>5, <2>6, <2>7, <2>8 DEF Loops
<1>11. ASSUME NEW q \in Recipient \ {r} PROVE sends'[q] + Spare(q)' <= 1 + faults'
  <2>1. Saving(q)' <=> Saving(q)
    BY <1>3, <1>4, <1>10 DEF Saving, Current
  <2>2. Spare(q)' = Spare(q) /\ sends'[q] = sends[q]
    BY <1>4, <2>1 DEF Spare
  <2>3. sends[q] + Spare(q) <= 1 + faults /\ sends[q] \in Nat /\ Spare(q) \in {0, 1}
    BY <1>2, SpareType DEF SendsInv
  <2> QED
    BY <1>2, <2>2, <2>3
<1> QED
  BY <1>6, <1>10, <1>11 DEF SendsInv

LEMMA SendsKeep ==
    ASSUME TypeInv, QueueInv, DispatchInv, SendsInv, [Next]_vars
    PROVE  SendsInv'
<1> USE DEF ghosts, tables
<1>1. CASE RowStep
  <2>1. edits \in Nat
    BY DEF TypeInv, TypeOK
  <2>2. edits' = 0 => edits = 0
    BY <1>1, <2>1, RowFields
  <2> QED
    BY <1>1, <2>2, RowFields, SendsKept
<1>2. CASE SaveStep
  BY <1>2, SaveKeeps, SendsKept
<1>3. ASSUME NEW w \in Worker, QueueStep(w) PROVE SendsInv'
  <2>1. ASSUME NEW j \in JobId, ClaimDeliveryJob(w, j) PROVE SendsInv'
    <3>1. /\ ~Busy(w) /\ workers'[w].pc = "next"
          /\ \A v \in Worker \ {w} : workers'[v] = workers[v]
          /\ UNCHANGED <<decision, sends, faults, edits, overrun>>
      BY <2>1, ClaimFields
    <3> QED
      BY <3>1, SendsKept DEF Busy
  <2>2. CASE EndJob(w)
    <3>1. /\ workers[w].pc = "next" /\ workers'[w].pc = "committing"
          /\ \A v \in Worker \ {w} : workers'[v] = workers[v]
          /\ UNCHANGED <<decision, sends, faults, edits, overrun>>
      BY <2>2, EndFields
    <3> QED
      BY <3>1, SendsKept
  <2>3. CASE CommitJob(w)
    <3>1. /\ workers[w].pc = "committing" /\ workers'[w].pc = "idle"
          /\ \A v \in Worker \ {w} : workers'[v] = workers[v]
          /\ UNCHANGED <<decision, sends, faults, edits, overrun>>
      BY <2>3, CommitFields DEF Busy
    <3> QED
      BY <3>1, SendsKept
  <2>4. CASE Crash(w)
    <3>1. /\ workers'[w].pc = "idle" /\ faults' = faults + 1
          /\ \A v \in Worker \ {w} : workers'[v] = workers[v]
          /\ UNCHANGED <<decision, sends, edits, overrun>>
      BY <2>4, CrashFields DEF Busy
    <3> QED
      BY <3>1, SendsKept
  <2>5. CASE Overrun(w)
    BY <2>5 DEF Overrun, SendsInv
  <2> QED
    BY <1>3, <2>1, <2>2, <2>3, <2>4, <2>5 DEF QueueStep
<1>4. ASSUME NEW j \in JobId, LeaseExpires(j) PROVE SendsInv'
  BY <1>4, ExpireFields, SendsKept
<1>5. CASE UNCHANGED vars
  BY <1>5, SendsKept DEF vars
<1> QED
  BY <1>1, <1>2, <1>3, <1>4, <1>5, SendsLoop, NextKinds
-----------------------------------------------------------------------------
(***************************************************************************)
(* What the jobs owe.                                                      *)
(***************************************************************************)

LEMMA DecidedKept ==
    ASSUME DecidedInv, overrun => overrun', UNCHANGED <<decision, excused, events>>,
           \A r \in Recipient :
              /\ Listed(r)' => Listed(r) \/ \E j \in JobId : OwesSend(j, r)'
              /\ \A j \in JobId : /\ Owes(j, r) => Owes(j, r)'
                                  /\ OwesSend(j, r) => OwesSend(j, r)'
    PROVE  DecidedInv'
<1>1. ASSUME ~overrun', NEW r \in Recipient
      PROVE  /\ Listed(r)' => \/ r \in excused' \/ Sent(r)'
                              \/ \E j \in JobId : OwesSend(j, r)'
             /\ decision'[r] = "provider_sent" =>
                   \/ r \in excused' \/ Key(r) \in events'
                   \/ \E j \in JobId : Owes(j, r)'
  <2>1. /\ Listed(r) => \/ r \in excused \/ Sent(r)
                        \/ \E j \in JobId : OwesSend(j, r)
        /\ decision[r] = "provider_sent" =>
              \/ r \in excused \/ Key(r) \in events
              \/ \E j \in JobId : Owes(j, r)
    BY <1>1 DEF DecidedInv
  <2> QED
    BY <2>1 DEF Sent
<1> QED
  BY <1>1 DEF DecidedInv, Key

\* What a worker that is to be tried again, or has the recipient ahead, makes
\* of the debt of its own job.
LEMMA LoneOwes ==
    ASSUME QueueInv, ~overrun, NEW w \in Worker, Busy(w), UNCHANGED jobs,
           workers[w].job \in JobId, Busy(w)', workers'[w].job = workers[w].job,
           \A v \in Worker \ {w} : workers'[v] = workers[v],
           NEW r, Lists(workers[w].job, r)
    PROVE  \E j \in JobId :
              /\ j = workers[w].job
              /\ workers'[w].retry \/ Ahead(w, r)' => Owes(j, r)'
              /\ workers'[w].retry \/ (Ahead(w, r)' /\ ~Announcing(w, r)')
                    => OwesSend(j, r)'
<1>1. PICK j \in JobId : j = workers[w].job
  OBVIOUS
<1>2. \A v \in Worker : Busy(v)' /\ workers'[v].job = j => v = w
  BY <1>1, Lone DEF Busy
<1>3. jobs'[j].status # "completed" /\ Lists(j, r)'
  BY <1>1 DEF QueueInv, Leased, Lists
<1> WITNESS j \in JobId
<1> QED
  BY <1>1, <1>2, <1>3 DEF Owes, OwesSend

\* A step of the loop does not touch the debts of the other jobs, nor the
\* other debts of its own.
LEMMA OwesLoop ==
    ASSUME TypeInv, QueueInv, ~overrun, NEW w \in Worker,
           Frame(w), Loops(w, Current(w)),
           NEW j \in JobId, NEW r \in Recipient,
           r # Current(w) \/ j # workers[w].job
    PROVE  /\ Owes(j, r) => Owes(j, r)'
           /\ OwesSend(j, r) => OwesSend(j, r)'
<1>1. /\ workers[w] \in WorkerState /\ workers[w].todo # <<>>
      /\ workers'[w].job = workers[w].job /\ UNCHANGED jobs
      /\ \A v \in Worker \ {w} : workers'[v] = workers[v]
      /\ Busy(w) /\ Busy(w)' /\ workers[w].job \in JobId
  BY DEF Frame, Busy, WorkerState, PC
<1>2. CASE j # workers[w].job
  BY <1>1, <1>2 DEF Owes, OwesSend, Lists, Busy, Ahead, Announcing, Current
<1>3. CASE j = workers[w].job /\ r # Current(w)
  <2>1. /\ workers'[w].retry = TRUE
           \/ /\ workers'[w].retry = workers[w].retry
              /\ workers'[w].todo = workers[w].todo
           \/ /\ workers'[w].retry = workers[w].retry
              /\ workers'[w].todo = Tail(workers[w].todo)
              /\ workers'[w].pc = "next"
    BY DEF Loops, Reads, Settles, Retries, Drops, Chooses, Accepts, Saves,
           Announces, Leaves, Stays, Passes
  <2>2. workers'[w].retry = workers[w].retry /\ Ahead(w, r) => Ahead(w, r)'
        \/ workers'[w].retry = TRUE
    <3>1. CASE workers'[w].todo = workers[w].todo
      BY <3>1 DEF Ahead
    <3>2. CASE workers'[w].todo = Tail(workers[w].todo)
      <4>1. workers[w].todo \in Seq(Recipient)
        BY <1>1 DEF WorkerState
      <4>2. ASSUME NEW i \in DOMAIN workers[w].todo, workers[w].todo[i] = r
            PROVE  Ahead(w, r)'
        <5>1. i # 1 /\ i \in 1..Len(workers[w].todo)
          BY <1>3, <4>1, <4>2 DEF Current
        <5>2. i - 1 \in DOMAIN Tail(workers[w].todo)
              /\ Tail(workers[w].todo)[i - 1] = r
          BY <1>1, <4>1, <4>2, <5>1
        <5> QED
          BY <3>2, <5>2 DEF Ahead
      <4> QED
        BY <4>2 DEF Ahead
    <3> QED
      BY <2>1, <3>1, <3>2
  <2>3. ~Announcing(w, r)' \/ workers'[w].retry = TRUE
    BY <1>3, <2>1 DEF Announcing, Current
  <2>4. Lists(j, r) => \E k \in JobId :
              /\ k = workers[w].job
              /\ workers'[w].retry \/ Ahead(w, r)' => Owes(k, r)'
              /\ workers'[w].retry \/ (Ahead(w, r)' /\ ~Announcing(w, r)')
                    => OwesSend(k, r)'
    BY <1>1, <1>3, LoneOwes
  <2>5. Owes(j, r) \/ OwesSend(j, r) => Lists(j, r) /\ (workers[w].retry \/ Ahead(w, r))
    BY <1>1, <1>3 DEF Owes, OwesSend
  <2>6. Owes(j, r) \/ OwesSend(j, r) => workers'[w].retry \/ Ahead(w, r)'
    BY <2>1, <2>2, <2>5
  <2> QED
    BY <1>3, <2>3, <2>4, <2>5, <2>6
<1> QED
  BY <1>2, <1>3

LEMMA DecidedLoop ==
    ASSUME TypeInv, QueueInv, DecidedInv, NEW w \in Worker, LoopStep(w)
    PROVE  DecidedInv'
<1>1. Frame(w) /\ Loops(w, Current(w))
  BY LoopSteps DEF LoopStep
<1> SUFFICES ASSUME ~overrun' PROVE DecidedInv'
  BY DEF DecidedInv
<1>2. ~overrun
  BY <1>1 DEF Frame
<1>3. PICK r \in Recipient : r = Current(w)
  BY <1>1 DEF Frame
<1>4. PICK jw \in JobId : jw = workers[w].job
  BY <1>1 DEF Frame, WorkerState
<1>5. /\ Busy(w) /\ Busy(w)' /\ workers[w].todo # <<>> /\ workers[w] \in WorkerState
      /\ workers'[w].job = jw /\ UNCHANGED jobs
      /\ \A v \in Worker \ {w} : workers'[v] = workers[v]
      /\ \A q \in Recipient \ {r} : decision'[q] = decision[q]
      /\ events \subseteq events' /\ excused \subseteq excused'
  BY <1>1, <1>3, <1>4 DEF Frame, Busy, WorkerState, PC
<1>6. \A q : Listed(q)' <=> Listed(q)
  BY <1>5 DEF Listed, Lists
<1>7. 1 \in DOMAIN workers[w].todo /\ workers[w].todo[1] = r /\ Ahead(w, r)
  BY <1>3, <1>5 DEF Ahead, Current, WorkerState
<1>8. /\ workers'[w].retry \/ Ahead(w, r)' => Owes(jw, r)'
      /\ workers'[w].retry \/ (Ahead(w, r)' /\ ~Announcing(w, r)') => OwesSend(jw, r)'
  <2>1. Lists(jw, r)
    BY <1>4, <1>5, <1>7 DEF QueueInv, Lawful
  <2> QED
    BY <1>2, <1>4, <1>5, <2>1, LoneOwes
<1>9. \A q \in Recipient, j \in JobId : q # r \/ j # jw =>
         /\ Owes(j, q) => Owes(j, q)'
         /\ OwesSend(j, q) => OwesSend(j, q)'
  BY <1>1, <1>2, <1>3, <1>4, OwesLoop
<1>10. \A q \in Recipient :
         /\ Listed(q) => \/ q \in excused \/ Sent(q)
                         \/ \E j \in JobId : OwesSend(j, q)
         /\ decision[q] = "provider_sent" =>
               \/ q \in excused \/ Key(q) \in events
               \/ \E j \in JobId : Owes(j, q)
  BY <1>2 DEF DecidedInv
<1>11. ASSUME NEW q \in Recipient \ {r}
       PROVE  /\ Listed(q)' => \/ q \in excused' \/ Sent(q)'
                               \/ \E j \in JobId : OwesSend(j, q)'
              /\ decision'[q] = "provider_sent" =>
                    \/ q \in excused' \/ Key(q) \in events'
                    \/ \E j \in JobId : Owes(j, q)'
  <2>1. Sent(q)' <=> Sent(q)
    BY <1>5 DEF Sent
  <2> QED
    BY <1>5, <1>6, <1>9, <1>10, <2>1
<1>12. OwesSend(jw, r) => workers[w].retry \/ ~Announcing(w, r)
  BY <1>4, <1>5 DEF OwesSend
<1>13. workers'[w].todo = workers[w].todo => Ahead(w, r)' /\ Current(w)' = r
  BY <1>3, <1>7 DEF Ahead, Current
<1>14. Listed(r)' => \/ r \in excused' \/ Sent(r)'
                     \/ \E j \in JobId : OwesSend(j, r)'
  <2> SUFFICES ASSUME Listed(r), ~Sent(r)', r \notin excused'
               PROVE  \E j \in JobId : OwesSend(j, r)'
    BY <1>6
  <2>0. Loops(w, r)
    BY <1>1, <1>3
  <2>1. CASE Retries(w, r) \/ Drops(w, r)
    BY <1>8, <2>1 DEF Retries, Drops, Passes
  <2>2. CASE ~(Retries(w, r) \/ Drops(w, r))
    <3>1. ~Sent(r)
      BY <2>0, <2>2 DEF Loops, Reads, Settles, Chooses, Accepts, Saves, Announces,
                        Leaves, Same, Sent, Final
    <3>2. PICK j \in JobId : OwesSend(j, r)
      BY <1>5, <1>10, <3>1
    <3>3. CASE j # jw
      BY <1>9, <3>2, <3>3
    <3>4. CASE j = jw
      <4>1. workers[w].retry \/ ~Announcing(w, r)
        BY <1>12, <3>2, <3>4
      <4>2. workers'[w].retry \/ (Ahead(w, r)' /\ ~Announcing(w, r)')
        <5>1. CASE Reads(w, r)
          BY <1>13, <2>2, <5>1 DEF Reads, Stays, Announcing, Sent
        <5>2. CASE Settles(w, r)
          BY <5>2 DEF Settles, Sent
        <5>3. CASE Chooses(w, r)
          <6>1. workers[w].copy # "provider_sent" \/ workers[w].retry
            BY <1>3, <1>5, <4>1, <5>3 DEF Chooses, Announcing
          <6> QED
            BY <1>13, <5>3, <6>1 DEF Chooses, Stays, Announcing
        <5>4. CASE Accepts(w, r)
          BY <1>13, <5>4 DEF Accepts, Stays, Announcing
        <5>5. CASE Saves(w, r)
          BY <5>5 DEF Saves, Sent
        <5>6. CASE Announces(w, r) \/ Leaves(w, r)
          <6>1. workers[w].retry
            BY <1>3, <1>5, <4>1, <5>6 DEF Announces, Leaves, Announcing
          <6> QED
            BY <5>6, <6>1 DEF Announces, Leaves, Stays, Passes
        <5> QED
          BY <2>0, <2>2, <5>1, <5>2, <5>3, <5>4, <5>5, <5>6 DEF Loops
      <4> QED
        BY <1>8, <4>2
    <3> QED
      BY <3>3, <3>4
  <2> QED
    BY <2>1, <2>2
<1>15. decision'[r] = "provider_sent" =>
                    \/ r \in excused' \/ Key(r) \in events'
                    \/ \E j \in JobId : Owes(j, r)'
  <2> SUFFICES ASSUME decision'[r] = "provider_sent", r \notin excused',
                      Key(r) \notin events'
               PROVE  \E j \in JobId : Owes(j, r)'
    OBVIOUS
  <2>0. Loops(w, r)
    BY <1>1, <1>3
  <2>1. workers'[w].retry \/ workers'[w].todo = workers[w].todo
    BY <1>5, <2>0 DEF Loops, Reads, Settles, Retries, Drops, Chooses, Accepts, Saves,
       Announces, Leaves, Stays, Passes, Final, Open
  <2> QED
    BY <1>8, <1>13, <2>1
<1> QED
  BY <1>11, <1>14, <1>15 DEF DecidedInv, Key

LEMMA DecidedQueue ==
    ASSUME TypeInv, QueueInv, DecidedInv, NEW w \in Worker, QueueStep(w)
    PROVE  DecidedInv'
<1> USE DEF ghosts, tables
<1> SUFFICES ASSUME ~overrun' PROVE DecidedInv'
  BY DEF DecidedInv
<1>1. ASSUME NEW k \in JobId, ClaimDeliveryJob(w, k) PROVE DecidedInv'
  <2>1. /\ JobsKept
        /\ jobs'[k].status = "processing"
        /\ \A i \in JobId \ {k} : jobs'[i] = jobs[i]
        /\ ~Busy(w) /\ workers'[w].pc = "next" /\ workers'[w].job = k
        /\ workers'[w].todo = jobs[k].recipients
        /\ \A v \in Worker \ {w} : workers'[v] = workers[v]
        /\ UNCHANGED <<decision, events, excused, overrun>>
    BY <1>1, ClaimFields
  <2>2. \A i \in JobId : \A r : Lists(i, r)' <=> Lists(i, r)
    BY <2>1, KeptFacts
  <2>3. \A r : Listed(r)' <=> Listed(r)
    BY <2>2 DEF Listed
  <2>4. \A r : Lists(k, r) => Ahead(w, r)' /\ ~Announcing(w, r)'
    BY <2>1 DEF Lists, Ahead, Announcing
  <2>5. ASSUME NEW j \in JobId, NEW r \in Recipient
        PROVE  (Owes(j, r) => Owes(j, r)') /\ (OwesSend(j, r) => OwesSend(j, r)')
    <3>1. jobs'[j].status = "completed" => jobs[j].status = "completed"
      BY <2>1
    <3>2. ASSUME NEW v \in Worker \ {w}
          PROVE  /\ Busy(v)' <=> Busy(v)
                 /\ workers'[v] = workers[v]
                 /\ Ahead(v, r)' <=> Ahead(v, r)
                 /\ Announcing(v, r)' <=> Announcing(v, r)
      BY <2>1 DEF Busy, Ahead, Announcing, Current
    <3> QED
      BY <2>1, <2>2, <2>4, <3>1, <3>2 DEF Owes, OwesSend
  <2> QED
    BY <2>1, <2>3, <2>5, DecidedKept
<1>2. CASE EndJob(w)
  <2>1. /\ Busy(w) /\ Busy(w)'
        /\ workers'[w].pc = "committing" /\ workers'[w].todo = workers[w].todo
        /\ workers'[w].job = workers[w].job /\ workers'[w].retry = workers[w].retry
        /\ \A v \in Worker \ {w} : workers'[v] = workers[v]
        /\ UNCHANGED <<jobs, decision, events, excused, overrun>>
    BY <1>2, EndFields
  <2>2. \A r : Listed(r)' <=> Listed(r)
    BY <2>1 DEF Listed, Lists
  <2>3. ASSUME NEW j \in JobId, NEW r \in Recipient
        PROVE  (Owes(j, r) => Owes(j, r)') /\ (OwesSend(j, r) => OwesSend(j, r)')
    <3>1. (Ahead(w, r)' <=> Ahead(w, r)) /\ ~Announcing(w, r)'
      BY <2>1 DEF Ahead, Announcing
    <3>2. ASSUME NEW v \in Worker \ {w}
          PROVE  /\ Busy(v)' <=> Busy(v)
                 /\ workers'[v] = workers[v]
                 /\ Ahead(v, r)' <=> Ahead(v, r)
                 /\ Announcing(v, r)' <=> Announcing(v, r)
      BY <2>1 DEF Busy, Ahead, Announcing, Current
    <3>3. Lists(j, r)' <=> Lists(j, r)
      BY <2>1 DEF Lists
    <3> QED
      BY <2>1, <3>1, <3>2, <3>3 DEF Owes, OwesSend
  <2> QED
    BY <2>1, <2>2, <2>3, DecidedKept
<1>3. CASE CommitJob(w)
  <2>1. /\ Busy(w) /\ workers[w].job \in JobId /\ workers[w].pc = "committing"
        /\ JobsKept
        /\ jobs'[workers[w].job].status = "completed" <=> ~workers[w].retry
        /\ \A i \in JobId \ {workers[w].job} : jobs'[i] = jobs[i]
        /\ ~Busy(w)' /\ \A v \in Worker \ {w} : workers'[v] = workers[v]
        /\ UNCHANGED <<decision, events, excused, overrun>>
    BY <1>3, CommitFields
  <2>2. \A i \in JobId : \A r : Lists(i, r)' <=> Lists(i, r)
    BY <2>1, KeptFacts
  <2>3. \A r : Listed(r)' <=> Listed(r)
    BY <2>2 DEF Listed
  <2>4. \A r : ~Ahead(w, r)
    BY <2>1 DEF QueueInv, Lawful, Ahead
  <2>5. ASSUME NEW j \in JobId, NEW r \in Recipient
        PROVE  (Owes(j, r) => Owes(j, r)') /\ (OwesSend(j, r) => OwesSend(j, r)')
    <3>1. ASSUME NEW v \in Worker \ {w}
          PROVE  /\ Busy(v)' <=> Busy(v)
                 /\ workers'[v] = workers[v]
                 /\ Ahead(v, r)' <=> Ahead(v, r)
                 /\ Announcing(v, r)' <=> Announcing(v, r)
      BY <2>1 DEF Busy, Ahead, Announcing, Current
    <3>2. Owes(j, r) \/ OwesSend(j, r) => jobs'[j].status # "completed"
      BY <2>1, <2>4 DEF Owes, OwesSend
    <3> QED
      BY <2>1, <2>2, <3>1, <3>2 DEF Owes, OwesSend
  <2> QED
    BY <2>1, <2>3, <2>5, DecidedKept
<1>4. CASE Crash(w)
  <2>1. /\ ~Busy(w)' /\ \A v \in Worker \ {w} : workers'[v] = workers[v]
        /\ UNCHANGED <<jobs, decision, events, excused, overrun>>
    BY <1>4, CrashFields
  <2>2. \A r : Listed(r)' <=> Listed(r)
    BY <2>1 DEF Listed, Lists
  <2>3. ASSUME NEW j \in JobId, NEW r \in Recipient
        PROVE  (Owes(j, r) => Owes(j, r)') /\ (OwesSend(j, r) => OwesSend(j, r)')
    <3>1. ASSUME NEW v \in Worker \ {w}
          PROVE  /\ Busy(v)' <=> Busy(v)
                 /\ workers'[v] = workers[v]
                 /\ Ahead(v, r)' <=> Ahead(v, r)
                 /\ Announcing(v, r)' <=> Announcing(v, r)
      BY <2>1 DEF Busy, Ahead, Announcing, Current
    <3>2. Lists(j, r)' <=> Lists(j, r)
      BY <2>1 DEF Lists
    <3> QED
      BY <2>1, <3>1, <3>2 DEF Owes, OwesSend
  <2> QED
    BY <2>1, <2>2, <2>3, DecidedKept
<1>5. CASE Overrun(w)
  BY <1>5 DEF Overrun
<1> QED
  BY <1>1, <1>2, <1>3, <1>4, <1>5 DEF QueueStep

\* The jobs of a dispatch owe all their recipients.
LEMMA DecidedSave ==
    ASSUME TypeInv, QueueInv, DecidedInv, SaveStep
    PROVE  DecidedInv'
<1>1. /\ \A j \in JobId : jobs[j].status # "none" => jobs'[j] = jobs[j]
      /\ \A w \in Worker : Busy(w) => /\ workers[w].job \in JobId
                                      /\ jobs[workers[w].job].status # "none"
      /\ \A j \in JobId : jobs'[j] = jobs[j] \/ jobs'[j].status = "pending"
      /\ UNCHANGED <<workers, overrun, decision, events, excused>>
  BY SaveKeeps
<1>2. \A j \in JobId : \A r : Lists(j, r) => jobs[j].status # "none"
  BY DEF QueueInv, Numbered, Lists
<1>3. ASSUME NEW r \in Recipient, Listed(r)', ~Listed(r)
      PROVE  \E j \in JobId : OwesSend(j, r)'
  <2>1. PICK j \in JobId : Lists(j, r)'
    BY <1>3 DEF Listed
  <2>2. jobs'[j] # jobs[j]
    BY <1>3, <2>1 DEF Listed, Lists
  <2>3. jobs[j].status = "none" /\ jobs'[j].status = "pending"
    BY <1>1, <2>2
  <2>4. \A w \in Worker : ~(Busy(w)' /\ workers'[w].job = j)
    BY <1>1, <2>3 DEF Busy
  <2>5. OwesSend(j, r)'
    BY <2>1, <2>3, <2>4 DEF OwesSend
  <2> QED
    BY <2>5
<1>4. ASSUME NEW j \in JobId, NEW r \in Recipient
      PROVE  (Owes(j, r) => Owes(j, r)') /\ (OwesSend(j, r) => OwesSend(j, r)')
  <2>1. ASSUME NEW v \in Worker
        PROVE  /\ Busy(v)' <=> Busy(v)
               /\ Ahead(v, r)' <=> Ahead(v, r)
               /\ Announcing(v, r)' <=> Announcing(v, r)
    BY <1>1 DEF Busy, Ahead, Announcing, Current
  <2>2. Lists(j, r) => jobs'[j] = jobs[j] /\ Lists(j, r)'
    BY <1>1, <1>2 DEF Lists
  <2> QED
    BY <1>1, <2>1, <2>2 DEF Owes, OwesSend
<1> QED
  BY <1>1, <1>3, <1>4, DecidedKept

LEMMA DecidedKeeps ==
    ASSUME TypeInv, QueueInv, DecidedInv, [Next]_vars
    PROVE  DecidedInv'
<1> USE DEF ghosts, tables
<1>1. CASE RowStep \/ UNCHANGED vars
  <2>1. UNCHANGED <<jobs, workers, decision, events, excused, overrun>>
    BY <1>1, RowFields DEF vars
  <2>2. \A j, r : /\ Owes(j, r)' <=> Owes(j, r)
                  /\ OwesSend(j, r)' <=> OwesSend(j, r)
                  /\ Listed(r)' <=> Listed(r)
    BY <2>1 DEF Owes, OwesSend, Listed, Lists, Busy, Ahead, Announcing, Current
  <2> QED
    BY <2>1, <2>2, DecidedKept
<1>2. ASSUME NEW k \in JobId, LeaseExpires(k) PROVE DecidedInv'
  <2>1. /\ JobsKept
        /\ jobs'[k].status = jobs[k].status
        /\ \A i \in JobId \ {k} : jobs'[i] = jobs[i]
        /\ UNCHANGED <<workers, decision, events, excused, overrun>>
    BY <1>2, ExpireFields
  <2>2. \A i \in JobId : \A r : Lists(i, r)' <=> Lists(i, r)
    BY <2>1, KeptFacts
  <2>3. \A r : Listed(r)' <=> Listed(r)
    BY <2>2 DEF Listed
  <2>4. \A j \in JobId : jobs'[j].status = jobs[j].status
    BY <2>1
  <2>5. \A j \in JobId : \A r : /\ Owes(j, r)' <=> Owes(j, r)
                                /\ OwesSend(j, r)' <=> OwesSend(j, r)
    BY <2>1, <2>2, <2>4 DEF Owes, OwesSend, Busy, Ahead, Announcing, Current
  <2> QED
    BY <2>1, <2>3, <2>5, DecidedKept
<1> QED
  BY <1>1, <1>2, DecidedLoop, DecidedQueue, DecidedSave, NextKinds
-----------------------------------------------------------------------------
(***************************************************************************)
(* The invariant of the campaign as a whole.                               *)
(***************************************************************************)

CampaignInv == /\ TruthInv /\ QueueInv /\ DispatchInv
               /\ CloseInv /\ SendsInv /\ DecidedInv

LEMMA CampaignInit == Init => CampaignInv
<1> SUFFICES ASSUME Init PROVE CampaignInv
  OBVIOUS
<1>1. /\ \A j \in JobId : jobs[j].status = "none" /\ jobs[j].recipients = <<>>
      /\ \A w \in Worker : workers[w].pc = "idle"
      /\ \A r \in Recipient : decision[r] = "none" /\ sends[r] = 0
      /\ faults = 0 /\ campaign = "none" /\ dispatchers = {}
  BY DEF Init, NoJob, IdleWorker
<1>2. Used = {} /\ \A j \in JobId : \A r : ~Lists(j, r)
  BY <1>1 DEF Used, Lists
<1>3. QueueInv
  <2>1. Used = 1..0
    BY <1>2
  <2> QED
    BY <1>1, <2>1 DEF QueueInv, Numbered, Lawful, Leased, Busy
<1>4. DispatchInv
  BY <1>1, <1>2 DEF DispatchInv
<1>5. CloseInv
  BY <1>1 DEF CloseInv, Over
<1>6. SendsInv
  <2>1. \A r \in Recipient : sends[r] + Spare(r) <= 1 + faults
    BY <1>1, SpareType
  <2> QED
    BY <1>1, <2>1 DEF SendsInv, Fresh
<1>7. DecidedInv
  BY <1>1, <1>2 DEF DecidedInv, Listed
<1> QED
  BY <1>3, <1>4, <1>5, <1>6, <1>7, TruthInit DEF CampaignInv

LEMMA CampaignStep == CampaignInv /\ [Next]_vars => CampaignInv'
<1> SUFFICES ASSUME CampaignInv, [Next]_vars PROVE CampaignInv'
  OBVIOUS
<1>1. TypeInv
  BY DEF CampaignInv, TruthInv
<1> QED
  BY <1>1, TruthStep, QueueKeeps, DispatchKeeps, CloseKeeps, SendsKeep, DecidedKeeps
     DEF CampaignInv

\* CompleteDeliveryJob, FailDeliveryJob: no recipient is lost.  As long as the
\* leases of five minutes are kept, whoever is on the list of a job is settled,
\* was let down by a call that failed, or is still owed the message by a job;
\* and a campaign nobody edits is not completed while a job owes any.
THEOREM CompletedCampaignsAreDecided == Spec => []CompletedIsDecided
<1>1. CampaignInv => CompletedIsDecided
  <2> SUFFICES ASSUME CampaignInv, ~overrun, NEW r \in Recipient, Listed(r),
                      r \notin excused, ~Settled(r)
               PROVE  Waits(r) /\ (campaign = "completed" => edits > 0)
    BY DEF CompletedIsDecided
  <2>1. PICK j \in JobId : jobs[j].status # "completed" /\ Lists(j, r)
    <3>1. /\ Sent(r) \/ \E j \in JobId : OwesSend(j, r)
          /\ decision[r] = "provider_sent" =>
                \/ Key(r) \in events
                \/ \E j \in JobId : Owes(j, r)
      BY DEF CampaignInv, DecidedInv
    <3>2. Sent(r) => decision[r] = "provider_sent" /\ Key(r) \notin events
      BY DEF Sent, Settled
    <3> QED
      BY <3>1, <3>2 DEF Owes, OwesSend
  <2>2. jobs[j].status # "none"
    BY <2>1 DEF CampaignInv, QueueInv, Numbered, Lists
  <2>3. edits \in Nat
    BY DEF CampaignInv, TruthInv, TypeInv, TypeOK
  <2>4. campaign = "completed" => edits # 0
    BY <2>1, <2>2 DEF CampaignInv, CloseInv, Over
  <2> QED
    BY <2>1, <2>3, <2>4 DEF Waits
<1> QED
  BY <1>1, CampaignInit, CampaignStep, PTL DEF Spec

\* DeliverNext: as long as the leases are kept, a campaign that is dispatched
\* once sends a message again only for a crash, a lost write or a lost answer,
\* however many jobs, workers and tries there are.
THEOREM SendsArePaidForUnderLeases == Spec => [](~overrun => SendsArePaidFor)
<1>1. CampaignInv => (~overrun => SendsArePaidFor)
  <2> SUFFICES ASSUME CampaignInv, ~overrun, edits = 0, AudiencesDisjoint,
                      NEW r \in Recipient
               PROVE  sends[r] <= 1 + faults
    BY DEF SendsArePaidFor
  <2>1. sends[r] + Spare(r) <= 1 + faults /\ Spare(r) \in {0, 1}
    BY SpareType DEF CampaignInv, SendsInv
  <2>2. sends[r] \in Nat /\ faults \in Nat
    BY DEF CampaignInv, TruthInv, TypeInv, TypeOK
  <2> QED
    BY <2>1, <2>2
<1> QED
  BY <1>1, CampaignInit, CampaignStep, PTL DEF Spec
-----------------------------------------------------------------------------
(***************************************************************************)
(* Leases that are overrun.  Nothing a worker writes is fenced, and a job  *)
(* whose lease ran out is claimed whatever its attempts; what is left is   *)
(* that every claim is counted in the attempts of the job.                 *)
(***************************************************************************)

\* The job is marked as taken and no worker with its lease works on it.
Unheld(j) ==
    /\ jobs[j].status = "processing"
    /\ \A w \in Worker : jobs[j].lease = w => ~(Busy(w) /\ workers[w].job = j)
Due(j) == IF Unheld(j) THEN 1 ELSE 0

\* A claim takes one of the tries, or one that a fault has paid for.
TriesInv == \A j \in JobId : jobs[j].attempts + Due(j) <= MaxAttempts + faults

LEMMA DueType == \A j : Due(j) \in {0, 1}
BY DEF Due

LEMMA TriesType ==
    ASSUME TypeInv, NEW j \in JobId
    PROVE  jobs[j].attempts \in Nat /\ faults \in Nat /\ MaxAttempts \in Nat
BY CampaignAssumption DEF TypeInv, TypeOK, Job

\* The steps that count no claim.
LEMMA TriesKept ==
    ASSUME TypeInv, TriesInv, faults' \in {faults, faults + 1},
           \A j \in JobId : /\ jobs'[j].attempts = jobs[j].attempts
                            /\ Due(j)' = Due(j) \/ Due(j)' = 0 \/ faults' = faults + 1
    PROVE  TriesInv'
<1> SUFFICES ASSUME NEW j \in JobId
             PROVE  jobs'[j].attempts + Due(j)' <= MaxAttempts + faults'
  BY DEF TriesInv
<1>1. jobs[j].attempts \in Nat /\ faults \in Nat /\ MaxAttempts \in Nat
  BY TriesType
<1>2. Due(j) \in {0, 1} /\ Due(j)' \in {0, 1}
  BY DEF Due
<1>3. jobs[j].attempts + Due(j) <= MaxAttempts + faults
  BY DEF TriesInv
<1> QED
  BY <1>1, <1>2, <1>3

LEMMA TriesClaim ==
    ASSUME TypeInv, TriesInv, NEW w \in Worker, NEW j \in JobId, ClaimDeliveryJob(w, j)
    PROVE  /\ TriesInv' /\ jobs'[j].attempts = jobs[j].attempts + 1
           /\ \A i \in JobId \ {j} : jobs'[i] = jobs[i]
<1>1. /\ jobs'[j].status = "processing" /\ jobs'[j].lease = w
      /\ jobs[j].status = "processing" => jobs[j].lease = NoWorker
      /\ \A i \in JobId \ {j} : jobs'[i] = jobs[i]
      /\ ~Busy(w) /\ workers'[w].pc = "next" /\ workers'[w].job = j
      /\ \A v \in Worker \ {w} : workers'[v] = workers[v]
      /\ faults' = faults
  BY ClaimFields DEF ghosts
<1>2. jobs'[j].attempts = jobs[j].attempts + 1
  BY DEF ClaimDeliveryJob, TypeInv, TypeOK
<1>3. jobs[j].status # "processing" => jobs[j].attempts < MaxAttempts
  BY DEF ClaimDeliveryJob, Claimable
<1>4. Due(j)' = 0
  BY <1>1 DEF Due, Unheld, Busy
<1>5. jobs[j].status = "processing" => Due(j) = 1
  BY <1>1, CampaignAssumption DEF Due, Unheld
<1>6. jobs'[j].attempts + Due(j)' <= MaxAttempts + faults'
  <2>1. /\ jobs[j].attempts \in Nat /\ faults \in Nat /\ MaxAttempts \in Nat
        /\ jobs[j].attempts + Due(j) <= MaxAttempts + faults
    BY TriesType DEF TriesInv
  <2> QED
    BY <1>1, <1>2, <1>3, <1>4, <1>5, <2>1
<1>7. ASSUME NEW i \in JobId \ {j} PROVE jobs'[i].attempts + Due(i)' <= MaxAttempts + faults'
  <2>1. Unheld(i)' <=> Unheld(i)
    BY <1>1 DEF Unheld, Busy
  <2> QED
    BY <1>1, <2>1 DEF TriesInv, Due
<1> QED
  BY <1>1, <1>2, <1>6, <1>7 DEF TriesInv

\* No other step claims a job; a dispatch inserts jobs nobody has tried.
LEMMA OtherTries ==
    ASSUME TypeInv, QueueInv, [Next]_vars,
           ~\E w \in Worker, j \in JobId : ClaimDeliveryJob(w, j)
    PROVE  /\ \A j \in JobId : \/ jobs'[j].attempts = jobs[j].attempts
                               \/ jobs'[j].attempts = 0 /\ jobs'[j].status = "pending"
           /\ ~SaveStep => JobsKept /\ \A j \in JobId :
                              jobs'[j].attempts = jobs[j].attempts
<1> USE DEF ghosts, tables
<1>0. jobs \in [JobId -> Job]
  BY DEF TypeInv, TypeOK
<1>1. CASE RowStep \/ UNCHANGED vars
  BY <1>1, RowFields DEF vars, JobsKept
<1>2. CASE SaveStep
  <2>1. PICK d \in Dispatcher, shards \in Audiences :
           SaveCampaignManifestAndJobs(d, shards)
    BY <1>2 DEF SaveStep
  <2>2. ASSUME NEW j \in JobId
        PROVE  \/ jobs'[j] = jobs[j]
               \/ jobs'[j].attempts = 0 /\ jobs'[j].status = "pending"
    BY <2>1 DEF SaveCampaignManifestAndJobs, NoJob
  <2> QED
    BY <1>2, <2>2
<1>3. ASSUME NEW w \in Worker, LoopStep(w) PROVE jobs' = jobs
  BY <1>3, LoopSteps DEF LoopStep, Frame
<1>4. ASSUME NEW w \in Worker, QueueStep(w)
      PROVE  JobsKept /\ \A j \in JobId : jobs'[j].attempts = jobs[j].attempts
  <2>1. CASE EndJob(w) \/ Crash(w)
    BY <2>1 DEF EndJob, Crash, JobsKept
  <2>2. CASE CommitJob(w)
    <3>1. JobsKept /\ workers[w].job \in JobId
      BY <2>2, CommitFields
    <3>2. jobs' = [jobs EXCEPT ![workers[w].job] = Ended(w)]
      BY <2>2 DEF CommitJob
    <3>3. Ended(w).attempts = jobs[workers[w].job].attempts
      BY <1>0, <3>1 DEF Ended, Job
    <3> QED
      BY <1>0, <3>1, <3>2, <3>3
  <2>3. CASE Overrun(w)
    <3>1. workers[w].job \in JobId
      BY <2>3, BusyType DEF Overrun, TypeInv, WorkerState
    <3> QED
      BY <1>0, <2>3, <3>1 DEF Overrun, JobsKept, Job
  <2> QED
    BY <1>4, <2>1, <2>2, <2>3 DEF QueueStep
<1>5. ASSUME NEW j \in JobId, LeaseExpires(j)
      PROVE  JobsKept /\ \A i \in JobId : jobs'[i].attempts = jobs[i].attempts
  <2>1. JobsKept
    BY <1>5, ExpireFields
  <2> QED
    BY <1>0, <1>5, <2>1 DEF LeaseExpires, Job
<1> QED
  BY <1>1, <1>2, <1>3, <1>4, <1>5, NextKinds DEF JobsKept

LEMMA TriesKeep ==
    ASSUME TypeInv, QueueInv, TriesInv, [Next]_vars
    PROVE  TriesInv'
<1> USE DEF ghosts, tables
<1>1. ASSUME NEW w \in Worker, NEW j \in JobId, ClaimDeliveryJob(w, j) PROVE TriesInv'
  BY <1>1, TriesClaim
<1> SUFFICES ASSUME ~\E w \in Worker, j \in JobId : ClaimDeliveryJob(w, j)
             PROVE  TriesInv'
  BY <1>1
<1>2. /\ \A j \in JobId : \/ jobs'[j].attempts = jobs[j].attempts
                          \/ jobs'[j].attempts = 0 /\ jobs'[j].status = "pending"
      /\ ~SaveStep => \A j \in JobId : jobs'[j].attempts = jobs[j].attempts
  BY OtherTries
<1>3. CASE SaveStep
  <2>1. /\ \A j \in JobId : jobs'[j] = jobs[j] \/ jobs'[j].status = "pending"
        /\ UNCHANGED <<workers, faults>>
    BY <1>3, SaveKeeps
  <2> SUFFICES ASSUME NEW j \in JobId
               PROVE  jobs'[j].attempts + Due(j)' <= MaxAttempts + faults'
    BY DEF TriesInv
  <2>2. /\ jobs[j].attempts \in Nat /\ faults \in Nat /\ MaxAttempts \in Nat
        /\ jobs[j].attempts + Due(j) <= MaxAttempts + faults /\ Due(j) \in {0, 1}
    BY TriesType, DueType DEF TriesInv
  <2>3. jobs'[j] = jobs[j] => Due(j)' = Due(j)
    BY <2>1 DEF Due, Unheld, Busy
  <2>4. jobs'[j].status = "pending" => Due(j)' = 0
    BY DEF Due, Unheld
  <2> QED
    BY <1>2, <2>1, <2>2, <2>3, <2>4
<1>4. CASE ~SaveStep
  <2>1. \A j \in JobId : jobs'[j].attempts = jobs[j].attempts
    BY <1>2, <1>4
  <2>2. CASE RowStep \/ UNCHANGED vars
    <3>1. UNCHANGED <<jobs, workers>> /\ faults' \in {faults, faults + 1}
      BY <2>2, RowFields DEF vars
    <3>2. \A j \in JobId : Due(j)' = Due(j)
      BY <3>1 DEF Due, Unheld, Busy
    <3> QED
      BY <2>1, <3>1, <3>2, TriesKept
  <2>3. ASSUME NEW w \in Worker, LoopStep(w) \/ EndJob(w) PROVE TriesInv'
    <3>1. /\ jobs' = jobs /\ Busy(w) /\ Busy(w)' /\ workers'[w].job = workers[w].job
          /\ \A v \in Worker \ {w} : workers'[v] = workers[v]
          /\ faults' \in {faults, faults + 1}
      <4>1. CASE LoopStep(w)
        <5>1. Frame(w)
          BY <4>1, LoopSteps DEF LoopStep
        <5> QED
          BY <5>1 DEF Frame, Busy, WorkerState, PC
      <4>2. CASE EndJob(w)
        BY <4>2, EndFields
      <4> QED
        BY <2>3, <4>1, <4>2
    <3>2. \A v \in Worker : (Busy(v)' <=> Busy(v)) /\ (Busy(v) => workers'[v].job = workers[v].job)
      BY <3>1 DEF Busy
    <3>3. \A j \in JobId : Unheld(j)' <=> Unheld(j)
      BY <3>1, <3>2 DEF Unheld
    <3> QED
      BY <2>1, <3>1, <3>3, TriesKept DEF Due
  <2>4. ASSUME NEW w \in Worker, CommitJob(w) PROVE TriesInv'
    <3>0. PICK j \in JobId : j = workers[w].job
      BY <2>4, CommitFields
    <3>1. /\ Busy(w) /\ jobs'[j].status \in {"completed", "dead", "failed"}
          /\ \A i \in JobId \ {j} : jobs'[i] = jobs[i]
          /\ ~Busy(w)' /\ \A v \in Worker \ {w} : workers'[v] = workers[v]
          /\ faults' = faults
      BY <2>4, <3>0, CommitFields
    <3>2. Due(j)' = 0
      BY <3>1 DEF Due, Unheld
    <3>3. \A i \in JobId \ {j} : Unheld(i)' <=> Unheld(i)
      BY <3>0, <3>1 DEF Unheld, Busy
    <3>4. \A i \in JobId : Due(i)' = Due(i) \/ Due(i)' = 0
      BY <3>2, <3>3 DEF Due
    <3> QED
      BY <2>1, <3>1, <3>4, TriesKept
  <2>5. ASSUME NEW w \in Worker, Crash(w) \/ Overrun(w) PROVE TriesInv'
    <3>1. faults' = faults + 1
      BY <2>5 DEF Crash, Overrun
    <3> QED
      BY <2>1, <3>1, TriesKept
  <2>6. ASSUME NEW j \in JobId, LeaseExpires(j) PROVE TriesInv'
    <3>1. /\ jobs'[j].status = jobs[j].status
          /\ \A w \in Worker : jobs[j].lease = w => ~(Busy(w) /\ workers[w].job = j)
          /\ \A i \in JobId \ {j} : jobs'[i] = jobs[i]
          /\ UNCHANGED <<workers, faults>>
      BY <2>6, ExpireFields
    <3>2. jobs'[j].lease = NoWorker
      BY <2>6 DEF LeaseExpires, TypeInv, TypeOK, Job
    <3>3. \A w \in Worker : Busy(w)' <=> Busy(w)
      BY <3>1 DEF Busy
    <3>4. \A i \in JobId : Unheld(i)' <=> Unheld(i)
      <4>1. Unheld(j)' <=> Unheld(j)
        BY <3>1, <3>2, CampaignAssumption DEF Unheld
      <4>2. \A i \in JobId \ {j} : Unheld(i)' <=> Unheld(i)
        BY <3>1, <3>3 DEF Unheld
      <4> QED
        BY <4>1, <4>2
    <3> QED
      BY <2>1, <3>1, <3>4, TriesKept DEF Due
  <2> QED
    BY <1>4, <2>2, <2>3, <2>4, <2>5, <2>6, NextKinds DEF QueueStep
<1> QED
  BY <1>3, <1>4
-----------------------------------------------------------------------------
\* No shard lists a recipient twice.  As with AudiencesDisjoint, only a push
\* campaign can.
Once(q) == \A a, b \in DOMAIN q : q[a] = q[b] => a = b
ListedOnce == \A j \in JobId : Once(jobs[j].recipients)

\* The workers that may still send to r, each on the account of one claim.
MaySend(w, r) ==
    /\ Busy(w) /\ Ahead(w, r)
    /\ ~(workers[w].pc \in {"saving", "emitting", "recording"} /\ Current(w) = r)
Senders(r) == {w \in Worker : MaySend(w, r)}

CopiesInv ==
    edits = 0 /\ AudiencesDisjoint /\ ListedOnce =>
        /\ \A w \in Worker : Busy(w) => Once(workers[w].todo)
        /\ \A r \in Recipient : IsFiniteSet(Senders(r))
        /\ \A r \in Recipient : ~Listed(r) => sends[r] = 0
        /\ \A r \in Recipient, j \in JobId : Lists(j, r) =>
              sends[r] + Cardinality(Senders(r)) <= jobs[j].attempts

LEMMA OnceTail ==
    ASSUME NEW S, NEW q \in Seq(S), q # <<>>, Once(q), NEW p \in {q, Tail(q), <<>>}
    PROVE  /\ Once(p)
           /\ p = Tail(q) => \A i \in DOMAIN p : p[i] # Head(q)
<1>1. CASE p = q /\ p # Tail(q)
  BY <1>1
<1>2. CASE p = <<>>
  BY <1>2 DEF Once
<1>3. CASE p = Tail(q)
  <2>1. Len(p) = Len(q) - 1 /\ Len(q) \in Nat /\ DOMAIN q = 1..Len(q)
        /\ p \in Seq(S) /\ Head(q) = q[1] /\ Len(q) >= 1
    BY <1>3
  <2>2. DOMAIN p = 1..(Len(q) - 1)
    BY ONLY <2>1
  <2>3. ASSUME NEW i \in 1..(Len(q) - 1)
        PROVE  p[i] = q[i + 1]
    BY <1>3, <2>1, <2>3
  <2>4. \A i \in DOMAIN p : i \in Nat /\ i + 1 \in DOMAIN q /\ i + 1 # 1
    BY ONLY <2>1, <2>2
  <2>5. 1 \in DOMAIN q
    BY ONLY <2>1
  <2>6. ASSUME NEW a \in DOMAIN p, NEW b \in DOMAIN p, p[a] = p[b] PROVE a = b
    <3>1. q[a + 1] = q[b + 1]
      BY <2>2, <2>3, <2>6
    <3>2. a + 1 = b + 1
      BY <2>4, <3>1 DEF Once
    <3> QED
      BY <2>4, <3>2
  <2>7. \A i \in DOMAIN p : p[i] # Head(q)
    BY <2>1, <2>2, <2>3, <2>4, <2>5 DEF Once
  <2> QED
    BY <2>6, <2>7 DEF Once
<1> QED
  BY <1>1, <1>2, <1>3

\* Steps after which no worker more may send.
LEMMA CopiesKept ==
    ASSUME TypeInv, CopiesInv, JobsKept, sends' = sends,
           edits' = 0 => edits = 0,
           \A j \in JobId : jobs'[j].attempts = jobs[j].attempts,
           \A w \in Worker : workers'[w] = workers[w] \/ workers'[w].pc = "idle"
                             \/ (Busy(w) /\ workers'[w].todo = <<>>)
    PROVE  CopiesInv'
<1> SUFFICES ASSUME edits' = 0, AudiencesDisjoint, ListedOnce' PROVE CopiesInv'
  BY DEF CopiesInv
<1>1. /\ ListedOnce
      /\ \A j \in JobId : \A r : Lists(j, r)' <=> Lists(j, r)
  BY KeptFacts DEF JobsKept, ListedOnce
<1>2. /\ \A w \in Worker : Busy(w) => Once(workers[w].todo)
      /\ \A r \in Recipient : IsFiniteSet(Senders(r))
      /\ \A r \in Recipient : ~Listed(r) => sends[r] = 0
      /\ \A r \in Recipient, j \in JobId : Lists(j, r) =>
            sends[r] + Cardinality(Senders(r)) <= jobs[j].attempts
  BY <1>1 DEF CopiesInv
<1>3. \A w \in Worker : Busy(w)' => Once(workers'[w].todo)
  BY <1>2 DEF Once, Busy
<1>4. ASSUME NEW r \in Recipient PROVE Senders(r)' \subseteq Senders(r)
  BY DEF Senders, MaySend, Busy, Ahead, Current
<1>5. ASSUME NEW r \in Recipient
      PROVE  /\ IsFiniteSet(Senders(r)')
             /\ Cardinality(Senders(r)') <= Cardinality(Senders(r))
             /\ Cardinality(Senders(r)') \in Nat /\ Cardinality(Senders(r)) \in Nat
  <2>1. IsFiniteSet(Senders(r)) /\ Senders(r)' \in SUBSET Senders(r)
    BY <1>2, <1>4
  <2> QED
    BY <2>1, FS_Subset, FS_CardinalityType
<1>6. ASSUME NEW r \in Recipient, NEW j \in JobId, Lists(j, r)'
      PROVE  sends'[r] + Cardinality(Senders(r)') <= jobs'[j].attempts
  <2>1. /\ sends[r] + Cardinality(Senders(r)) <= jobs[j].attempts
        /\ sends[r] \in Nat /\ jobs[j].attempts \in Nat
    BY <1>1, <1>2, <1>6 DEF TypeInv, TypeOK, Job
  <2> QED
    BY <1>5, <2>1
<1>7. \A r \in Recipient : ~Listed(r)' => sends'[r] = 0
  BY <1>1, <1>2 DEF Listed
<1> QED
  BY <1>3, <1>5, <1>6, <1>7 DEF CopiesInv

\* A claim adds a worker and a try.
LEMMA CopiesClaim ==
    ASSUME TypeInv, DispatchInv, TriesInv, CopiesInv,
           NEW w \in Worker, NEW j \in JobId, ClaimDeliveryJob(w, j)
    PROVE  CopiesInv'
<1> SUFFICES ASSUME edits' = 0, AudiencesDisjoint, ListedOnce' PROVE CopiesInv'
  BY DEF CopiesInv
<1>1. /\ JobsKept /\ workers'[w].pc = "next"
      /\ workers'[w].todo = jobs[j].recipients
      /\ \A v \in Worker \ {w} : workers'[v] = workers[v]
      /\ sends' = sends /\ edits = 0
      /\ jobs'[j].attempts = jobs[j].attempts + 1
      /\ \A i \in JobId \ {j} : jobs'[i] = jobs[i]
  BY ClaimFields, TriesClaim DEF ghosts
<1>2. /\ ListedOnce
      /\ \A i \in JobId : \A r : Lists(i, r)' <=> Lists(i, r)
  BY <1>1, KeptFacts DEF JobsKept, ListedOnce
<1>3. /\ \A v \in Worker : Busy(v) => Once(workers[v].todo)
      /\ \A r \in Recipient : IsFiniteSet(Senders(r))
      /\ \A r \in Recipient : ~Listed(r) => sends[r] = 0
      /\ \A r \in Recipient, i \in JobId : Lists(i, r) =>
            sends[r] + Cardinality(Senders(r)) <= jobs[i].attempts
  BY <1>1, <1>2 DEF CopiesInv
<1>4. \A v \in Worker : Busy(v)' => Once(workers'[v].todo)
  BY <1>1, <1>2, <1>3 DEF ListedOnce, Busy
<1>5. ASSUME NEW r \in Recipient
      PROVE  /\ Senders(r)' \subseteq Senders(r) \cup {w}
             /\ ~Lists(j, r) => Senders(r)' \subseteq Senders(r)
  <2>1. \A v \in Worker \ {w} : v \in Senders(r)' => v \in Senders(r)
    BY <1>1 DEF Senders, MaySend, Busy, Ahead, Current
  <2>2. w \in Senders(r)' => Lists(j, r)
    BY <1>1 DEF Senders, MaySend, Ahead, Lists
  <2>3. Senders(r)' \subseteq Worker
    BY DEF Senders
  <2> QED
    BY <2>1, <2>2, <2>3
<1>6. ASSUME NEW r \in Recipient
      PROVE  /\ IsFiniteSet(Senders(r)')
             /\ Cardinality(Senders(r)') \in Nat /\ Cardinality(Senders(r)) \in Nat
             /\ Cardinality(Senders(r)') <= Cardinality(Senders(r)) + 1
             /\ ~Lists(j, r) => Cardinality(Senders(r)') <= Cardinality(Senders(r))
  <2>1. IsFiniteSet(Senders(r)) /\ Cardinality(Senders(r)) \in Nat
    BY <1>3, FS_CardinalityType
  <2>2. IsFiniteSet(Senders(r) \cup {w})
        /\ Cardinality(Senders(r) \cup {w}) <= Cardinality(Senders(r)) + 1
        /\ Cardinality(Senders(r) \cup {w}) \in Nat
    <3>1. IsFiniteSet(Senders(r) \cup {w})
          /\ Cardinality(Senders(r) \cup {w}) =
               IF w \in Senders(r) THEN Cardinality(Senders(r))
                                   ELSE Cardinality(Senders(r)) + 1
      BY <2>1, FS_AddElement
    <3> QED
      BY <2>1, <3>1
  <2>3. IsFiniteSet(Senders(r)')
        /\ Cardinality(Senders(r)') <= Cardinality(Senders(r) \cup {w})
    BY <1>5, <2>2, FS_Subset
  <2>4. ~Lists(j, r) => Cardinality(Senders(r)') <= Cardinality(Senders(r))
    BY <1>5, <2>1, FS_Subset
  <2>5. Cardinality(Senders(r)') \in Nat
    BY <2>3, FS_CardinalityType
  <2> QED
    BY <2>1, <2>2, <2>3, <2>4, <2>5
<1>7. ASSUME NEW r \in Recipient, NEW i \in JobId, Lists(i, r)'
      PROVE  sends'[r] + Cardinality(Senders(r)') <= jobs'[i].attempts
  <2>1. /\ sends[r] + Cardinality(Senders(r)) <= jobs[i].attempts
        /\ sends[r] \in Nat /\ jobs[i].attempts \in Nat
    BY <1>2, <1>3, <1>7 DEF TypeInv, TypeOK, Job
  <2>2. CASE i = j
    BY <1>1, <1>6, <2>1, <2>2
  <2>3. CASE i # j
    <3>1. ~Lists(j, r)
      BY <1>1, <1>2, <1>7, <2>3 DEF DispatchInv
    <3> QED
      BY <1>1, <1>6, <2>1, <2>3, <3>1
  <2> QED
    BY <2>2, <2>3
<1>8. \A r \in Recipient : ~Listed(r)' => sends'[r] = 0
  BY <1>1, <1>2, <1>3 DEF Listed
<1> QED
  BY <1>4, <1>6, <1>7, <1>8 DEF CopiesInv

\* At the recipient: a message sent is sent on the account of the worker, which
\* does not send it again.
LEMMA CopiesLoop ==
    ASSUME TypeInv, QueueInv, CopiesInv, NEW w \in Worker, LoopStep(w)
    PROVE  CopiesInv'
<1>1. Frame(w) /\ Loops(w, Current(w))
  BY LoopSteps DEF LoopStep
<1> SUFFICES ASSUME edits' = 0, AudiencesDisjoint, ListedOnce' PROVE CopiesInv'
  BY DEF CopiesInv
<1>2. PICK r \in Recipient : r = Current(w)
  BY <1>1 DEF Frame
<1>3. /\ Busy(w) /\ workers[w].todo # <<>> /\ workers[w].todo \in Seq(Recipient)
      /\ \A v \in Worker \ {w} : workers'[v] = workers[v]
      /\ \A q \in Recipient \ {r} : sends'[q] = sends[q]
      /\ UNCHANGED <<jobs, edits>>
      /\ workers[w].job \in JobId
  BY <1>1, <1>2 DEF Frame, Busy, WorkerState, PC
<1>4. /\ ListedOnce
      /\ \A i \in JobId : \A q : Lists(i, q)' <=> Lists(i, q)
  BY <1>3 DEF ListedOnce, Lists
<1>5. /\ \A v \in Worker : Busy(v) => Once(workers[v].todo)
      /\ \A q \in Recipient : IsFiniteSet(Senders(q))
      /\ \A q \in Recipient : ~Listed(q) => sends[q] = 0
      /\ \A q \in Recipient, i \in JobId : Lists(i, q) =>
            sends[q] + Cardinality(Senders(q)) <= jobs[i].attempts
  BY <1>3, <1>4 DEF CopiesInv
<1>6. workers'[w].todo \in {workers[w].todo, Tail(workers[w].todo), <<>>}
  BY <1>1 DEF Loops, Reads, Settles, Retries, Drops, Chooses, Accepts, Saves,
              Announces, Leaves, Stays, Passes
<1>7. /\ Once(workers'[w].todo)
      /\ workers'[w].todo = Tail(workers[w].todo) =>
            \A i \in DOMAIN workers'[w].todo : workers'[w].todo[i] # r
      /\ \A q : Ahead(w, q)' => Ahead(w, q)
  <2> DEFINE q == workers[w].todo
             p == workers'[w].todo
  <2>1. q \in Seq(Recipient) /\ q # <<>> /\ p \in {q, Tail(q), <<>>} /\ Once(q)
        /\ r = Head(q)
    BY <1>2, <1>3, <1>5, <1>6 DEF Current
  <2> HIDE DEF q, p
  <2>2. Once(p) /\ (p = Tail(q) => \A i \in DOMAIN p : p[i] # Head(q))
    BY ONLY <2>1, OnceTail
  <2>3. \A i \in DOMAIN p : \E k \in DOMAIN q : p[i] = q[k]
    BY ONLY <2>1, WhatIsLeft
  <2>4. \A s : Ahead(w, s)' => Ahead(w, s)
    BY <2>3 DEF q, p, Ahead
  <2> QED
    BY <2>1, <2>2, <2>4 DEF q, p
<1>8. Ahead(w, r)
  <2>1. 1 \in DOMAIN workers[w].todo /\ Head(workers[w].todo) = workers[w].todo[1]
    BY <1>3
  <2> QED
    BY <1>2, <2>1 DEF Ahead, Current
<1>9. \A v \in Worker : Busy(v)' => Once(workers'[v].todo)
  BY <1>3, <1>5, <1>7 DEF Busy
<1>10. ASSUME NEW q \in Recipient, NEW v \in Worker \ {w}
       PROVE  v \in Senders(q)' <=> v \in Senders(q)
  BY <1>3 DEF Senders, MaySend, Busy, Ahead, Current
<1>11. ASSUME NEW q \in Recipient \ {r} PROVE Senders(q)' \subseteq Senders(q)
  <2>1. w \in Senders(q)' => w \in Senders(q)
    BY <1>2, <1>3, <1>7 DEF Senders, MaySend
  <2> QED
    BY <1>10, <2>1 DEF Senders
<1>12. \/ sends'[r] = sends[r] /\ Senders(r)' \subseteq Senders(r)
       \/ /\ sends'[r] = sends[r] + 1 /\ w \in Senders(r)
          /\ Senders(r)' \subseteq Senders(r) \ {w}
  <2>1. workers[w].pc \notin {"saving", "emitting", "recording"} => w \in Senders(r)
    BY <1>3, <1>8 DEF Senders, MaySend
  <2>2. workers'[w].todo = <<>> \/ workers'[w].todo = Tail(workers[w].todo) =>
           w \notin Senders(r)'
    BY <1>7 DEF Senders, MaySend, Ahead
  <2>3. workers'[w].todo = workers[w].todo
        /\ workers'[w].pc \in {"saving", "emitting", "recording"} => w \notin Senders(r)'
    BY <1>2 DEF Senders, MaySend, Current
  <2>4. w \notin Senders(r)' => Senders(r)' \subseteq Senders(r) \ {w}
    BY <1>10 DEF Senders
  <2>5. w \in Senders(r) => Senders(r)' \subseteq Senders(r)
    BY <1>10 DEF Senders
  <2>6. Loops(w, r)
    BY <1>1, <1>2
  <2>7. CASE Reads(w, r) \/ Chooses(w, r)
    BY <2>1, <2>5, <2>7 DEF Reads, Chooses, Silent
  <2>8. CASE Settles(w, r) \/ Drops(w, r) \/ Leaves(w, r)
    BY <2>2, <2>4, <2>8 DEF Settles, Drops, Leaves, Passes, Silent
  <2>9. CASE Retries(w, r)
    BY <2>1, <2>2, <2>4, <2>9 DEF Retries, Passes, Silent
  <2>10. CASE Accepts(w, r)
    BY <2>1, <2>3, <2>4, <2>10 DEF Accepts, Stays
  <2>11. CASE Saves(w, r) \/ Announces(w, r)
    BY <2>3, <2>4, <2>11 DEF Saves, Announces, Stays, Silent
  <2> QED
    BY <2>6, <2>7, <2>8, <2>9, <2>10, <2>11 DEF Loops
<1>13. ASSUME NEW q \in Recipient
       PROVE  /\ IsFiniteSet(Senders(q)') /\ Cardinality(Senders(q)') \in Nat
              /\ Cardinality(Senders(q)) \in Nat
              /\ sends'[q] + Cardinality(Senders(q)') <= sends[q] + Cardinality(Senders(q))
  <2>1. /\ IsFiniteSet(Senders(q)) /\ Cardinality(Senders(q)) \in Nat
        /\ sends[q] \in Nat
    BY <1>5, FS_CardinalityType DEF TypeInv, TypeOK
  <2>2. CASE Senders(q)' \subseteq Senders(q) /\ sends'[q] = sends[q]
    <3>1. IsFiniteSet(Senders(q)') /\ Cardinality(Senders(q)') <= Cardinality(Senders(q))
      BY <2>1, <2>2, FS_Subset
    <3>2. Cardinality(Senders(q)') \in Nat
      BY <3>1, FS_CardinalityType
    <3> QED
      BY <2>1, <2>2, <3>1, <3>2
  <2>3. CASE /\ sends'[q] = sends[q] + 1 /\ w \in Senders(q)
             /\ Senders(q)' \subseteq Senders(q) \ {w}
    <3>1. /\ IsFiniteSet(Senders(q) \ {w})
          /\ Cardinality(Senders(q) \ {w}) = Cardinality(Senders(q)) - 1
      BY <2>1, <2>3, FS_RemoveElement
    <3>2. /\ IsFiniteSet(Senders(q)')
          /\ Cardinality(Senders(q)') <= Cardinality(Senders(q) \ {w})
      BY <2>3, <3>1, FS_Subset
    <3>3. Cardinality(Senders(q)') \in Nat
      BY <3>2, FS_CardinalityType
    <3> QED
      BY <2>1, <2>3, <3>1, <3>2, <3>3
  <2> QED
    BY <1>3, <1>11, <1>12, <2>2, <2>3
<1>14. ASSUME NEW q \in Recipient, NEW i \in JobId, Lists(i, q)'
       PROVE  sends'[q] + Cardinality(Senders(q)') <= jobs'[i].attempts
  <2>1. sends[q] + Cardinality(Senders(q)) <= jobs[i].attempts
    BY <1>4, <1>5, <1>14
  <2>2. sends[q] \in Nat /\ jobs[i].attempts \in Nat
    BY DEF TypeInv, TypeOK, Job
  <2>3. sends'[q] \in {sends[q], sends[q] + 1}
    BY <1>3, <1>12
  <2>4. /\ Cardinality(Senders(q)') \in Nat /\ Cardinality(Senders(q)) \in Nat
        /\ sends'[q] + Cardinality(Senders(q)') <= sends[q] + Cardinality(Senders(q))
    BY <1>13
  <2>5. jobs'[i].attempts = jobs[i].attempts
    BY <1>3
  <2> QED
    BY ONLY <2>1, <2>2, <2>3, <2>4, <2>5
<1>15. ASSUME NEW q \in Recipient, ~Listed(q)' PROVE sends'[q] = 0
  <2>1. ~Listed(q)
    BY <1>4, <1>15 DEF Listed
  <2>2. Listed(r)
    BY <1>3, <1>8 DEF QueueInv, Lawful, Ahead, Listed
  <2> QED
    BY <1>3, <1>5, <2>1, <2>2
<1> QED
  BY <1>9, <1>13, <1>14, <1>15 DEF CopiesInv

\* The only dispatch of a campaign nobody edits finds no jobs.
LEMMA CopiesSave ==
    ASSUME TypeInv, TypeInv', QueueInv, DispatchInv, CopiesInv, SaveStep
    PROVE  CopiesInv'
<1> SUFFICES ASSUME edits' = 0, AudiencesDisjoint, ListedOnce' PROVE CopiesInv'
  BY DEF CopiesInv
<1>1. /\ \A w \in Worker : Busy(w) => /\ workers[w].job \in JobId
                                      /\ jobs[workers[w].job].status # "none"
      /\ UNCHANGED <<workers, edits, sends>>
  BY SaveKeeps
<1>2. dispatchers # {}
  BY DEF SaveStep, SaveCampaignManifestAndJobs
<1>3. Used = {} /\ \A j \in JobId : jobs[j].recipients = <<>>
  BY <1>1, <1>2 DEF DispatchInv, QueueInv, Numbered, Used
<1>4. ListedOnce /\ \A r \in Recipient : ~Listed(r)
  BY <1>3 DEF ListedOnce, Once, Listed, Lists
<1>5. \A r \in Recipient : sends[r] = 0
  BY <1>1, <1>4 DEF CopiesInv
<1>6. \A w \in Worker : ~Busy(w)'
  BY <1>1, <1>3 DEF Used, Busy
<1>7. \A r \in Recipient : Senders(r)' = {}
  BY <1>6 DEF Senders, MaySend
<1>8. ASSUME NEW r \in Recipient, NEW j \in JobId
      PROVE  /\ IsFiniteSet(Senders(r)')
             /\ sends'[r] + Cardinality(Senders(r)') <= jobs'[j].attempts
  <2>1. jobs'[j].attempts \in Nat
    BY DEF TypeInv, TypeOK, Job
  <2>2. IsFiniteSet(Senders(r)') /\ Cardinality(Senders(r)') = 0
    BY <1>7, FS_EmptySet
  <2> QED
    BY <1>1, <1>5, <2>1, <2>2
<1>9. \A r \in Recipient : IsFiniteSet(Senders(r)')
  <2>1. \A r \in Recipient : Senders(r)' = {}
    BY <1>7
  <2> QED
    BY <2>1, FS_EmptySet
<1> QED
  BY <1>1, <1>5, <1>6, <1>8, <1>9 DEF CopiesInv

LEMMA CopiesKeep ==
    ASSUME TypeInv, TypeInv', QueueInv, DispatchInv, TriesInv, CopiesInv, [Next]_vars
    PROVE  CopiesInv'
<1> USE DEF ghosts, tables
<1>1. ASSUME NEW w \in Worker, NEW j \in JobId, ClaimDeliveryJob(w, j) PROVE CopiesInv'
  BY <1>1, CopiesClaim
<1>2. ASSUME NEW w \in Worker, LoopStep(w) PROVE CopiesInv'
  BY <1>2, CopiesLoop
<1>3. CASE SaveStep
  BY <1>3, CopiesSave
<1> SUFFICES ASSUME ~\E w \in Worker, j \in JobId : ClaimDeliveryJob(w, j), ~SaveStep
             PROVE  CopiesInv'
  BY <1>1, <1>3
<1>4. JobsKept /\ \A j \in JobId : jobs'[j].attempts = jobs[j].attempts
  BY OtherTries
<1>5. CASE RowStep
  <2>1. edits \in Nat
    BY DEF TypeInv, TypeOK
  <2>2. edits' = 0 => edits = 0
    BY <1>5, <2>1, RowFields
  <2> QED
    BY <1>4, <1>5, <2>2, RowFields, CopiesKept
<1>6. ASSUME NEW w \in Worker, EndJob(w) PROVE CopiesInv'
  <2>1. /\ Busy(w) /\ workers'[w].todo = <<>> /\ UNCHANGED <<sends, edits>>
        /\ \A v \in Worker \ {w} : workers'[v] = workers[v]
    BY <1>6, EndFields
  <2> QED
    BY <1>4, <2>1, CopiesKept
<1>7. ASSUME NEW w \in Worker, CommitJob(w) \/ Crash(w) PROVE CopiesInv'
  <2>1. /\ workers'[w].pc = "idle" /\ UNCHANGED <<sends, edits>>
        /\ \A v \in Worker \ {w} : workers'[v] = workers[v]
    BY <1>7, CommitFields, CrashFields DEF Busy
  <2> QED
    BY <1>4, <2>1, CopiesKept
<1>8. ASSUME NEW w \in Worker, Overrun(w) PROVE CopiesInv'
  BY <1>4, <1>8, CopiesKept DEF Overrun
<1>9. ASSUME NEW j \in JobId, LeaseExpires(j) PROVE CopiesInv'
  BY <1>4, <1>9, CopiesKept DEF LeaseExpires
<1>10. CASE UNCHANGED vars
  BY <1>4, <1>10, CopiesKept DEF vars
<1> QED
  BY <1>2, <1>5, <1>6, <1>7, <1>8, <1>9, <1>10, NextKinds DEF QueueStep

LEMMA OverrunInit == Init => TriesInv /\ CopiesInv
<1> SUFFICES ASSUME Init PROVE TriesInv /\ CopiesInv
  OBVIOUS
<1>1. /\ \A j \in JobId : jobs[j].status = "none" /\ jobs[j].recipients = <<>>
                          /\ jobs[j].attempts = 0
      /\ \A w \in Worker : workers[w].pc = "idle"
      /\ \A r \in Recipient : sends[r] = 0
      /\ faults = 0 /\ MaxAttempts \in Nat
  BY CampaignAssumption DEF Init, NoJob, IdleWorker
<1>2. TriesInv
  BY <1>1 DEF TriesInv, Due, Unheld
<1>3. \A r \in Recipient : Senders(r) = {}
  BY <1>1 DEF Senders, MaySend, Busy
<1>4. \A r \in Recipient, j \in JobId : ~Lists(j, r)
  BY <1>1 DEF Lists
<1> QED
  BY <1>1, <1>2, <1>3, <1>4, FS_EmptySet DEF CopiesInv, Busy

\* A job is claimed as often as it has tries and once more for each crash or
\* overrun lease.
TriesAreBounded == \A j \in JobId : jobs[j].attempts <= MaxAttempts + faults

\* A recipient of a campaign that is dispatched once gets a copy from each
\* claim of its job at most, whatever the workers that outlive their leases do.
CopiesAreBounded ==
    edits = 0 /\ AudiencesDisjoint /\ ListedOnce =>
        \A r \in Recipient : sends[r] <= MaxAttempts + faults

\* ClaimDeliveryJob, CompleteDeliveryJob, FailDeliveryJob: max_attempts holds
\* up to the claims that a crash or an overrun lease has caused, although the
\* claim of a job whose lease ran out does not look at the attempts and a
\* worker without the lease may set the job back to failed.
THEOREM JobTriesAreBounded == Spec => []TriesAreBounded
<1>1. CampaignInv /\ TriesInv => TriesAreBounded
  <2> SUFFICES ASSUME CampaignInv, TriesInv, NEW j \in JobId
               PROVE  jobs[j].attempts <= MaxAttempts + faults
    BY DEF TriesAreBounded
  <2>1. jobs[j].attempts \in Nat /\ faults \in Nat /\ MaxAttempts \in Nat
    BY TriesType DEF CampaignInv, TruthInv
  <2>2. jobs[j].attempts + Due(j) <= MaxAttempts + faults /\ Due(j) \in {0, 1}
    BY DueType DEF TriesInv
  <2> QED
    BY <2>1, <2>2
<1>2. CampaignInv /\ TriesInv /\ [Next]_vars => TriesInv'
  BY TriesKeep DEF CampaignInv, TruthInv
<1> QED
  BY <1>1, <1>2, OverrunInit, CampaignInit, CampaignStep, PTL DEF Spec

\* DeliverNext, with leases that are overrun too: a recipient that is listed
\* once gets no more copies than the tries of a job and one for each fault,
\* however many workers that have lost the lease go on with the job.
THEOREM RecipientCopiesAreBounded == Spec => []CopiesAreBounded
<1>1. CampaignInv /\ TriesInv /\ CopiesInv => CopiesAreBounded
  <2> SUFFICES ASSUME CampaignInv, TriesInv, CopiesInv, edits = 0, AudiencesDisjoint,
                      ListedOnce, NEW r \in Recipient
               PROVE  sends[r] <= MaxAttempts + faults
    BY DEF CopiesAreBounded
  <2>1. /\ sends[r] \in Nat /\ faults \in Nat /\ MaxAttempts \in Nat
        /\ ~Listed(r) => sends[r] = 0 /\ IsFiniteSet(Senders(r))
    BY CampaignAssumption DEF CampaignInv, TruthInv, TypeInv, TypeOK, CopiesInv
  <2>2. ASSUME NEW j \in JobId, Lists(j, r) PROVE sends[r] <= MaxAttempts + faults
    <3>1. jobs[j].attempts \in Nat
      BY TriesType DEF CampaignInv, TruthInv
    <3>2. jobs[j].attempts + Due(j) <= MaxAttempts + faults /\ Due(j) \in {0, 1}
      BY DueType DEF TriesInv
    <3>3. sends[r] + Cardinality(Senders(r)) <= jobs[j].attempts
      BY <2>2 DEF CopiesInv
    <3>4. Cardinality(Senders(r)) \in Nat
      BY FS_CardinalityType DEF CopiesInv
    <3> QED
      BY <2>1, <3>1, <3>2, <3>3, <3>4
  <2> QED
    BY <2>1, <2>2 DEF Listed
<1>2. CampaignInv /\ TriesInv /\ CopiesInv /\ [Next]_vars => (TriesInv /\ CopiesInv)'
  <2> SUFFICES ASSUME CampaignInv, TriesInv, CopiesInv, [Next]_vars
               PROVE  TriesInv' /\ CopiesInv'
    OBVIOUS
  <2>1. TypeInv /\ TypeInv' /\ QueueInv /\ DispatchInv
    BY CampaignStep DEF CampaignInv, TruthInv
  <2> QED
    BY <2>1, TriesKeep, CopiesKeep
<1> QED
  BY <1>1, <1>2, OverrunInit, CampaignInit, CampaignStep, PTL DEF Spec
=============================================================================
