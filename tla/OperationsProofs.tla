-------------------------- MODULE OperationsProofs --------------------------
(***************************************************************************)
(* Proofs about Operations, for any jobs of any kinds, any workers, any    *)
(* number of batches, faults and calls of operators.                       *)
(***************************************************************************)
EXTENDS Operations, FiniteSetTheorems, TLAPS

\* A worker that is not idle has a job, and only connector jobs close runs.
WorkerInv(w) ==
    /\ workers[w].pc = "idle" => workers[w] = Idle
    /\ workers[w].pc # "idle" => workers[w].job \in Job
    /\ workers[w].pc \in {"closing", "denied"} =>
         kind[workers[w].job] \in Connector

TypeInv == TypeOK /\ \A w \in Worker : WorkerInv(w)

\* A request has a job only after it was made and, if it is about privacy,
\* verified, so that no job is enqueued twice.  Workers have such jobs.
QueuedInv ==
    /\ \A j \in Job : jobs[j].status # "none" /\ kind[j] \in Requested =>
          /\ requests[j].status # "none"
          /\ kind[j] \in Privacy => requests[j].verification # "unverified"
    /\ \A w \in Worker : workers[w].pc # "idle" =>
          jobs[workers[w].job].status # "none"

\* The workers that may still carry out a job, and whether a further worker
\* may take it without a fault.
Holders(j) == {w \in Worker : workers[w].job = j /\ workers[w].pc # "ok"}
Held(j) ==
    /\ jobs[j].status = "processing" /\ jobs[j].lease # NoWorker
    /\ workers[jobs[j].lease].job = j
Chance(j) == IF jobs[j].status # "done" /\ ~Held(j) THEN 1 ELSE 0

\* Successes, those under way and those that may come.
Paid(j) == successes[j] + Cardinality(Holders(j)) + Chance(j) <= 1 + faults
PaidInv == TypeInv /\ QueuedInv /\ \A j \in Job : Paid(j)

\* What a worker has noted as imported was accepted, and a worker that is
\* about to answer a request has written the result.
NotesTrue(w) ==
    kind[workers[w].job] \in Tracked =>
        /\ workers[w].pc = "finish" => results[workers[w].job].kept
        /\ kind[workers[w].job] = "profiles.import" =>
              \A b \in workers[w].good : <<workers[w].job, 0, b>> \in accepted
AnswersInv ==
    /\ TypeInv /\ AnswersAreTrue
    /\ \A w \in Worker : workers[w].pc # "idle" => NotesTrue(w)

\* Each open run has its worker or was paid for with a fault.
Closed == runRows["succeeded"] + runRows["failed"]
RunsInv ==
    /\ TypeInv
    /\ Closed + Cardinality(OpenRuns) <= runRows["running"]
    /\ runRows["running"] <= Closed + Cardinality(OpenRuns) + faults

-----------------------------------------------------------------------------
(***************************************************************************)
(* Types.                                                                  *)
(***************************************************************************)

\* A step by which worker w goes on with its job.
Moves(w) ==
    /\ workers[w].job \in Job /\ workers[w].pc \notin {"idle", "ok"}
    /\ workers'[w].job = workers[w].job /\ workers'[w].pc # "idle"
    /\ \A v \in Worker \ {w} : workers'[v] = workers[v]
    /\ UNCHANGED <<kind, jobs, calls>>

\* A success is counted when the worker reaches ok, faults never shrink, and
\* requests keep that they were made and verified.
Counts(w) ==
    /\ \/ /\ workers'[w].pc = "ok"
          /\ successes' = [successes EXCEPT ![workers[w].job] = @ + 1]
       \/ workers'[w].pc # "ok" /\ successes' = successes
    /\ faults' \in {faults, faults + 1}
    /\ \A j \in Job :
          /\ requests[j].status # "none" => requests'[j].status # "none"
          /\ requests'[j].verification = requests[j].verification

LEMMA BusyJob ==
    ASSUME TypeInv, NEW w \in Worker, workers[w].pc # "idle"
    PROVE  /\ workers[w].job \in Job
           /\ workers[w] \in WorkerState
           /\ kind[workers[w].job] \in Kind
           /\ jobs[workers[w].job] \in JobRow
BY DEF TypeInv, TypeOK, WorkerInv

LEMMA BatchType ==
    ASSUME TypeInv, NEW w \in Worker, workers[w].pc # "idle"
    PROVE  Batch(w) \subseteq Nat
<1>1. Batches[kind[workers[w].job]] \in Nat
  BY BusyJob, OperationsAssumption
<1>2. QED
  BY <1>1 DEF Batch

\* Worker w is given a new state with the same job.
LEMMA MoveType ==
    ASSUME TypeInv, NEW w \in Worker, workers[w].pc \notin {"idle", "ok"},
           NEW new \in WorkerState, workers' = [workers EXCEPT ![w] = new],
           new.job = workers[w].job, new.pc # "idle",
           new.pc \in {"closing", "denied"} => kind[new.job] \in Connector,
           UNCHANGED <<kind, jobs, calls>>
    PROVE  /\ workers' \in [Worker -> WorkerState]
           /\ workers'[w] = new
           /\ \A v \in Worker : WorkerInv(v)'
           /\ Moves(w)
BY BusyJob DEF TypeInv, TypeOK, WorkerInv, Moves

LEMMA GotoType ==
    ASSUME TypeInv, NEW w \in Worker, workers[w].pc \notin {"idle", "ok"},
           NEW pc \in Pc \ {"idle"}, Goto(w, pc),
           pc \in {"closing", "denied"} => kind[workers[w].job] \in Connector,
           UNCHANGED <<kind, jobs, calls>>
    PROVE  /\ workers' \in [Worker -> WorkerState]
           /\ workers'[w] = [workers[w] EXCEPT !.pc = pc]
           /\ workers'[w].pc = pc
           /\ \A v \in Worker : WorkerInv(v)'
           /\ Moves(w)
<1> DEFINE new == [workers[w] EXCEPT !.pc = pc]
<1>1. new \in WorkerState /\ new.job = workers[w].job /\ new.pc = pc
  BY BusyJob DEF WorkerState
<1>2. workers' = [workers EXCEPT ![w] = new]
  BY DEF Goto, TypeInv, TypeOK
<1> HIDE DEF new
<1>3. QED
  BY <1>1, <1>2, MoveType DEF new

\* Execute returns without an error.
LEMMA SucceedType ==
    ASSUME TypeInv, NEW w \in Worker, workers[w].pc \notin {"idle", "ok"},
           Succeed(w), UNCHANGED <<kind, jobs>>
    PROVE  /\ workers' \in [Worker -> WorkerState]
           /\ workers'[w] = [workers[w] EXCEPT !.pc = "ok"]
           /\ \A v \in Worker : WorkerInv(v)'
           /\ Moves(w)
           /\ successes' \in [Job -> Nat]
           /\ UNCHANGED <<faults, calls>>
<1>1. Goto(w, "ok") /\ UNCHANGED <<faults, calls>>
  BY DEF Succeed
<1>2. successes' \in [Job -> Nat]
  BY BusyJob DEF Succeed, TypeInv, TypeOK
<1>3. QED
  BY <1>1, <1>2, GotoType DEF Pc

LEMMA KeyType ==
    ASSUME TypeInv, NEW w \in Worker, workers[w].pc # "idle",
           kind[workers[w].job] \in
              {"profiles.import", "warehouse.sync", "reverse_etl.run"}
    PROVE  KeyOf(w) \in (Job \cup {"source", "sink"}) \X Page \X Nat
<1>1. workers[w].job \in Job /\ workers[w].next \in Nat
      /\ jobs[workers[w].job].cursor \in Page
  BY BusyJob DEF WorkerState, JobRow
<1>2. 0 \in Page
  BY OperationsAssumption DEF Page
<1>3. CASE kind[workers[w].job] = "profiles.import"
  BY <1>1, <1>2, <1>3 DEF KeyOf
<1>4. CASE kind[workers[w].job] = "warehouse.sync"
  BY <1>1, <1>2, <1>4 DEF KeyOf
<1>5. CASE kind[workers[w].job] = "reverse_etl.run"
  BY <1>1, <1>2, <1>5 DEF KeyOf
<1>6. QED
  BY <1>3, <1>4, <1>5

LEMMA RecordType ==
    ASSUME TypeInv, NEW w \in Worker, workers[w].pc # "idle",
           NEW status \in {"succeeded", "failed"}, RecordRun(w, status)
    PROVE  /\ runRows' \in [{"running", "succeeded", "failed"} -> Nat]
           /\ quarantined' \subseteq Page
<1>1. NextCursor(jobs[workers[w].job].cursor) \in Page
  BY BusyJob, OperationsAssumption DEF JobRow, NextCursor, Page
<1>2. QED
  BY <1>1 DEF RecordRun, TypeInv, TypeOK

\* Every step between the claim and the end of a job keeps the types.
LEMMA WorkType ==
    ASSUME TypeInv, NEW w \in Worker, Work(w)
    PROVE  TypeInv' /\ Moves(w) /\ Counts(w)
<1> DEFINE state == workers[w]
           job == workers[w].job
<1>1. CASE LoadRequest(w)
  <2> DEFINE k == kind[job]
             pc == CASE k \in Tracked -> "work"
                     [] k = "privacy.export" -> "put"
                     [] k = "privacy.delete" -> "finish"
             new == [state EXCEPT !.pc = pc, !.next = 1]
  <2>1. state.pc = "load" /\ k \in Requested
    BY <1>1 DEF LoadRequest, At
  <2>2. pc \in {"work", "put", "finish"}
    BY <2>1 DEF Requested, Privacy, Tracked
  <2>a. workers' = [workers EXCEPT ![w].pc = pc, ![w].next = 1]
    BY <1>1 DEF LoadRequest
  <2> HIDE DEF pc
  <2>3. workers' = [workers EXCEPT ![w] = new]
    BY <2>a, <2>1, BusyJob DEF TypeInv, TypeOK, WorkerState
  <2>4. new \in WorkerState /\ new.job = job /\ new.pc = pc
    BY <2>1, <2>2, BusyJob DEF WorkerState, Pc
  <2>5. UNCHANGED <<kind, jobs, effects, ghosts>>
    BY <1>1 DEF LoadRequest
  <2>6. /\ requests' \in [Job -> [status : RequestStatus,
                                  verification : Verification]]
        /\ \A j \in Job :
              /\ requests[j].status # "none" => requests'[j].status # "none"
              /\ requests'[j].verification = requests[j].verification
    BY <1>1, <2>1, BusyJob DEF LoadRequest, TypeInv, TypeOK, RequestStatus
  <2> HIDE DEF new
  <2>7. /\ workers' \in [Worker -> WorkerState]
        /\ workers'[w] = new
        /\ \A v \in Worker : WorkerInv(v)'
        /\ Moves(w)
    BY <2>1, <2>2, <2>3, <2>4, <2>5, MoveType DEF ghosts
  <2>8. QED
    BY <2>2, <2>4, <2>5, <2>6, <2>7
       DEF TypeInv, TypeOK, Counts, effects, ghosts
<1>2. CASE StartRun(w)
  <2> DEFINE new == [state EXCEPT !.pc = "work", !.next = 1]
  <2>1. state.pc = "load" /\ kind[job] \in Connector
    BY <1>2 DEF StartRun, At
  <2>2. workers' = [workers EXCEPT ![w] = new]
    BY <1>2 DEF StartRun, TypeInv, TypeOK
  <2>3. new \in WorkerState /\ new.job = job /\ new.pc = "work"
    BY <2>1, BusyJob DEF WorkerState, Pc
  <2> HIDE DEF new
  <2>4. /\ workers' \in [Worker -> WorkerState]
        /\ workers'[w] = new
        /\ \A v \in Worker : WorkerInv(v)'
        /\ Moves(w)
    BY <1>2, <2>1, <2>2, <2>3, MoveType DEF StartRun, ghosts
  <2>5. QED
    BY <1>2, <2>3, <2>4 DEF StartRun, TypeInv, TypeOK, Counts, ghosts
<1>3. CASE CallOnce(w)
  <2>1. state.pc = "load" /\ Succeed(w)
        /\ UNCHANGED <<kind, jobs, requests, effects>>
    BY <1>3 DEF CallOnce, At
  <2>2. QED
    BY <2>1, SucceedType, BusyJob
       DEF TypeInv, TypeOK, Counts, effects, Succeed, WorkerState
<1>4. CASE TakeBatch(w)
  <2> DEFINE new == [state EXCEPT !.good = state.good \cup {state.next},
                                  !.next = state.next + 1]
  <2>1. state.pc = "work" /\ state.next \in Nat
    BY <1>4, BusyJob DEF TakeBatch, At, WorkerState
  <2>a. workers' = [workers EXCEPT ![w].good = @ \cup {workers[w].next},
                                   ![w].next = @ + 1]
    BY <1>4 DEF TakeBatch
  <2>b. workers \in [Worker -> WorkerState] /\ state \in WorkerState
    BY DEF TypeInv, TypeOK
  <2>c. /\ DOMAIN workers' = Worker
        /\ \A v \in Worker \ {w} : workers'[v] = workers[v]
        /\ workers'[w] = new
    BY <2>a, <2>b DEF WorkerState
  <2>2. workers' = [workers EXCEPT ![w] = new]
    BY <2>a, <2>b, <2>c
  <2>d. state.good \cup {state.next} \in SUBSET Nat /\ state.next + 1 \in Nat
    BY <2>1, <2>b DEF WorkerState
  <2>3. new \in WorkerState /\ new.job = job /\ new.pc = "work"
    BY <2>1, <2>b, <2>d DEF WorkerState
  <2>4. accepted' \subseteq (Job \cup {"source", "sink"}) \X Page \X Nat
    BY <1>4, <2>1, KeyType DEF TakeBatch, At, TypeInv, TypeOK
  <2> HIDE DEF new
  <2>5. /\ workers' \in [Worker -> WorkerState]
        /\ workers'[w] = new
        /\ \A v \in Worker : WorkerInv(v)'
        /\ Moves(w)
    BY <1>4, <2>1, <2>2, <2>3, MoveType DEF TakeBatch, ghosts
  <2>6. QED
    BY <1>4, <2>3, <2>4, <2>5 DEF TakeBatch, TypeInv, TypeOK, Counts, ghosts
<1>5. CASE RejectBatch(w)
  <2> DEFINE new == [state EXCEPT !.next = @ + 1]
  <2>1. state.pc = "work" /\ state.next \in Nat
    BY <1>5, BusyJob DEF RejectBatch, At, WorkerState
  <2>2. workers' = [workers EXCEPT ![w] = new]
    BY <1>5 DEF RejectBatch, TypeInv, TypeOK
  <2>3. new \in WorkerState /\ new.job = job /\ new.pc = "work"
    BY <2>1, BusyJob DEF WorkerState, Pc
  <2> HIDE DEF new
  <2>4. /\ workers' \in [Worker -> WorkerState]
        /\ workers'[w] = new
        /\ \A v \in Worker : WorkerInv(v)'
        /\ Moves(w)
    BY <1>5, <2>1, <2>2, <2>3, MoveType DEF RejectBatch, ghosts
  <2>5. QED
    BY <1>5, <2>3, <2>4
       DEF RejectBatch, TypeInv, TypeOK, Counts, effects, ghosts
<1>6. CASE EndWork(w)
  <2> DEFINE k == kind[job]
             pc == CASE k \in {"profiles.import", "ai.generate"} -> "put"
                     [] k = "warehouse.sync" -> "commit"
                     [] OTHER -> "finish"
  <2>1. state.pc = "work" /\ Goto(w, pc)
    BY <1>6 DEF EndWork, At
  <2>2. pc \in {"put", "commit", "finish"}
    OBVIOUS
  <2>3. UNCHANGED <<kind, jobs, requests, accepted, runRows, quarantined,
                    ghosts>>
    BY <1>6 DEF EndWork
  <2>4. results' \in [Job -> [kept : BOOLEAN, rows : SUBSET Nat]]
    BY <1>6, <2>1, BusyJob DEF EndWork, TypeInv, TypeOK
  <2> HIDE DEF pc
  <2>5. /\ workers' \in [Worker -> WorkerState]
        /\ workers'[w] = [state EXCEPT !.pc = pc]
        /\ \A v \in Worker : WorkerInv(v)'
        /\ Moves(w)
    BY <2>1, <2>2, <2>3, GotoType DEF Pc, ghosts
  <2>6. workers'[w].pc = pc
    BY <2>1, <2>5, BusyJob DEF WorkerState
  <2>7. QED
    BY <2>2, <2>3, <2>4, <2>5, <2>6 DEF TypeInv, TypeOK, Counts, ghosts
<1>7. CASE CommitSource(w)
  <2> DEFINE pc == IF state.good = Batch(w) THEN "finish" ELSE "put"
  <2>1. state.pc = "commit" /\ Goto(w, pc) /\ pc \in {"finish", "put"}
    BY <1>7 DEF CommitSource, At, Goto
  <2> HIDE DEF pc
  <2>2. UNCHANGED <<kind, jobs, requests, effects, ghosts>>
    BY <1>7 DEF CommitSource
  <2>3. /\ workers' \in [Worker -> WorkerState]
        /\ workers'[w] = [state EXCEPT !.pc = pc]
        /\ \A v \in Worker : WorkerInv(v)'
        /\ Moves(w)
    BY <2>1, <2>2, GotoType DEF Pc, ghosts
  <2>4. workers'[w].pc = pc
    BY <2>1, <2>3, BusyJob DEF WorkerState
  <2>5. QED
    BY <2>1, <2>2, <2>3, <2>4 DEF TypeInv, TypeOK, Counts, effects, ghosts
<1>8. CASE PutBlob(w)
  <2> DEFINE new == [state EXCEPT !.pc = "finish",
                                  !.blob = kind[job] = "warehouse.sync"]
  <2>1. state.pc = "put"
    BY <1>8 DEF PutBlob, At
  <2>2. workers' = [workers EXCEPT ![w] = new]
    BY <1>8 DEF PutBlob, TypeInv, TypeOK
  <2>3. new \in WorkerState /\ new.job = job /\ new.pc = "finish"
    BY <2>1, BusyJob DEF WorkerState, Pc
  <2>4. results' \in [Job -> [kept : BOOLEAN, rows : SUBSET Nat]]
    BY <1>8, <2>1, BusyJob DEF PutBlob, TypeInv, TypeOK, WorkerState
  <2> HIDE DEF new
  <2>5. /\ workers' \in [Worker -> WorkerState]
        /\ workers'[w] = new
        /\ \A v \in Worker : WorkerInv(v)'
        /\ Moves(w)
    BY <1>8, <2>1, <2>2, <2>3, MoveType DEF PutBlob, ghosts
  <2>6. QED
    BY <1>8, <2>3, <2>4, <2>5 DEF PutBlob, TypeInv, TypeOK, Counts, ghosts
<1>9. CASE CompleteRequest(w)
  <2>1. state.pc = "finish" /\ Succeed(w)
        /\ UNCHANGED <<kind, jobs, effects>>
    BY <1>9 DEF CompleteRequest, At
  <2>2. /\ requests' \in [Job -> [status : RequestStatus,
                                  verification : Verification]]
        /\ \A j \in Job :
              /\ requests[j].status # "none" => requests'[j].status # "none"
              /\ requests'[j].verification = requests[j].verification
    BY <1>9, <2>1, BusyJob DEF CompleteRequest, TypeInv, TypeOK, RequestStatus
  <2>3. QED
    BY <2>1, <2>2, SucceedType, BusyJob
       DEF TypeInv, TypeOK, Counts, effects, Succeed, WorkerState
<1>10. CASE AnswerRefused(w)
  <2>1. state.pc = "finish" /\ Goto(w, "failed")
        /\ UNCHANGED <<kind, jobs, requests, effects, ghosts>>
    BY <1>10 DEF AnswerRefused, At
  <2>2. /\ workers' \in [Worker -> WorkerState] /\ workers'[w].pc = "failed"
        /\ \A v \in Worker : WorkerInv(v)'
        /\ Moves(w)
    BY <2>1, GotoType DEF Pc, ghosts
  <2>3. QED
    BY <2>1, <2>2 DEF TypeInv, TypeOK, Counts, effects, ghosts
<1>11. CASE FinishRun(w)
  <2> DEFINE status == IF /\ kind[workers[w].job] = "warehouse.sync"
                          /\ workers[w].good = {} /\ Batch(w) # {}
                         THEN "failed" ELSE "succeeded"
  <2>1. state.pc = "finish" /\ Succeed(w) /\ RecordRun(w, status)
        /\ UNCHANGED <<kind, jobs, requests, results, accepted>>
    BY <1>11 DEF FinishRun, At
  <2>2. status \in {"succeeded", "failed"}
    OBVIOUS
  <2> HIDE DEF status
  <2>3. QED
    BY <2>1, <2>2, SucceedType, RecordType, BusyJob, ZenonT(60)
       DEF TypeInv, TypeOK, Counts, Succeed, WorkerState
<1>12. CASE CloseRun(w)
  <2> DEFINE pc == IF workers[w].pc = "closing" THEN "failed" ELSE "refused"
  <2>1. state.pc \in {"closing", "denied"} /\ RecordRun(w, "failed")
        /\ Goto(w, pc)
        /\ UNCHANGED <<kind, jobs, requests, results, accepted, ghosts>>
    BY <1>12 DEF CloseRun
  <2>2. pc \in {"failed", "refused"}
    OBVIOUS
  <2> HIDE DEF pc
  <2>3. /\ workers' \in [Worker -> WorkerState] /\ workers'[w].pc = pc
        /\ \A v \in Worker : WorkerInv(v)'
        /\ Moves(w)
    BY <2>1, <2>2, GotoType DEF Pc, ghosts
  <2>4. /\ runRows' \in [{"running", "succeeded", "failed"} -> Nat]
        /\ quarantined' \subseteq Page
    BY <2>1, RecordType
  <2>5. QED
    BY <2>1, <2>2, <2>3, <2>4 DEF TypeInv, TypeOK, Counts, ghosts
<1>13. CASE LoseRecord(w)
  <2>1. state.pc \in {"closing", "denied", "finish"} /\ Goto(w, "failed")
        /\ faults' = faults + 1
        /\ UNCHANGED <<kind, jobs, requests, effects, calls, successes>>
    BY <1>13 DEF LoseRecord, At
  <2>2. /\ workers' \in [Worker -> WorkerState] /\ workers'[w].pc = "failed"
        /\ \A v \in Worker : WorkerInv(v)'
        /\ Moves(w)
    BY <2>1, GotoType DEF Pc
  <2>3. QED
    BY <2>1, <2>2 DEF TypeInv, TypeOK, Counts, effects
<1>14. CASE ExecutionFails(w)
  <2> DEFINE new == [state EXCEPT !.pc = AfterError(w),
                                  !.blob = At(w, {"put"}, Connector)]
  <2>1. state.pc \in {"load", "commit", "put", "work", "finish"}
    BY <1>14 DEF ExecutionFails, At
  <2>2. workers' = [workers EXCEPT ![w] = new]
    BY <1>14 DEF ExecutionFails, TypeInv, TypeOK
  <2>3. /\ AfterError(w) \in {"closing", "failed"}
        /\ AfterError(w) = "closing" => kind[job] \in Connector
    BY DEF AfterError, Running, At
  <2>4. At(w, {"put"}, Connector) \in BOOLEAN
    BY DEF At
  <2>5. /\ new \in WorkerState /\ new.job = job
        /\ new.pc = AfterError(w)
    BY <2>1, <2>3, <2>4, BusyJob DEF WorkerState, Pc
  <2> HIDE DEF new
  <2>6. /\ workers' \in [Worker -> WorkerState]
        /\ workers'[w] = new
        /\ \A v \in Worker : WorkerInv(v)'
        /\ Moves(w)
    BY <1>14, <2>1, <2>2, <2>3, <2>5, MoveType DEF ExecutionFails, ghosts
  <2>7. QED
    BY <1>14, <2>3, <2>5, <2>6
       DEF ExecutionFails, TypeInv, TypeOK, Counts, effects, ghosts
<1>15. CASE Deny(w)
  <2>1. PICK pc \in {"denied", "refused"} :
          /\ state.pc \in {"work", "load"} /\ Goto(w, pc)
          /\ pc = "denied" => kind[job] \in Connector
          /\ UNCHANGED <<kind, jobs, requests, effects, ghosts>>
    BY <1>15 DEF Deny, At
  <2>2. /\ workers' \in [Worker -> WorkerState] /\ workers'[w].pc = pc
        /\ \A v \in Worker : WorkerInv(v)'
        /\ Moves(w)
    BY <2>1, GotoType DEF Pc, ghosts
  <2>3. QED
    BY <2>1, <2>2 DEF TypeInv, TypeOK, Counts, effects, ghosts
<1>16. QED
  BY <1>1, <1>2, <1>3, <1>4, <1>5, <1>6, <1>7, <1>8, <1>9, <1>10, <1>11,
     <1>12, <1>13, <1>14, <1>15 DEF Work

\* The actions of a worker on the queue.
QueueStep(w) ==
    \/ ClaimOperationJob(w) \/ CompleteOperationJob(w) \/ FailOperationJob(w)
    \/ Crash(w)

LEMMA JobType ==
    ASSUME TypeOK, NEW j \in Job, NEW c \in Page, Enqueue(j, c)
    PROVE  jobs' \in [Job -> JobRow]
<1>1. NewJob(c) \in JobRow
  BY DEF NewJob, JobRow, JobStatus
<1>2. QED
  BY <1>1 DEF Enqueue, TypeOK

\* A job with another status, lease or due time.
LEMMA RowType ==
    ASSUME TypeOK, NEW j \in Job, NEW status \in JobStatus, NEW due \in BOOLEAN,
           NEW lease \in Worker \cup {NoWorker},
           jobs' = [jobs EXCEPT ![j] = [jobs[j] EXCEPT !.status = status,
                                             !.due = due, !.lease = lease]]
    PROVE  jobs' \in [Job -> JobRow]
<1> DEFINE row == [jobs[j] EXCEPT !.status = status, !.due = due,
                                  !.lease = lease]
<1>a. jobs[j] \in JobRow
  BY DEF TypeOK
<1>1. row \in JobRow
  BY <1>a DEF JobRow
<1> HIDE DEF row
<1>2. jobs' = [jobs EXCEPT ![j] = row]
  BY DEF row
<1>3. QED
  BY <1>1, <1>2 DEF TypeOK

\* A worker that is idle again.
LEMMA IdleType ==
    ASSUME TypeInv, NEW w \in Worker, workers' = [workers EXCEPT ![w] = Idle],
           kind' = kind
    PROVE  workers' \in [Worker -> WorkerState]
           /\ \A v \in Worker : WorkerInv(v)'
<1>1. Idle \in WorkerState /\ Idle.pc = "idle"
  BY DEF Idle, WorkerState, Pc
<1>2. QED
  BY <1>1 DEF TypeInv, TypeOK, WorkerInv

LEMMA QueueType ==
    ASSUME TypeInv, NEW w \in Worker, QueueStep(w)
    PROVE  TypeInv'
<1>1. CASE ClaimOperationJob(w)
  <2>1. PICK j \in Job :
          /\ jobs' = [jobs EXCEPT ![j].status = "processing",
                                  ![j].attempts = @ + 1, ![j].lease = w]
          /\ workers' = [workers EXCEPT ![w].pc = "load", ![w].job = j]
    BY <1>1 DEF ClaimOperationJob
  <2>2. UNCHANGED <<kind, requests, effects, ghosts>>
    BY <1>1 DEF ClaimOperationJob
  <2>3. jobs' \in [Job -> JobRow]
    BY <2>1 DEF TypeInv, TypeOK, JobRow, JobStatus
  <2> DEFINE new == [workers[w] EXCEPT !.pc = "load", !.job = j]
  <2>4. new \in WorkerState /\ new.pc = "load" /\ new.job = j
    BY DEF TypeInv, TypeOK, WorkerState, Pc
  <2>5. workers' = [workers EXCEPT ![w] = new]
    BY <2>1 DEF TypeInv, TypeOK
  <2> HIDE DEF new
  <2>6. workers' \in [Worker -> WorkerState]
        /\ \A v \in Worker : WorkerInv(v)'
    BY <2>2, <2>4, <2>5 DEF TypeInv, TypeOK, WorkerInv
  <2>7. QED
    BY <2>2, <2>3, <2>6 DEF TypeInv, TypeOK, effects, ghosts
<1>2. CASE CompleteOperationJob(w)
  <2>1. workers[w].job \in Job
    BY <1>2, BusyJob DEF CompleteOperationJob
  <2> DEFINE j == workers[w].job
  <2>a. jobs[j] \in JobRow /\ jobs[j].due \in BOOLEAN
    BY <2>1 DEF TypeInv, TypeOK, JobRow
  <2>b. jobs' = [jobs EXCEPT ![j].status = "done", ![j].lease = NoWorker]
    BY <1>2 DEF CompleteOperationJob
  <2>c. jobs' = [jobs EXCEPT ![j] = [jobs[j] EXCEPT !.status = "done",
                                  !.due = jobs[j].due, !.lease = NoWorker]]
    BY <2>1, <2>a, <2>b DEF TypeInv, TypeOK, JobRow
  <2>2. jobs' \in [Job -> JobRow]
    BY <2>1, <2>a, <2>c, RowType DEF TypeInv, JobStatus
  <2>3. workers' \in [Worker -> WorkerState]
        /\ \A v \in Worker : WorkerInv(v)'
    BY <1>2, IdleType DEF CompleteOperationJob
  <2>4. QED
    BY <1>2, <2>2, <2>3
       DEF CompleteOperationJob, TypeInv, TypeOK, effects, ghosts
<1>3. CASE FailOperationJob(w)
  <2> DEFINE j == workers[w].job
             refused == workers[w].pc = "refused"
  <2>1. j \in Job
    BY <1>3, BusyJob DEF FailOperationJob
  <2>2. FailedStatus(j, refused) \in JobStatus /\ refused \in BOOLEAN
    BY DEF FailedStatus, JobStatus
  <2>3. jobs' = [jobs EXCEPT ![j].status = FailedStatus(j, refused),
                             ![j].due = refused, ![j].lease = NoWorker]
    BY <1>3 DEF FailOperationJob
  <2> HIDE DEF j, refused
  <2>a. jobs' = [jobs EXCEPT ![j] =
                    [jobs[j] EXCEPT !.status = FailedStatus(j, refused),
                                    !.due = refused, !.lease = NoWorker]]
    BY <2>1, <2>3 DEF TypeInv, TypeOK
  <2>4. jobs' \in [Job -> JobRow]
    BY <2>1, <2>2, <2>a, RowType DEF TypeInv
  <2> USE DEF j, refused
  <2>5. requests' \in [Job -> [status : RequestStatus,
                               verification : Verification]]
    BY <1>3, <2>1
       DEF FailOperationJob, TypeInv, TypeOK, RequestStatus, PrivacyStatus
  <2>6. workers' \in [Worker -> WorkerState]
        /\ \A v \in Worker : WorkerInv(v)'
    BY <1>3, IdleType DEF FailOperationJob
  <2>7. QED
    BY <1>3, <2>4, <2>5, <2>6
       DEF FailOperationJob, TypeInv, TypeOK, effects, ghosts
<1>4. CASE Crash(w)
  <2>1. workers' \in [Worker -> WorkerState]
        /\ \A v \in Worker : WorkerInv(v)'
    BY <1>4, IdleType DEF Crash
  <2>2. QED
    BY <1>4, <2>1 DEF Crash, TypeInv, TypeOK, effects
<1>5. QED
  BY <1>1, <1>2, <1>3, <1>4 DEF QueueStep

\* What the clock, operators, reviewers and the scheduler do to a job.
JobStep(j) == Enqueues(j) \/ Clock(j) \/ Operate(j) \/ Overrun(j)

LEMMA JobStepType ==
    ASSUME TypeInv, NEW j \in Job, JobStep(j)
    PROVE  TypeInv' /\ UNCHANGED <<kind, workers, effects, successes>>
<1>0. 0 \in Page
  BY OperationsAssumption DEF Page
<1>1. CASE CreateRequest(j)
  <2>1. jobs' \in [Job -> JobRow]
    BY <1>0, <1>1, JobType DEF CreateRequest, TypeInv, TypeOK
  <2>2. QED
    BY <1>1, <2>1 DEF CreateRequest, TypeInv, TypeOK, WorkerInv,
                      RequestStatus, PrivacyStatus, effects, ghosts
<1>2. CASE EnqueueImport(j)
  BY <1>0, <1>2, JobType
     DEF EnqueueImport, TypeInv, TypeOK, WorkerInv, effects, ghosts
<1>3. CASE VerifyPrivacyRequest(j)
  BY <1>0, <1>3, JobType DEF VerifyPrivacyRequest, TypeInv, TypeOK, WorkerInv,
                             Verification, effects, ghosts
<1>4. CASE EnqueueSingle(j)
  BY <1>0, <1>4, JobType
     DEF EnqueueSingle, TypeInv, TypeOK, WorkerInv, effects, ghosts
<1>5. CASE ClaimDueConnectorPipeline(j)
  BY <1>0, <1>5, JobType
     DEF ClaimDueConnectorPipeline, TypeInv, TypeOK, WorkerInv, effects, ghosts
<1>6. CASE ReplayConnectorRun(j)
  <2>1. PICK c \in quarantined : Enqueue(j, c)
    BY <1>6 DEF ReplayConnectorRun
  <2>2. jobs' \in [Job -> JobRow]
    BY <2>1, JobType DEF TypeInv, TypeOK
  <2>3. QED
    BY <1>6, <2>2
       DEF ReplayConnectorRun, TypeInv, TypeOK, WorkerInv, effects
<1>7. CASE BackoffPasses(j)
  BY <1>7, ZenonT(60) DEF BackoffPasses, TypeInv, TypeOK, JobRow, WorkerInv, effects, ghosts
<1>8. CASE LeaseExpires(j)
  BY <1>8, ZenonT(60) DEF LeaseExpires, TypeInv, TypeOK, JobRow, WorkerInv, effects, ghosts
<1>9. CASE Overrun(j)
  <2>1. jobs' \in [Job -> JobRow]
    BY <1>9, ZenonT(60) DEF Overrun, TypeInv, TypeOK, JobRow
  <2>2. QED
    BY <1>9, <2>1 DEF Overrun, TypeInv, TypeOK, WorkerInv, effects
<1>10. CASE RetryDeadLetter(j)
  <2>1. Enqueue(j, jobs[j].cursor) /\ jobs[j].cursor \in Page
    BY <1>10 DEF RetryDeadLetter, Enqueue, TypeInv, TypeOK, JobRow
  <2>2. jobs' \in [Job -> JobRow]
    BY <2>1, JobType DEF TypeInv
  <2>3. QED
    BY <1>10, <2>2 DEF RetryDeadLetter, TypeInv, TypeOK, WorkerInv, effects
<1>11. CASE DiscardDeadLetter(j)
  <2>a. jobs[j] \in JobRow /\ "done" \in JobStatus
    BY DEF TypeInv, TypeOK, JobStatus
  <2>b. [jobs[j] EXCEPT !.status = "done"] \in JobRow
    BY <2>a DEF JobRow
  <2>1. jobs' \in [Job -> JobRow]
    BY <1>11, <2>b DEF DiscardDeadLetter, TypeInv, TypeOK
  <2>2. QED
    BY <1>11, <2>1 DEF DiscardDeadLetter, TypeInv, TypeOK, WorkerInv, effects
<1>12. CASE RejectPrivacyRequest(j)
  BY <1>12 DEF RejectPrivacyRequest, TypeInv, TypeOK, WorkerInv,
               RequestStatus, PrivacyStatus, Verification, effects
<1>13. QED
  BY <1>1, <1>2, <1>3, <1>4, <1>5, <1>6, <1>7, <1>8, <1>9, <1>10, <1>11,
     <1>12 DEF JobStep, Enqueues, Clock, Operate

LEMMA NextCases ==
    ASSUME [Next]_vars
    PROVE  \/ \E w \in Worker : Work(w) \/ QueueStep(w)
           \/ \E j \in Job : JobStep(j)
           \/ UNCHANGED vars
BY DEF Next, WorkerStep, QueueStep, JobStep

LEMMA TypeInit == Init => TypeInv
<1> SUFFICES ASSUME Init PROVE TypeInv
  OBVIOUS
<1>1. Idle \in WorkerState /\ Idle.pc = "idle"
  BY DEF Idle, WorkerState, Pc
<1>2. NoRow \in JobRow
  BY OperationsAssumption DEF NoRow, JobRow, JobStatus, Page
<1>3. kind \in [Job -> Kind]
  BY OperationsAssumption DEF Init
<1>4. workers \in [Worker -> WorkerState] /\ \A w \in Worker : WorkerInv(w)
  BY <1>1 DEF Init, WorkerInv
<1>5. requests \in [Job -> [status : RequestStatus,
                            verification : Verification]]
  BY DEF Init, RequestStatus, Verification
<1>6. QED
  BY <1>2, <1>3, <1>4, <1>5 DEF Init, TypeInv, TypeOK

LEMMA TypeStep == TypeInv /\ [Next]_vars => TypeInv'
<1> SUFFICES ASSUME TypeInv, [Next]_vars PROVE TypeInv'
  OBVIOUS
<1>1. CASE UNCHANGED vars
  BY <1>1 DEF vars, effects, ghosts, TypeInv, TypeOK, WorkerInv
<1>2. QED
  BY <1>1, NextCases, WorkType, QueueType, JobStepType

\* The tables and the local state of the workers are well typed in every
\* reachable state; in particular neither completing nor failing a job
\* leaves the statuses the tables admit.
THEOREM OperationsTypeCorrect == Spec => []TypeOK
<1>1. TypeInv => TypeOK
  BY DEF TypeInv
<1>2. QED
  BY <1>1, TypeInit, TypeStep, PTL DEF Spec

-----------------------------------------------------------------------------
(***************************************************************************)
(* Successes are paid for.                                                 *)
(***************************************************************************)

LEMMA WorkersCount ==
    ASSUME NEW S \in SUBSET Worker
    PROVE  /\ Cardinality(S) \in Nat
           /\ \A w \in S : Cardinality(S \ {w}) + 1 = Cardinality(S)
           /\ \A w \in Worker \ S :
                Cardinality(S \cup {w}) = Cardinality(S) + 1
<1>1. IsFiniteSet(S)
  BY FS_Subset, OperationsAssumption
<1>2. Cardinality(S) \in Nat
  BY <1>1, FS_CardinalityType
<1>3. ASSUME NEW w \in S PROVE Cardinality(S \ {w}) + 1 = Cardinality(S)
  <2>1. Cardinality(S \ {w}) = Cardinality(S) - 1
    BY <1>1, FS_RemoveElement, Zenon
  <2>2. QED
    BY <1>2, <2>1
<1>4. ASSUME NEW w \in Worker \ S
      PROVE  Cardinality(S \cup {w}) = Cardinality(S) + 1
  BY <1>1, FS_AddElement
<1>5. QED
  BY <1>2, <1>3, <1>4

LEMMA HoldersCount ==
    ASSUME NEW j \in Job
    PROVE  /\ Cardinality(Holders(j)) \in Nat
           /\ Cardinality(Holders(j)') \in Nat
           /\ \A w \in Worker :
                 /\ w \in Holders(j) /\ Holders(j)' = Holders(j) \ {w} =>
                       Cardinality(Holders(j)') + 1 = Cardinality(Holders(j))
                 /\ w \notin Holders(j) /\ Holders(j)' = Holders(j) \cup {w} =>
                       Cardinality(Holders(j)') = Cardinality(Holders(j)) + 1
<1>1. Holders(j) \in SUBSET Worker /\ Holders(j)' \in SUBSET Worker
  BY DEF Holders
<1>2. QED
  BY <1>1, WorkersCount

\* What a step must keep of the sum, by how much faults grow.
LEMMA PaidKept ==
    ASSUME PaidInv, TypeInv', NEW j \in Job,
           Cardinality(Holders(j)') \in Nat,
           successes'[j] + Cardinality(Holders(j)') + Chance(j)' + faults
             <= successes[j] + Cardinality(Holders(j)) + Chance(j) + faults'
    PROVE  Paid(j)'
<1>1. /\ successes[j] \in Nat /\ successes'[j] \in Nat
      /\ faults \in Nat /\ faults' \in Nat
  BY DEF PaidInv, TypeInv, TypeOK
<1>2. Chance(j) \in {0, 1} /\ Chance(j)' \in {0, 1}
  BY DEF Chance
<1>3. Cardinality(Holders(j)) \in Nat
  BY HoldersCount
<1>4. successes[j] + Cardinality(Holders(j)) + Chance(j) <= 1 + faults
  BY DEF PaidInv, Paid
<1>5. QED
  BY <1>1, <1>2, <1>3, <1>4 DEF Paid

LEMMA PaidWork ==
    ASSUME PaidInv, NEW w \in Worker, Work(w)
    PROVE  PaidInv'
<1>1. TypeInv /\ TypeInv' /\ Moves(w) /\ Counts(w)
  BY WorkType DEF PaidInv
<1>2. QueuedInv'
  <2>1. \A v \in Worker : workers'[v].pc # "idle" =>
          workers[v].pc # "idle" /\ workers'[v].job = workers[v].job
    BY <1>1 DEF Moves
  <2>2. QED
    BY <1>1, <2>1 DEF PaidInv, QueuedInv, Moves, Counts
<1>3. ASSUME NEW j \in Job PROVE Paid(j)'
  <2>1. \A v \in Worker : workers'[v].job = workers[v].job
    BY <1>1 DEF Moves
  <2>2. jobs[j].lease \in Worker \cup {NoWorker}
    BY <1>1 DEF TypeInv, TypeOK, JobRow
  <2>3. Chance(j)' = Chance(j)
    BY <1>1, <2>1, <2>2 DEF Chance, Held, Moves
  <2>4. /\ successes[j] \in Nat /\ successes'[j] \in Nat
        /\ faults \in Nat /\ faults' \in Nat /\ faults <= faults'
    BY <1>1 DEF TypeInv, TypeOK, Counts
  <2>5. CASE j = workers[w].job /\ workers'[w].pc = "ok"
    <3>1. w \in Holders(j) /\ Holders(j)' = Holders(j) \ {w}
      BY <1>1, <2>1, <2>5 DEF Holders, Moves
    <3>2. successes'[j] = successes[j] + 1
      BY <1>1, <2>5 DEF Counts, TypeInv, TypeOK
    <3>3. Cardinality(Holders(j)') + 1 = Cardinality(Holders(j))
      BY <3>1, HoldersCount
    <3>4. Chance(j) \in {0, 1}
      BY DEF Chance
    <3>5. Cardinality(Holders(j)) \in Nat /\ Cardinality(Holders(j)') \in Nat
      BY HoldersCount
    <3>6. successes'[j] + Cardinality(Holders(j)') + Chance(j)' + faults
            <= successes[j] + Cardinality(Holders(j)) + Chance(j) + faults'
      BY <2>3, <2>4, <3>2, <3>3, <3>4, <3>5
    <3>7. QED
      BY <1>1, <3>5, <3>6, PaidKept
  <2>6. CASE ~(j = workers[w].job /\ workers'[w].pc = "ok")
    <3>1. Holders(j)' = Holders(j)
      BY <1>1, <2>1, <2>6 DEF Holders, Moves
    <3>2. successes'[j] = successes[j]
      BY <1>1, <2>6 DEF Counts, TypeInv, TypeOK
    <3>3. Chance(j) \in {0, 1}
      BY DEF Chance
    <3>4. Cardinality(Holders(j)) \in Nat /\ Cardinality(Holders(j)') \in Nat
      BY HoldersCount
    <3>5. successes'[j] + Cardinality(Holders(j)') + Chance(j)' + faults
            <= successes[j] + Cardinality(Holders(j)) + Chance(j) + faults'
      BY <2>3, <2>4, <3>1, <3>2, <3>3, <3>4
    <3>6. QED
      BY <1>1, <3>4, <3>5, PaidKept
  <2>7. QED
    BY <2>5, <2>6
<1>4. QED
  BY <1>1, <1>2, <1>3 DEF PaidInv

\* A step that changes neither the local state of workers nor successes.
LEMMA PaidJobStep ==
    ASSUME PaidInv, NEW i \in Job, JobStep(i)
    PROVE  PaidInv'
<1>1. TypeInv /\ TypeInv' /\ UNCHANGED <<kind, workers, effects, successes>>
  BY JobStepType DEF PaidInv
<1>2. \A j \in Job : jobs[j] \in JobRow
  BY <1>1 DEF TypeInv, TypeOK
<1>3. /\ \A j \in Job : j # i => jobs'[j] = jobs[j] /\ requests'[j] = requests[j]
      /\ faults \in Nat
      /\ \/ faults' = faults + 1
         \/ /\ faults' = faults
            /\ jobs[i].status = "done" => jobs'[i].status = "done"
            /\ Held(i) => jobs'[i] = jobs[i]
      /\ jobs[i].status # "none" => jobs'[i].status # "none"
      /\ jobs'[i].status # "none" /\ kind[i] \in Requested =>
            /\ requests'[i].status # "none"
            /\ kind[i] \in Privacy => requests'[i].verification # "unverified"
  <2> USE DEF PaidInv, QueuedInv, TypeInv, TypeOK, Held, ghosts, Enqueue, NewJob
  <2>1. CASE CreateRequest(i)
    <3>1. jobs[i].status = "none"
      BY <2>1 DEF CreateRequest
    <3>2. CASE kind[i] \in {"ai.generate", "scores.compute"}
      BY <2>1, <3>1, <3>2 DEF CreateRequest, Privacy
    <3>3. CASE kind[i] \notin {"ai.generate", "scores.compute"}
      BY <2>1, <3>1, <3>3 DEF CreateRequest
    <3>4. QED
      BY <3>2, <3>3
  <2>2. CASE EnqueueImport(i)
    BY <2>2 DEF EnqueueImport, Privacy
  <2>3. CASE VerifyPrivacyRequest(i)
    <3>1. jobs[i].status = "none"
      BY <2>3 DEF VerifyPrivacyRequest, Requested
    <3>2. QED
      BY <2>3, <3>1 DEF VerifyPrivacyRequest, Requested
  <2>4. CASE EnqueueSingle(i)
    <3>1. kind[i] \notin Requested
      BY <2>4 DEF EnqueueSingle, Single, Requested, Privacy, Tracked
    <3>2. QED
      BY <2>4, <3>1 DEF EnqueueSingle
  <2>5. CASE ClaimDueConnectorPipeline(i)
    <3>1. kind[i] \notin Requested
      BY <2>5 DEF ClaimDueConnectorPipeline, Connector, Requested, Privacy,
                  Tracked
    <3>2. QED
      BY <2>5, <3>1 DEF ClaimDueConnectorPipeline
  <2>6. CASE ReplayConnectorRun(i)
    <3>1. kind[i] \notin Requested
      BY <2>6 DEF ReplayConnectorRun, Requested, Privacy, Tracked
    <3>2. QED
      BY <2>6, <3>1 DEF ReplayConnectorRun
  <2>7. CASE BackoffPasses(i)
    BY <1>2, <2>7 DEF BackoffPasses, JobRow
  <2>8. CASE LeaseExpires(i)
    BY <1>2, <2>8 DEF LeaseExpires, JobRow
  <2>9. CASE Overrun(i)
    BY <1>2, <2>9 DEF Overrun, JobRow
  <2>10. CASE RetryDeadLetter(i)
    BY <1>2, <2>10 DEF RetryDeadLetter, JobRow
  <2>11. CASE DiscardDeadLetter(i)
    BY <1>2, <2>11 DEF DiscardDeadLetter, JobRow
  <2>12. CASE RejectPrivacyRequest(i)
    BY <2>12 DEF RejectPrivacyRequest
  <2>13. QED
    BY <2>1, <2>2, <2>3, <2>4, <2>5, <2>6, <2>7, <2>8, <2>9, <2>10, <2>11,
       <2>12 DEF JobStep, Enqueues, Clock, Operate
<1>4. QueuedInv'
  <2>1. \A w \in Worker : workers'[w].pc # "idle" =>
          jobs'[workers'[w].job].status # "none"
    BY <1>1, <1>3 DEF PaidInv, QueuedInv, TypeInv, WorkerInv
  <2>2. QED
    BY <1>1, <1>3, <2>1 DEF PaidInv, QueuedInv
<1>5. ASSUME NEW j \in Job PROVE Paid(j)'
  <2>1. Holders(j)' = Holders(j) /\ successes'[j] = successes[j]
    BY <1>1 DEF Holders
  <2>2. Cardinality(Holders(j)) \in Nat /\ successes[j] \in Nat
    BY <1>1, HoldersCount DEF TypeInv, TypeOK
  <2>3. Chance(j) \in {0, 1} /\ Chance(j)' \in {0, 1}
    BY DEF Chance
  <2>4. Chance(j)' + faults <= Chance(j) + faults'
    <3>1. CASE faults' = faults + 1
      BY <1>3, <2>3, <3>1
    <3>2. CASE faults' = faults /\ j # i
      <4>1. Held(j)' = Held(j)
        BY <1>1, <1>3, <3>2 DEF Held
      <4>2. QED
        BY <1>3, <2>3, <3>2, <4>1 DEF Chance
    <3>3. CASE faults' = faults /\ j = i
      <4>1. Held(i) => Held(i)'
        BY <1>1, <1>3, <3>3 DEF Held
      <4>2. jobs[i].status = "done" => jobs'[i].status = "done"
        BY <1>3, <3>3
      <4>3. QED
        BY <1>3, <2>3, <3>3, <4>1, <4>2 DEF Chance
    <3>4. QED
      BY <1>3, <3>1, <3>2, <3>3
  <2>5. faults \in Nat /\ faults' \in Nat
    BY <1>1 DEF TypeInv, TypeOK
  <2>6. successes'[j] + Cardinality(Holders(j)') + Chance(j)' + faults
          <= successes[j] + Cardinality(Holders(j)) + Chance(j) + faults'
    BY <2>1, <2>2, <2>3, <2>4, <2>5
  <2>7. QED
    BY <1>1, <2>1, <2>2, <2>6, PaidKept
<1>6. QED
  BY <1>1, <1>4, <1>5 DEF PaidInv

LEMMA PaidClaim ==
    ASSUME PaidInv, NEW w \in Worker, ClaimOperationJob(w)
    PROVE  PaidInv'
<1>1. TypeInv /\ TypeInv'
  BY QueueType DEF PaidInv, QueueStep
<1>2. PICK i \in Job :
        /\ Claimable(i)
        /\ jobs' = [jobs EXCEPT ![i].status = "processing",
                                ![i].attempts = @ + 1, ![i].lease = w]
        /\ workers' = [workers EXCEPT ![w].pc = "load", ![w].job = i]
  BY DEF ClaimOperationJob
<1>3. UNCHANGED <<kind, requests, effects, ghosts>>
  BY DEF ClaimOperationJob
<1>4. workers[w] = Idle
  BY <1>1 DEF ClaimOperationJob, TypeInv, WorkerInv
<1>5. /\ workers'[w].job = i /\ workers'[w].pc = "load"
      /\ \A v \in Worker \ {w} : workers'[v] = workers[v]
  BY <1>1, <1>2 DEF TypeInv, TypeOK, WorkerState
<1>6. /\ jobs'[i].status = "processing" /\ jobs'[i].lease = w
      /\ \A j \in Job \ {i} : jobs'[j] = jobs[j]
  BY <1>1, <1>2 DEF TypeInv, TypeOK, JobRow
<1>7. jobs[i].status \in {"pending", "processing"} /\ ~Held(i)
  BY <1>2 DEF Claimable, Held
<1>8. QueuedInv'
  <2>1. \A j \in Job : jobs[j].status # "none" => jobs'[j].status # "none"
    BY <1>6
  <2>2. \A v \in Worker : workers'[v].pc # "idle" =>
          jobs'[workers'[v].job].status # "none"
    BY <1>1, <1>5, <1>6, <2>1 DEF PaidInv, QueuedInv, TypeInv, WorkerInv
  <2>3. QED
    BY <1>3, <1>6, <1>7, <2>2 DEF PaidInv, QueuedInv
<1>9. ASSUME NEW j \in Job PROVE Paid(j)'
  <2>1. /\ successes'[j] = successes[j] /\ faults' = faults
        /\ successes[j] \in Nat /\ faults \in Nat
    BY <1>1, <1>3 DEF ghosts, TypeInv, TypeOK
  <2>2. Cardinality(Holders(j)) \in Nat /\ Cardinality(Holders(j)') \in Nat
    BY HoldersCount
  <2>3. w \notin Holders(j)
    BY <1>4, OperationsAssumption DEF Holders, Idle
  <2>4. Cardinality(Holders(j)') + Chance(j)'
          <= Cardinality(Holders(j)) + Chance(j)
    <3>1. CASE j = i
      <4>1. Holders(j)' = Holders(j) \cup {w}
        BY <1>5, <2>3, <3>1 DEF Holders
      <4>2. Chance(j)' = 0 /\ Chance(j) = 1
        BY <1>5, <1>6, <1>7, <3>1, OperationsAssumption DEF Chance, Held
      <4>3. QED
        BY <2>2, <2>3, <4>1, <4>2, HoldersCount
    <3>2. CASE j # i
      <4>1. Holders(j)' = Holders(j)
        BY <1>5, <2>3, <3>2 DEF Holders
      <4>2. jobs[j].lease \in Worker \cup {NoWorker}
        BY <1>1 DEF TypeInv, TypeOK, JobRow
      <4>3. Held(j) => Held(j)'
        BY <1>4, <1>5, <1>6, <3>2, <4>2, OperationsAssumption DEF Held, Idle
      <4>4. Chance(j)' <= Chance(j)
        BY <1>6, <3>2, <4>3 DEF Chance
      <4>5. Chance(j) \in {0, 1} /\ Chance(j)' \in {0, 1}
        BY DEF Chance
      <4>6. QED
        BY <2>2, <4>1, <4>4, <4>5
    <3>3. QED
      BY <3>1, <3>2
  <2>5. Chance(j) \in {0, 1} /\ Chance(j)' \in {0, 1}
    BY DEF Chance
  <2>6. QED
    BY <1>1, <2>1, <2>2, <2>4, <2>5, PaidKept
<1>10. QED
  BY <1>1, <1>8, <1>9 DEF PaidInv

\* A worker gives its job up: it was one of its holders, unless it had
\* succeeded; then the job is done, or a fault has happened.
LEMMA PaidRelease ==
    ASSUME PaidInv, TypeInv', NEW w \in Worker, workers[w].pc # "idle",
           workers' = [workers EXCEPT ![w] = Idle],
           successes' = successes,
           \A j \in Job \ {workers[w].job} : jobs'[j] = jobs[j],
           \/ faults' = faults + 1
           \/ faults' = faults /\ workers[w].pc # "ok"
           \/ faults' = faults /\ jobs'[workers[w].job].status = "done"
    PROVE  \A j \in Job : Paid(j)'
<1> SUFFICES ASSUME NEW j \in Job PROVE Paid(j)'
  OBVIOUS
<1>1. /\ successes'[j] = successes[j] /\ successes[j] \in Nat
      /\ faults \in Nat /\ faults' \in Nat
  BY DEF PaidInv, TypeInv, TypeOK
<1>2. Cardinality(Holders(j)) \in Nat /\ Cardinality(Holders(j)') \in Nat
  BY HoldersCount
<1>3. Chance(j) \in {0, 1} /\ Chance(j)' \in {0, 1}
  BY DEF Chance
<1>4. /\ workers'[w].job = "none"
      /\ \A v \in Worker \ {w} : workers'[v] = workers[v]
  BY DEF PaidInv, TypeInv, TypeOK, Idle
<1>5. Cardinality(Holders(j)') + Chance(j)' + faults
        <= Cardinality(Holders(j)) + Chance(j) + faults'
  <2>1. CASE j # workers[w].job
    <3>1. Holders(j)' = Holders(j)
      BY <1>4, <2>1, OperationsAssumption DEF Holders
    <3>2. jobs'[j] = jobs[j] /\ jobs[j].lease \in Worker \cup {NoWorker}
      BY <2>1 DEF PaidInv, TypeInv, TypeOK, JobRow
    <3>3. Held(j) => Held(j)'
      BY <1>4, <2>1, <3>2 DEF Held
    <3>4. Chance(j)' <= Chance(j)
      BY <3>2, <3>3 DEF Chance
    <3>5. QED
      BY <1>1, <1>2, <1>3, <3>1, <3>4
  <2>2. CASE j = workers[w].job /\ workers[w].pc # "ok"
    <3>1. w \in Holders(j) /\ Holders(j)' = Holders(j) \ {w}
      BY <1>4, <2>2, OperationsAssumption DEF Holders
    <3>2. Cardinality(Holders(j)') + 1 = Cardinality(Holders(j))
      BY <3>1, HoldersCount
    <3>3. QED
      BY <1>1, <1>2, <1>3, <3>2
  <2>3. CASE j = workers[w].job /\ workers[w].pc = "ok"
    <3>1. Holders(j)' = Holders(j)
      BY <1>4, <2>3, OperationsAssumption DEF Holders
    <3>2. jobs'[j].status = "done" => Chance(j)' = 0
      BY DEF Chance
    <3>3. \/ faults' = faults + 1
          \/ faults' = faults /\ Chance(j)' = 0
      BY <2>3, <3>2
    <3>4. QED
      BY <1>1, <1>2, <1>3, <3>1, <3>3
  <2>4. QED
    BY <2>1, <2>2, <2>3
<1>6. QED
  BY <1>1, <1>2, <1>3, <1>5, PaidKept

\* Nor does a request lose what it needs when its job is given up.
LEMMA QueuedRelease ==
    ASSUME PaidInv, NEW w \in Worker, workers[w].pc # "idle", kind' = kind,
           workers' = [workers EXCEPT ![w] = Idle],
           jobs'[workers[w].job].status # "none",
           \A j \in Job \ {workers[w].job} : jobs'[j] = jobs[j],
           \A j \in Job :
              /\ requests[j].status # "none" => requests'[j].status # "none"
              /\ requests'[j].verification = requests[j].verification
    PROVE  QueuedInv'
<1>1. /\ workers'[w].pc = "idle"
      /\ \A v \in Worker \ {w} : workers'[v] = workers[v]
  BY DEF PaidInv, TypeInv, TypeOK, Idle
<1>2. jobs[workers[w].job].status # "none"
  BY DEF PaidInv, QueuedInv
<1>3. \A j \in Job : jobs[j].status # "none" <=> jobs'[j].status # "none"
  BY <1>2
<1>4. \A v \in Worker : workers'[v].pc # "idle" =>
        jobs'[workers'[v].job].status # "none"
  BY <1>1, <1>3 DEF PaidInv, QueuedInv, TypeInv, WorkerInv
<1>5. QED
  BY <1>3, <1>4 DEF PaidInv, QueuedInv

LEMMA PaidQueue ==
    ASSUME PaidInv, NEW w \in Worker, QueueStep(w)
    PROVE  PaidInv'
<1>1. TypeInv /\ TypeInv'
  BY QueueType DEF PaidInv
<1>2. CASE CompleteOperationJob(w)
  <2>1. workers[w].job \in Job /\ workers[w].pc = "ok"
    BY <1>1, <1>2, BusyJob DEF CompleteOperationJob
  <2>2. /\ jobs'[workers[w].job].status = "done"
        /\ \A j \in Job \ {workers[w].job} : jobs'[j] = jobs[j]
    BY <1>1, <1>2, <2>1 DEF CompleteOperationJob, TypeInv, TypeOK, JobRow
  <2>3. \A j \in Job : Paid(j)'
    BY <1>1, <1>2, <2>1, <2>2, PaidRelease DEF CompleteOperationJob, ghosts
  <2>4. QueuedInv'
    BY <1>2, <2>1, <2>2, QueuedRelease DEF CompleteOperationJob
  <2>5. QED
    BY <1>1, <2>3, <2>4 DEF PaidInv
<1>3. CASE FailOperationJob(w)
  <2>1. workers[w].job \in Job /\ workers[w].pc \in {"failed", "refused"}
    BY <1>1, <1>3, BusyJob DEF FailOperationJob
  <2>2. \A j \in Job \ {workers[w].job} :
          jobs'[j] = jobs[j] /\ requests'[j] = requests[j]
    BY <1>1, <1>3, <2>1 DEF FailOperationJob, TypeInv, TypeOK
  <2>3. \A j \in Job : Paid(j)'
    BY <1>1, <1>3, <2>1, <2>2, PaidRelease DEF FailOperationJob, ghosts
  <2>a. jobs'[workers[w].job].status \in {"dead", "pending"}
    BY <1>1, <1>3, <2>1
       DEF FailOperationJob, FailedStatus, TypeInv, TypeOK, JobRow
  <2>b. \A j \in Job :
          /\ requests[j].status # "none" => requests'[j].status # "none"
          /\ requests'[j].verification = requests[j].verification
    BY <1>1, <1>3, <2>1 DEF FailOperationJob, TypeInv, TypeOK
  <2>4. QueuedInv'
    BY <1>3, <2>1, <2>2, <2>a, <2>b, QueuedRelease DEF FailOperationJob
  <2>5. QED
    BY <1>1, <2>3, <2>4 DEF PaidInv
<1>4. CASE Crash(w)
  <2>1. \A j \in Job : Paid(j)'
    BY <1>1, <1>4, PaidRelease DEF Crash
  <2>2. QueuedInv'
    BY <1>1, <1>4, QueuedRelease DEF Crash, PaidInv, QueuedInv
  <2>3. QED
    BY <1>1, <2>1, <2>2 DEF PaidInv
<1>5. QED
  BY <1>2, <1>3, <1>4, PaidClaim DEF QueueStep

LEMMA PaidInit == Init => PaidInv
<1> SUFFICES ASSUME Init PROVE PaidInv
  OBVIOUS
<1>1. TypeInv
  BY TypeInit
<1>2. QueuedInv
  BY DEF Init, QueuedInv, NoRow, Idle
<1>3. ASSUME NEW j \in Job PROVE Paid(j)
  <2>1. Holders(j) = {}
    BY OperationsAssumption DEF Init, Holders, Idle
  <2>2. Cardinality(Holders(j)) = 0
    BY <2>1, FS_EmptySet
  <2>3. successes[j] = 0 /\ faults = 0
    BY DEF Init
  <2>4. Chance(j) \in {0, 1}
    BY DEF Chance
  <2>5. QED
    BY <2>2, <2>3, <2>4 DEF Paid
<1>4. QED
  BY <1>1, <1>2, <1>3 DEF PaidInv

LEMMA PaidStep == PaidInv /\ [Next]_vars => PaidInv'
<1> SUFFICES ASSUME PaidInv, [Next]_vars PROVE PaidInv'
  OBVIOUS
<1>1. CASE UNCHANGED vars
  <2>1. TypeInv'
    BY TypeStep DEF PaidInv
  <2>2. QueuedInv'
    BY <1>1 DEF PaidInv, QueuedInv, vars
  <2>3. ASSUME NEW j \in Job PROVE Paid(j)'
    BY <1>1 DEF PaidInv, Paid, Holders, Chance, Held, vars, ghosts
  <2>4. QED
    BY <2>1, <2>2, <2>3 DEF PaidInv
<1>2. QED
  BY <1>1, NextCases, PaidWork, PaidQueue, PaidJobStep

\* Whatever the kinds of the jobs, however many workers, retries and calls of
\* operators there are, a job is carried out again only for a crash, a lease
\* that ran out under its worker, or a run record that could not be written:
\* the unfenced CompleteOperationJob and FailOperationJob never reopen a job
\* on their own.
THEOREM JobsAreNotRepeated == Spec => []SuccessesArePaidFor
<1>1. PaidInv => SuccessesArePaidFor
  <2> SUFFICES ASSUME PaidInv, NEW j \in Job
               PROVE  successes[j] <= 1 + faults
    BY DEF SuccessesArePaidFor
  <2>1. successes[j] \in Nat /\ faults \in Nat
    BY DEF PaidInv, TypeInv, TypeOK
  <2>2. Cardinality(Holders(j)) \in Nat
    BY HoldersCount
  <2>3. Chance(j) \in {0, 1}
    BY DEF Chance
  <2>4. successes[j] + Cardinality(Holders(j)) + Chance(j) <= 1 + faults
    BY DEF PaidInv, Paid
  <2>5. QED
    BY <2>1, <2>2, <2>3, <2>4
<1>2. QED
  BY <1>1, PaidInit, PaidStep, PTL DEF Spec

-----------------------------------------------------------------------------
(***************************************************************************)
(* Answers are true.                                                       *)
(***************************************************************************)

\* Results and accepted events stay, and what is new in a request or in a
\* report has its result and its event.
AnswersGrow ==
    /\ kind' = kind
    /\ accepted \subseteq accepted'
    /\ \A j \in Job :
          /\ results[j].kept => results'[j].kept
          /\ kind[j] \in Tracked =>
                /\ requests'[j].status = "complete" =>
                      requests[j].status = "complete" \/ results'[j].kept
                /\ kind[j] = "profiles.import" =>
                      \A b \in results'[j].rows :
                         b \in results[j].rows \/ <<j, 0, b>> \in accepted'

LEMMA AnswersKept ==
    ASSUME AnswersInv, TypeInv', AnswersGrow, NEW w \in Worker,
           \A v \in Worker \ {w} : workers'[v] = workers[v],
           workers'[w].pc # "idle" => NotesTrue(w)'
    PROVE  AnswersInv'
<1>1. AnswersAreTrue'
  BY DEF AnswersInv, AnswersAreTrue, AnswersGrow
<1>2. ASSUME NEW v \in Worker, workers'[v].pc # "idle" PROVE NotesTrue(v)'
  <2>1. CASE v = w
    BY <1>2, <2>1
  <2>2. CASE v # w
    <3>1. workers'[v] = workers[v] /\ workers[v].pc # "idle"
      BY <1>2, <2>2
    <3>2. NotesTrue(v) /\ workers[v].job \in Job
      BY <3>1, BusyJob DEF AnswersInv
    <3>3. QED
      BY <3>1, <3>2 DEF NotesTrue, AnswersGrow
  <2>3. QED
    BY <2>1, <2>2
<1>3. QED
  BY <1>1, <1>2 DEF AnswersInv

LEMMA KindsDiffer ==
    ASSUME NEW k
    PROVE  /\ k \in Connector \cup Single => k \notin Requested
           /\ k \in Tracked => k \in Requested /\ k \notin Privacy
BY DEF Connector, Single, Requested, Privacy, Tracked

LEMMA AnswersWork ==
    ASSUME AnswersInv, NEW w \in Worker, Work(w)
    PROVE  AnswersInv'
<1> DEFINE state == workers[w]
           job == workers[w].job
<1>1. TypeInv /\ TypeInv' /\ Moves(w) /\ Counts(w)
  BY WorkType DEF AnswersInv
<1>2. /\ workers'[w].job = job /\ job \in Job /\ kind' = kind
      /\ \A v \in Worker \ {w} : workers'[v] = workers[v]
      /\ NotesTrue(w)
      /\ workers[w] \in WorkerState
      /\ workers \in [Worker -> WorkerState]
  BY <1>1, BusyJob DEF Moves, AnswersInv, TypeInv, TypeOK
\* Nothing happens to results and requests, and notes are kept.
<1>3. ASSUME UNCHANGED <<requests, results, accepted>>,
             \/ kind[job] \notin Tracked
             \/ workers'[w].good = state.good /\ workers'[w].pc # "finish"
      PROVE  AnswersInv'
  <2>1. AnswersGrow
    BY <1>2, <1>3 DEF AnswersGrow
  <2>2. NotesTrue(w)'
    BY <1>2, <1>3 DEF NotesTrue
  <2>3. QED
    BY <1>1, <1>2, <2>1, <2>2, AnswersKept
<1>4. CASE LoadRequest(w)
  <2>1. /\ kind[job] \in Requested
        /\ UNCHANGED <<results, accepted>>
        /\ \A j \in Job : requests'[j].status = "complete" =>
                            requests[j].status = "complete"
    BY <1>1, <1>2, <1>4 DEF LoadRequest, At, effects, TypeInv, TypeOK
  <2> DEFINE pc == CASE kind[job] \in Tracked -> "work"
                     [] kind[job] = "privacy.export" -> "put"
                     [] kind[job] = "privacy.delete" -> "finish"
  <2>a. workers' = [workers EXCEPT ![w].pc = pc, ![w].next = 1]
    BY <1>4 DEF LoadRequest
  <2>b. kind[job] \in Tracked => pc = "work"
    BY DEF Tracked
  <2> HIDE DEF pc
  <2>2. kind[job] \in Tracked =>
          workers'[w].good = state.good /\ workers'[w].pc = "work"
    BY <1>2, <2>a, <2>b DEF WorkerState
  <2>3. AnswersGrow
    BY <1>2, <2>1 DEF AnswersGrow
  <2>4. NotesTrue(w)'
    BY <1>2, <2>1, <2>2 DEF NotesTrue
  <2>5. QED
    BY <1>1, <1>2, <2>3, <2>4, AnswersKept
<1>5. CASE StartRun(w) \/ CallOnce(w) \/ FinishRun(w) \/ LoseRecord(w)
           \/ CloseRun(w) \/ CommitSource(w)
  <2>1. kind[job] \in Connector \cup Single
    BY <1>1, <1>2, <1>5 DEF StartRun, CallOnce, FinishRun, LoseRecord, CloseRun,
       CommitSource, At, TypeInv, WorkerInv, Connector
  <2>2. UNCHANGED <<requests, results, accepted>>
    BY <1>5 DEF StartRun, CallOnce, FinishRun, LoseRecord, CloseRun,
       CommitSource, effects
  <2>3. QED
    BY <1>3, <2>1, <2>2, KindsDiffer
<1>6. CASE TakeBatch(w)
  <2>1. /\ UNCHANGED <<requests, results>>
        /\ accepted' = accepted \cup {KeyOf(w)} /\ state.pc = "work"
    BY <1>6 DEF TakeBatch, At
  <2>2. /\ workers'[w].good = state.good \cup {state.next}
        /\ workers'[w].pc = "work"
    BY <1>2, <1>6, <2>1 DEF TakeBatch, WorkerState
  <2>3. kind[job] = "profiles.import" => KeyOf(w) = <<job, 0, state.next>>
    BY DEF KeyOf
  <2>4. AnswersGrow
    BY <1>2, <2>1 DEF AnswersGrow
  <2>5. NotesTrue(w)'
    BY <1>2, <2>1, <2>2, <2>3 DEF NotesTrue
  <2>6. QED
    BY <1>1, <1>2, <2>4, <2>5, AnswersKept
<1>7. CASE RejectBatch(w)
  <2>1. /\ UNCHANGED <<requests, results, accepted>>
        /\ workers'[w].good = state.good /\ workers'[w].pc = "work"
    BY <1>2, <1>7 DEF RejectBatch, At, effects, WorkerState
  <2>2. QED
    BY <1>3, <2>1
<1>8. CASE EndWork(w)
  <2>1. UNCHANGED <<requests, accepted>>
    BY <1>8 DEF EndWork
  <2>2. /\ workers'[w].good = state.good
        /\ kind[job] \in {"profiles.import", "ai.generate"} =>
              workers'[w].pc = "put"
    BY <1>2, <1>8 DEF EndWork, Goto, WorkerState
  <2>3. /\ \A j \in Job : /\ results[j].kept => results'[j].kept
                          /\ results'[j].rows = results[j].rows
        /\ kind[job] = "scores.compute" => results'[job].kept
    <3>1. CASE kind[job] = "scores.compute"
      <4>1. results' = [results EXCEPT ![job].kept = TRUE]
        BY <1>8, <3>1 DEF EndWork
      <4>2. results \in [Job -> [kept : BOOLEAN, rows : SUBSET Nat]]
        BY <1>1 DEF TypeInv, TypeOK
      <4>3. QED
        BY <1>2, <4>1, <4>2
    <3>2. CASE kind[job] # "scores.compute"
      BY <1>8, <3>2 DEF EndWork
    <3>3. QED
      BY <3>1, <3>2
  <2>4. AnswersGrow
    BY <1>2, <2>1, <2>3 DEF AnswersGrow
  <2>5. NotesTrue(w)'
    BY <1>2, <2>1, <2>2, <2>3 DEF NotesTrue, Tracked
  <2>6. QED
    BY <1>1, <1>2, <2>4, <2>5, AnswersKept
<1>9. CASE PutBlob(w)
  <2>1. UNCHANGED <<requests, accepted>>
    BY <1>9 DEF PutBlob
  <2>2. workers'[w].good = state.good
    BY <1>2, <1>9 DEF PutBlob, WorkerState
  <2>3. /\ \A j \in Job : results[j].kept => results'[j].kept
        /\ \A j \in Job \ {job} : results'[j] = results[j]
        /\ kind[job] \in Tracked =>
              results'[job].kept /\ results'[job].rows = state.good
    BY <1>1, <1>2, <1>9 DEF PutBlob, TypeInv, TypeOK, Tracked
  <2>4. AnswersGrow
    BY <1>2, <2>1, <2>3 DEF AnswersGrow, NotesTrue
  <2>5. NotesTrue(w)'
    BY <1>2, <2>1, <2>2, <2>3 DEF NotesTrue
  <2>6. QED
    BY <1>1, <1>2, <2>4, <2>5, AnswersKept
<1>10. CASE CompleteRequest(w)
  <2>1. UNCHANGED <<results, accepted>> /\ state.pc = "finish"
    BY <1>10 DEF CompleteRequest, At, effects
  <2>2. \A j \in Job \ {job} : requests'[j] = requests[j]
    BY <1>1, <1>2, <1>10 DEF CompleteRequest, TypeInv, TypeOK
  <2>3. workers'[w].good = state.good /\ workers'[w].pc = "ok"
    BY <1>2, <1>10 DEF CompleteRequest, Succeed, Goto, WorkerState
  <2>4. AnswersGrow
    BY <1>2, <2>1, <2>2 DEF AnswersGrow, NotesTrue
  <2>5. NotesTrue(w)'
    BY <1>2, <2>1, <2>3 DEF NotesTrue
  <2>6. QED
    BY <1>1, <1>2, <2>4, <2>5, AnswersKept
<1>11. CASE AnswerRefused(w) \/ Deny(w)
  <2>1. /\ UNCHANGED <<requests, results, accepted>>
        /\ \E pc \in {"failed", "denied", "refused"} : Goto(w, pc)
    BY <1>11 DEF AnswerRefused, Deny, effects
  <2>2. workers'[w].good = state.good /\ workers'[w].pc # "finish"
    BY <1>2, <2>1 DEF Goto, WorkerState
  <2>3. QED
    BY <1>3, <2>1, <2>2
<1>12. CASE ExecutionFails(w)
  <2>1. UNCHANGED <<requests, results, accepted>>
    BY <1>12 DEF ExecutionFails, effects
  <2>2. AfterError(w) \in {"closing", "failed"}
    BY DEF AfterError
  <2>3. /\ workers'[w].good = state.good
        /\ workers'[w].pc = AfterError(w)
    BY <1>2, <1>12 DEF ExecutionFails, WorkerState
  <2>4. QED
    BY <1>3, <2>1, <2>2, <2>3
<1>13. QED
  BY <1>4, <1>5, <1>6, <1>7, <1>8, <1>9, <1>10, <1>11, <1>12 DEF Work

LEMMA AnswersQueue ==
    ASSUME AnswersInv, NEW w \in Worker, QueueStep(w)
    PROVE  AnswersInv'
<1>1. TypeInv /\ TypeInv'
  BY QueueType DEF AnswersInv
<1>2. CASE ClaimOperationJob(w)
  <2>1. PICK j \in Job :
          workers' = [workers EXCEPT ![w].pc = "load", ![w].job = j]
    BY <1>2 DEF ClaimOperationJob
  <2>2. UNCHANGED <<kind, requests, results, accepted>>
    BY <1>2 DEF ClaimOperationJob, effects
  <2>3. workers[w] = Idle
    BY <1>1, <1>2 DEF ClaimOperationJob, TypeInv, WorkerInv
  <2>4. workers'[w].good = {} /\ workers'[w].pc = "load"
    BY <1>1, <2>1, <2>3 DEF TypeInv, TypeOK, WorkerState, Idle
  <2>5. \A v \in Worker \ {w} : workers'[v] = workers[v]
    BY <1>1, <2>1 DEF TypeInv, TypeOK
  <2>6. NotesTrue(w)'
    BY <2>4 DEF NotesTrue
  <2>7. AnswersGrow
    BY <2>2 DEF AnswersGrow
  <2>8. QED
    BY <1>1, <2>5, <2>6, <2>7, AnswersKept
<1>3. CASE CompleteOperationJob(w) \/ FailOperationJob(w) \/ Crash(w)
  <2>1. /\ workers' = [workers EXCEPT ![w] = Idle]
        /\ UNCHANGED <<kind, results, accepted>>
        /\ requests' = requests \/ requests' =
              [requests EXCEPT ![workers[w].job].status = "failed"]
    BY <1>3 DEF CompleteOperationJob, FailOperationJob, Crash, effects
  <2>2. \A j \in Job : requests'[j].status = "complete" =>
                       requests[j].status = "complete"
    BY <1>1, <2>1, SMTT(30) DEF TypeInv, TypeOK
  <2>3. /\ workers'[w].pc = "idle"
        /\ \A v \in Worker \ {w} : workers'[v] = workers[v]
    BY <1>1, <2>1 DEF TypeInv, TypeOK, Idle
  <2>4. AnswersGrow
    BY <2>1, <2>2 DEF AnswersGrow
  <2>5. QED
    BY <1>1, <2>3, <2>4, AnswersKept
<1>4. QED
  BY <1>2, <1>3 DEF QueueStep

LEMMA AnswersJobStep ==
    ASSUME AnswersInv, NEW i \in Job, JobStep(i)
    PROVE  AnswersInv'
<1>1. TypeInv /\ TypeInv' /\ UNCHANGED <<kind, workers, effects, successes>>
  BY JobStepType DEF AnswersInv
<1>2. \A j \in Job : requests'[j].status = "complete" =>
                     requests[j].status = "complete"
  BY <1>1 DEF JobStep, Enqueues, Clock, Operate, CreateRequest, EnqueueImport,
     VerifyPrivacyRequest, EnqueueSingle, ClaimDueConnectorPipeline,
     ReplayConnectorRun, BackoffPasses, LeaseExpires, Overrun, RetryDeadLetter,
     DiscardDeadLetter, RejectPrivacyRequest, TypeInv, TypeOK
<1>3. AnswersAreTrue'
  BY <1>1, <1>2 DEF AnswersInv, AnswersAreTrue, effects
<1>4. \A w \in Worker : workers'[w].pc # "idle" => NotesTrue(w)'
  BY <1>1 DEF AnswersInv, NotesTrue, effects
<1>5. QED
  BY <1>1, <1>3, <1>4 DEF AnswersInv

LEMMA AnswersStep == AnswersInv /\ [Next]_vars => AnswersInv'
<1> SUFFICES ASSUME AnswersInv, [Next]_vars PROVE AnswersInv'
  OBVIOUS
<1>1. CASE UNCHANGED vars
  <2>1. TypeInv'
    BY TypeStep DEF AnswersInv
  <2>2. QED
    BY <1>1, <2>1 DEF AnswersInv, AnswersAreTrue, NotesTrue, vars, effects
<1>2. QED
  BY <1>1, NextCases, AnswersWork, AnswersQueue, AnswersJobStep

\* For any number of workers, faults and repeated attempts, whose writes are
\* all by id: a request that is complete has its result, and every row that
\* the report of an import calls imported was accepted.
THEOREM ReportsAreTrue == Spec => []AnswersAreTrue
<1>1. Init => AnswersInv
  <2> SUFFICES ASSUME Init PROVE AnswersInv
    OBVIOUS
  <2>1. AnswersAreTrue
    BY DEF Init, AnswersAreTrue
  <2>2. \A w \in Worker : workers[w].pc = "idle"
    BY DEF Init, Idle
  <2>3. QED
    BY <2>1, <2>2, TypeInit DEF AnswersInv
<1>2. AnswersInv => AnswersAreTrue
  BY DEF AnswersInv
<1>3. QED
  BY <1>1, <1>2, AnswersStep, PTL DEF Spec

-----------------------------------------------------------------------------
(***************************************************************************)
(* Runs are closed.                                                        *)
(***************************************************************************)

LEMMA OpenCount ==
    /\ Cardinality(OpenRuns) \in Nat /\ Cardinality(OpenRuns') \in Nat
    /\ \A w \in Worker :
          /\ w \in OpenRuns /\ OpenRuns' = OpenRuns \ {w} =>
                Cardinality(OpenRuns') + 1 = Cardinality(OpenRuns)
          /\ w \notin OpenRuns /\ OpenRuns' = OpenRuns \cup {w} =>
                Cardinality(OpenRuns') = Cardinality(OpenRuns) + 1
<1>1. OpenRuns \in SUBSET Worker /\ OpenRuns' \in SUBSET Worker
  BY DEF OpenRuns
<1>2. QED
  BY <1>1, WorkersCount

\* The open runs after a step of one worker.
LEMMA OpenRunsMove ==
    ASSUME NEW w \in Worker, kind' = kind,
           \A v \in Worker \ {w} : workers'[v] = workers[v]
    PROVE  /\ Running(w)' /\ Running(w) => OpenRuns' = OpenRuns
           /\ ~Running(w)' /\ ~Running(w) => OpenRuns' = OpenRuns
           /\ ~Running(w)' /\ Running(w) =>
                 w \in OpenRuns /\ OpenRuns' = OpenRuns \ {w}
           /\ Running(w)' /\ ~Running(w) =>
                 w \notin OpenRuns /\ OpenRuns' = OpenRuns \cup {w}
<1>1. \A v \in Worker \ {w} : Running(v)' <=> Running(v)
  BY DEF Running, At
<1>2. QED
  BY <1>1 DEF OpenRuns

\* A step that records nothing: the runs stay open, or a fault closes one.
LEMMA RunsKept ==
    ASSUME RunsInv, TypeInv', NEW w \in Worker, kind' = kind,
           runRows' = runRows,
           \A v \in Worker \ {w} : workers'[v] = workers[v],
           \/ faults' = faults /\ (Running(w)' <=> Running(w))
           \/ faults' = faults + 1 /\ ~Running(w)'
    PROVE  RunsInv'
<1>1. /\ runRows["running"] \in Nat /\ Closed \in Nat /\ faults \in Nat
      /\ faults' \in Nat
  BY DEF RunsInv, TypeInv, TypeOK, Closed
<1>2. Closed' = Closed /\ runRows'["running"] = runRows["running"]
  BY DEF Closed
<1>3. \/ OpenRuns' = OpenRuns /\ faults' \in {faults, faults + 1}
      \/ /\ Cardinality(OpenRuns') + 1 = Cardinality(OpenRuns)
         /\ faults' = faults + 1
  BY OpenCount, OpenRunsMove
<1>4. Cardinality(OpenRuns) \in Nat /\ Cardinality(OpenRuns') \in Nat
  BY OpenCount
<1>5. /\ Closed + Cardinality(OpenRuns) <= runRows["running"]
      /\ runRows["running"] <= Closed + Cardinality(OpenRuns) + faults
  BY DEF RunsInv
<1>6. /\ Closed' + Cardinality(OpenRuns') <= runRows'["running"]
      /\ runRows'["running"] <= Closed' + Cardinality(OpenRuns') + faults'
  BY <1>1, <1>2, <1>3, <1>4, <1>5
<1>7. QED
  BY <1>6 DEF RunsInv

\* A terminal row closes the run of the worker that writes it.
LEMMA RunsRecorded ==
    ASSUME RunsInv, TypeInv', NEW w \in Worker, kind' = kind,
           \A v \in Worker \ {w} : workers'[v] = workers[v],
           faults' = faults, Running(w), ~Running(w)',
           NEW status \in {"succeeded", "failed"}, RecordRun(w, status)
    PROVE  RunsInv'
<1>1. /\ runRows["running"] \in Nat /\ Closed \in Nat /\ faults \in Nat
  BY DEF RunsInv, TypeInv, TypeOK, Closed
<1>2. Closed' = Closed + 1 /\ runRows'["running"] = runRows["running"]
  BY DEF Closed, RecordRun, RunsInv, TypeInv, TypeOK
<1>3. Cardinality(OpenRuns') + 1 = Cardinality(OpenRuns)
  BY OpenCount, OpenRunsMove
<1>4. Cardinality(OpenRuns) \in Nat /\ Cardinality(OpenRuns') \in Nat
  BY OpenCount
<1>5. /\ Closed + Cardinality(OpenRuns) <= runRows["running"]
      /\ runRows["running"] <= Closed + Cardinality(OpenRuns) + faults
  BY DEF RunsInv
<1>6. /\ Closed' + Cardinality(OpenRuns') <= runRows'["running"]
      /\ runRows'["running"] <= Closed' + Cardinality(OpenRuns') + faults'
  BY <1>1, <1>2, <1>3, <1>4, <1>5
<1>7. QED
  BY <1>6 DEF RunsInv

LEMMA RunsStarted ==
    ASSUME RunsInv, TypeInv', NEW w \in Worker, kind' = kind,
           \A v \in Worker \ {w} : workers'[v] = workers[v],
           faults' = faults, ~Running(w), Running(w)',
           runRows' = [runRows EXCEPT !["running"] = @ + 1]
    PROVE  RunsInv'
<1>1. /\ runRows["running"] \in Nat /\ Closed \in Nat /\ faults \in Nat
  BY DEF RunsInv, TypeInv, TypeOK, Closed
<1>2. Closed' = Closed /\ runRows'["running"] = runRows["running"] + 1
  BY DEF Closed, RunsInv, TypeInv, TypeOK
<1>3. Cardinality(OpenRuns') = Cardinality(OpenRuns) + 1
  BY OpenCount, OpenRunsMove
<1>4. Cardinality(OpenRuns) \in Nat /\ Cardinality(OpenRuns') \in Nat
  BY OpenCount
<1>5. /\ Closed + Cardinality(OpenRuns) <= runRows["running"]
      /\ runRows["running"] <= Closed + Cardinality(OpenRuns) + faults
  BY DEF RunsInv
<1>6. /\ Closed' + Cardinality(OpenRuns') <= runRows'["running"]
      /\ runRows'["running"] <= Closed' + Cardinality(OpenRuns') + faults'
  BY <1>1, <1>2, <1>3, <1>4, <1>5
<1>7. QED
  BY <1>6 DEF RunsInv

\* The pcs of a worker between the first and the last row of a run.
InRun == {"work", "commit", "put", "finish", "closing", "denied"}

LEMMA RunsWork ==
    ASSUME RunsInv, NEW w \in Worker, Work(w)
    PROVE  RunsInv'
<1> DEFINE job == workers[w].job
<1>1. TypeInv /\ TypeInv' /\ Moves(w)
  BY WorkType DEF RunsInv
<1>2. /\ workers'[w].job = job /\ job \in Job /\ kind' = kind
      /\ \A v \in Worker \ {w} : workers'[v] = workers[v]
      /\ workers[w] \in WorkerState
      /\ workers \in [Worker -> WorkerState]
  BY <1>1, BusyJob DEF Moves, TypeInv, TypeOK
<1>3. /\ Running(w) <=> workers[w].pc \in InRun /\ kind[job] \in Connector
      /\ Running(w)' <=> workers'[w].pc \in InRun /\ kind[job] \in Connector
  BY <1>2 DEF Running, At, InRun
<1>4. CASE kind[job] \notin Connector
  <2>1. UNCHANGED runRows /\ faults' = faults
    BY <1>1, <1>4 DEF Work, LoadRequest, StartRun, CallOnce, Succeed, TakeBatch,
       RejectBatch, EndWork, CommitSource, PutBlob, CompleteRequest,
       AnswerRefused, FinishRun, CloseRun, LoseRecord, ExecutionFails, Deny, At,
       effects, ghosts, TypeInv, WorkerInv, Connector
  <2>2. QED
    BY <1>1, <1>2, <1>3, <1>4, <2>1, RunsKept
<1>5. CASE kind[job] \in Connector
  <2>1. kind[job] \notin Requested /\ kind[job] \notin Single
    BY <1>5, KindsDiffer DEF Connector, Single
  <2>2. CASE StartRun(w)
    <3>1. /\ workers[w].pc = "load" /\ workers'[w].pc = "work"
          /\ faults' = faults
          /\ runRows' = [runRows EXCEPT !["running"] = @ + 1]
      BY <1>2, <2>2 DEF StartRun, At, ghosts, WorkerState
    <3>2. Running(w)' /\ ~Running(w)
      BY <1>3, <1>5, <3>1 DEF InRun
    <3>3. QED
      BY <1>1, <1>2, <3>1, <3>2, RunsStarted
  <2>3. CASE FinishRun(w)
    <3>1. /\ workers[w].pc = "finish" /\ Goto(w, "ok") /\ faults' = faults
          /\ \E status \in {"succeeded", "failed"} : RecordRun(w, status)
      BY <2>3 DEF FinishRun, At, Succeed
    <3>2. workers'[w].pc = "ok"
      BY <1>2, <3>1 DEF Goto, WorkerState
    <3>3. Running(w) /\ ~Running(w)'
      BY <1>3, <1>5, <3>1, <3>2 DEF InRun
    <3>4. QED
      BY <1>1, <1>2, <3>1, <3>3, RunsRecorded
  <2>4. CASE CloseRun(w)
    <3>1. /\ workers[w].pc \in {"closing", "denied"}
          /\ \E pc \in {"failed", "refused"} : Goto(w, pc)
          /\ faults' = faults /\ RecordRun(w, "failed")
      BY <2>4 DEF CloseRun, ghosts
    <3>2. workers'[w].pc \in {"failed", "refused"}
      BY <1>2, <3>1 DEF Goto, WorkerState
    <3>3. Running(w) /\ ~Running(w)'
      BY <1>3, <1>5, <3>1, <3>2 DEF InRun
    <3>4. QED
      BY <1>1, <1>2, <3>1, <3>3, RunsRecorded
  <2>5. CASE LoseRecord(w)
    <3>1. Goto(w, "failed") /\ faults' = faults + 1 /\ runRows' = runRows
      BY <2>5 DEF LoseRecord, effects
    <3>2. workers'[w].pc = "failed"
      BY <1>2, <3>1 DEF Goto, WorkerState
    <3>3. ~Running(w)'
      BY <1>3, <3>2 DEF InRun
    <3>4. QED
      BY <1>1, <1>2, <3>1, <3>3, RunsKept
  <2>6. CASE ExecutionFails(w)
    <3>1. /\ runRows' = runRows /\ faults' = faults
          /\ workers'[w].pc = AfterError(w)
      BY <1>2, <2>6 DEF ExecutionFails, effects, ghosts, WorkerState
    <3>2. Running(w)' <=> Running(w)
      BY <1>3, <1>5, <3>1 DEF AfterError, InRun
    <3>3. QED
      BY <1>1, <1>2, <3>1, <3>2, RunsKept
  <2>7. CASE TakeBatch(w) \/ RejectBatch(w) \/ EndWork(w) \/ CommitSource(w)
             \/ PutBlob(w) \/ Deny(w)
    <3>1. /\ runRows' = runRows /\ faults' = faults
          /\ workers[w].pc \in {"work", "commit", "put"}
      BY <2>1, <2>7 DEF TakeBatch, RejectBatch, EndWork, CommitSource, PutBlob,
         Deny, At, effects, ghosts, Single
    <3>2. workers'[w].pc \in InRun
      <4>1. CASE TakeBatch(w) \/ RejectBatch(w)
        BY <1>2, <4>1 DEF TakeBatch, RejectBatch, At, WorkerState, InRun
      <4>2. CASE EndWork(w) \/ Deny(w)
        <5>1. \E pc \in InRun : Goto(w, pc)
          BY <2>1, <4>2 DEF EndWork, Deny, At, Single, InRun
        <5>2. QED
          BY <1>2, <5>1 DEF Goto, WorkerState
      <4>3. CASE CommitSource(w) \/ PutBlob(w)
        BY <1>2, <4>3 DEF CommitSource, PutBlob, WorkerState, InRun
      <4>4. QED
        BY <2>7, <4>1, <4>2, <4>3
    <3>3. Running(w)' <=> Running(w)
      BY <1>3, <3>1, <3>2 DEF InRun
    <3>4. QED
      BY <1>1, <1>2, <3>1, <3>3, RunsKept
  <2>8. ~(LoadRequest(w) \/ CallOnce(w) \/ CompleteRequest(w)
          \/ AnswerRefused(w))
    BY <2>1 DEF LoadRequest, CallOnce, CompleteRequest, AnswerRefused, At
  <2>9. QED
    BY <2>2, <2>3, <2>4, <2>5, <2>6, <2>7, <2>8 DEF Work
<1>6. QED
  BY <1>4, <1>5

LEMMA RunsStep == RunsInv /\ [Next]_vars => RunsInv'
<1> SUFFICES ASSUME RunsInv, [Next]_vars PROVE RunsInv'
  OBVIOUS
<1>1. TypeInv /\ TypeInv'
  BY TypeStep DEF RunsInv
<1>2. ASSUME NEW w \in Worker, QueueStep(w) PROVE RunsInv'
  <2>1. /\ kind' = kind /\ runRows' = runRows
        /\ \A v \in Worker \ {w} : workers'[v] = workers[v]
    BY <1>1, <1>2 DEF QueueStep, ClaimOperationJob, CompleteOperationJob,
       FailOperationJob, Crash, effects, TypeInv, TypeOK
  <2>2. workers'[w].pc \in {"idle", "load"}
    <3>1. workers \in [Worker -> WorkerState]
      BY <1>1 DEF TypeInv, TypeOK
    <3>2. CASE ClaimOperationJob(w)
      BY <3>1, <3>2 DEF ClaimOperationJob, WorkerState
    <3>3. CASE workers' = [workers EXCEPT ![w] = Idle]
      BY <3>1, <3>3 DEF Idle
    <3>4. QED
      BY <1>2, <3>2, <3>3 DEF QueueStep, CompleteOperationJob,
         FailOperationJob, Crash
  <2>3. ~Running(w)'
    BY <2>2 DEF Running, At
  <2>4. \/ faults' = faults /\ ~Running(w)
        \/ faults' = faults + 1
    BY <1>2 DEF QueueStep, ClaimOperationJob, CompleteOperationJob,
       FailOperationJob, Crash, ghosts, Running, At
  <2>5. QED
    BY <1>1, <2>1, <2>3, <2>4, RunsKept
<1>3. ASSUME UNCHANGED <<kind, workers, effects>>, faults' \in {faults, faults + 1}
      PROVE  RunsInv'
  <2>1. OpenRuns' = OpenRuns /\ Closed' = Closed /\ runRows' = runRows
    BY <1>3 DEF OpenRuns, Running, At, Closed, effects
  <2>2. /\ runRows["running"] \in Nat /\ Closed \in Nat /\ faults \in Nat
        /\ Cardinality(OpenRuns) \in Nat
    BY <1>1, OpenCount DEF TypeInv, TypeOK, Closed
  <2>3. QED
    BY <1>1, <1>3, <2>1, <2>2 DEF RunsInv
<1>4. ASSUME NEW j \in Job, JobStep(j) PROVE RunsInv'
  <2>1. faults' \in {faults, faults + 1}
    BY <1>4 DEF JobStep, Enqueues, Clock, Operate, CreateRequest, EnqueueImport,
       VerifyPrivacyRequest, EnqueueSingle, ClaimDueConnectorPipeline,
       ReplayConnectorRun, BackoffPasses, LeaseExpires, Overrun,
       RetryDeadLetter, DiscardDeadLetter, RejectPrivacyRequest, ghosts
  <2>2. QED
    BY <1>1, <1>3, <1>4, <2>1, JobStepType
<1>5. CASE UNCHANGED vars
  BY <1>3, <1>5 DEF vars, ghosts
<1>6. QED
  BY <1>2, <1>4, <1>5, NextCases, RunsWork

\* On every path out of the executors, for any number of workers and calls,
\* the run that was recorded as running gets one terminal row, and the runs
\* that lack theirs are at most those of workers still at work and of faults.
THEOREM EveryRunIsClosed == Spec => []RunsAreClosed
<1>1. Init => RunsInv
  <2> SUFFICES ASSUME Init PROVE RunsInv
    OBVIOUS
  <2>1. OpenRuns = {}
    BY DEF Init, OpenRuns, Running, At, Idle
  <2>2. Cardinality(OpenRuns) = 0
    BY <2>1, FS_EmptySet
  <2>3. Closed = 0 /\ runRows["running"] = 0 /\ faults = 0
    BY DEF Init, Closed
  <2>4. QED
    BY <2>2, <2>3, TypeInit DEF RunsInv
<1>2. RunsInv => RunsAreClosed
  <2> SUFFICES ASSUME RunsInv PROVE RunsAreClosed
    OBVIOUS
  <2>1. /\ runRows["running"] \in Nat /\ Closed \in Nat
        /\ Cardinality(OpenRuns) \in Nat
    BY OpenCount DEF RunsInv, TypeInv, TypeOK, Closed
  <2>2. Closed <= runRows["running"]
    BY <2>1 DEF RunsInv
  <2>3. QED
    BY <2>2 DEF RunsInv, RunsAreClosed, Closed
<1>3. QED
  BY <1>1, <1>2, RunsStep, PTL DEF Spec
-----------------------------------------------------------------------------
(***************************************************************************)
(* Jobs and requests agree.                                                *)
(***************************************************************************)

\* As long as no lease has been overrun, a worker has the lease of its job.
Leased(w) ==
    workers[w].pc # "idle" =>
        /\ jobs[workers[w].job].status = "processing"
        /\ jobs[workers[w].job].lease = w

\* A worker that has answered a request finds it answered when it completes
\* the job, and no request is refused for good.
Answered(j) ==
    \/ requests[j].status = "complete"
    \/ requests[j].status = "rejected" /\ calls > 0
Standing(w) ==
    workers[w].pc # "idle" /\ kind[workers[w].job] \in Requested =>
        /\ workers[w].pc # "refused"
        /\ workers[w].pc = "ok" => Answered(workers[w].job)

Settled(j) ==
    /\ jobs[j].status = "dead" =>
          requests[j].status \in {"failed", "rejected"}
    /\ jobs[j].status = "done" =>
          \/ requests[j].status = "complete"
          \/ requests[j].status \in {"failed", "rejected"} /\ calls > 0

Agrees ==
    /\ \A w \in Worker : Leased(w) /\ Standing(w)
    /\ \A j \in Job : kind[j] \in Requested => Settled(j)
AgreeInv == faults = 0 => Agrees

\* Two workers never have one job.
LEMMA OneHolder ==
    ASSUME TypeInv, Agrees, NEW w \in Worker, workers[w].pc # "idle",
           NEW v \in Worker, v # w, workers[v].pc # "idle"
    PROVE  workers[v].job # workers[w].job
BY DEF Agrees, Leased

\* What a step between the claim and the end of a job does to the request.
LEMMA AnswersOwn ==
    ASSUME TypeInv, NEW w \in Worker, Work(w)
    PROVE  /\ \A j \in Job : j # workers[w].job => requests'[j] = requests[j]
           /\ kind[workers[w].job] \in Requested =>
                /\ workers'[w].pc # "refused"
                /\ workers'[w].pc = "ok" =>
                      requests'[workers[w].job].status = "complete"
<1> DEFINE job == workers[w].job
<1>0. /\ workers \in [Worker -> WorkerState]
      /\ requests \in [Job -> [status : RequestStatus,
                               verification : Verification]]
  BY DEF TypeInv, TypeOK
<1>a. job \in Job
  BY BusyJob, WorkType DEF Moves
<1>1. CASE LoadRequest(w)
  <2> DEFINE pc == CASE kind[job] \in Tracked -> "work"
                     [] kind[job] = "privacy.export" -> "put"
                     [] kind[job] = "privacy.delete" -> "finish"
  <2>1. kind[job] \in Requested
    BY <1>1 DEF LoadRequest, At
  <2>2. pc \in {"work", "put", "finish"}
    BY <2>1 DEF Requested, Privacy, Tracked
  <2>3. workers' = [workers EXCEPT ![w].pc = pc, ![w].next = 1]
    BY <1>1 DEF LoadRequest
  <2> HIDE DEF pc
  <2>4. workers'[w].pc = pc
    BY <1>0, <2>3 DEF WorkerState
  <2>5. requests' = requests
        \/ requests' = [requests EXCEPT ![job].status = "processing"]
    BY <1>1 DEF LoadRequest
  <2> QED
    BY <1>0, <2>2, <2>4, <2>5
<1>2. CASE CompleteRequest(w)
  <2>1. requests' = [requests EXCEPT ![job].status = "complete"]
    BY <1>2 DEF CompleteRequest
  <2>2. workers'[w].pc = "ok"
    BY <1>0, <1>2 DEF CompleteRequest, Succeed, Goto, WorkerState
  <2> QED
    BY <1>0, <1>a, <2>1, <2>2
<1>3. CASE StartRun(w) \/ CallOnce(w) \/ FinishRun(w) \/ CommitSource(w)
           \/ CloseRun(w) \/ LoseRecord(w) \/ Deny(w)
  <2>1. kind[job] \notin Requested
    BY <1>3 DEF StartRun, CallOnce, FinishRun, CommitSource, CloseRun,
                LoseRecord, Deny, At, TypeInv, WorkerInv, Connector, Single,
                Requested, Privacy, Tracked
  <2>2. requests' = requests
    BY <1>3 DEF StartRun, CallOnce, FinishRun, CommitSource, CloseRun,
                LoseRecord, Deny
  <2> QED
    BY <2>1, <2>2
<1>4. CASE TakeBatch(w) \/ RejectBatch(w)
  <2>1. requests' = requests /\ workers[w].pc = "work"
    BY <1>4 DEF TakeBatch, RejectBatch, At
  <2>2. workers'[w].pc = workers[w].pc
    BY <1>0, <1>4 DEF TakeBatch, RejectBatch, WorkerState
  <2> QED
    BY <2>1, <2>2
<1>5. CASE EndWork(w)
  <2> DEFINE pc == CASE kind[job] \in {"profiles.import", "ai.generate"} -> "put"
                     [] kind[job] = "warehouse.sync" -> "commit"
                     [] OTHER -> "finish"
  <2>1. pc \in {"put", "commit", "finish"}
    OBVIOUS
  <2>2. Goto(w, pc) /\ requests' = requests
    BY <1>5 DEF EndWork
  <2> HIDE DEF pc
  <2>3. workers'[w].pc = pc
    BY <1>0, <2>2 DEF Goto, WorkerState
  <2> QED
    BY <2>1, <2>2, <2>3
<1>6. CASE PutBlob(w)
  <2>1. workers'[w].pc = "finish" /\ requests' = requests
    BY <1>0, <1>6 DEF PutBlob, WorkerState
  <2> QED
    BY <2>1
<1>7. CASE AnswerRefused(w)
  <2>1. workers'[w].pc = "failed" /\ requests' = requests
    BY <1>0, <1>7 DEF AnswerRefused, Goto, WorkerState
  <2> QED
    BY <2>1
<1>8. CASE ExecutionFails(w)
  <2>1. AfterError(w) \in {"closing", "failed"}
    BY DEF AfterError
  <2>2. workers'[w].pc = AfterError(w) /\ requests' = requests
    BY <1>0, <1>8 DEF ExecutionFails, WorkerState
  <2> QED
    BY <2>1, <2>2
<1> QED
  BY <1>1, <1>2, <1>3, <1>4, <1>5, <1>6, <1>7, <1>8 DEF Work

LEMMA AgreeWork ==
    ASSUME TypeInv, AgreeInv, NEW w \in Worker, Work(w)
    PROVE  AgreeInv'
<1> SUFFICES ASSUME faults' = 0 PROVE Agrees'
  BY DEF AgreeInv
<1> DEFINE job == workers[w].job
<1>1. Moves(w) /\ Counts(w)
  BY WorkType
<1>2. faults = 0 /\ Agrees
  BY <1>1 DEF AgreeInv, Counts, TypeInv, TypeOK
<1>3. /\ \A j \in Job : j # job => requests'[j] = requests[j]
      /\ kind[job] \in Requested =>
           /\ workers'[w].pc # "refused"
           /\ workers'[w].pc = "ok" => requests'[job].status = "complete"
  BY AnswersOwn
<1>4. ASSUME NEW v \in Worker PROVE Leased(v)' /\ Standing(v)'
  <2>1. CASE v = w
    BY <1>1, <1>2, <1>3, <2>1 DEF Agrees, Leased, Standing, Answered, Moves
  <2>2. CASE v # w
    <3>1. workers'[v] = workers[v] /\ UNCHANGED <<kind, jobs, calls>>
      BY <1>1, <2>2 DEF Moves
    <3>2. workers[v].pc # "idle" => requests'[workers[v].job] = requests[workers[v].job]
      BY <1>1, <1>2, <1>3, <2>2, OneHolder, BusyJob DEF Moves
    <3> QED
      BY <1>2, <3>1, <3>2 DEF Agrees, Leased, Standing, Answered
  <2> QED
    BY <2>1, <2>2
<1>5. ASSUME NEW j \in Job, kind[j] \in Requested PROVE Settled(j)'
  <2>1. UNCHANGED <<jobs, calls>>
    BY <1>1 DEF Moves
  <2>2. CASE j = job
    BY <1>1, <1>2, <2>1, <2>2 DEF Agrees, Leased, Settled, Moves
  <2>3. CASE j # job
    BY <1>2, <1>3, <1>5, <2>1, <2>3 DEF Agrees, Settled
  <2> QED
    BY <2>2, <2>3
<1> QED
  BY <1>1, <1>4, <1>5 DEF Agrees, Moves

\* The claim of a job nobody has a lease of, and the writes that end a job.
LEMMA AgreeQueue ==
    ASSUME TypeInv, AgreeInv, NEW w \in Worker, QueueStep(w)
    PROVE  AgreeInv'
<1> SUFFICES ASSUME faults' = 0 PROVE Agrees'
  BY DEF AgreeInv
<1>0. /\ workers \in [Worker -> WorkerState] /\ jobs \in [Job -> JobRow]
      /\ requests \in [Job -> [status : RequestStatus,
                               verification : Verification]]
      /\ faults \in Nat
  BY DEF TypeInv, TypeOK
<1>a. ~Crash(w)
  BY <1>0 DEF Crash
<1>b. faults = 0 /\ Agrees /\ UNCHANGED <<kind, calls>>
  BY <1>a DEF QueueStep, ClaimOperationJob, CompleteOperationJob,
              FailOperationJob, ghosts, AgreeInv
<1>1. CASE ClaimOperationJob(w)
  <2>1. PICK j \in Job :
          /\ Claimable(j)
          /\ jobs' = [jobs EXCEPT ![j].status = "processing",
                                  ![j].attempts = @ + 1, ![j].lease = w]
          /\ workers' = [workers EXCEPT ![w].pc = "load", ![w].job = j]
    BY <1>1 DEF ClaimOperationJob
  <2>2. requests' = requests
    BY <1>1 DEF ClaimOperationJob
  <2>3. /\ workers'[w].pc = "load" /\ workers'[w].job = j
        /\ \A v \in Worker \ {w} : workers'[v] = workers[v]
    BY <1>0, <2>1 DEF WorkerState
  <2>4. /\ jobs'[j].status = "processing" /\ jobs'[j].lease = w
        /\ \A i \in Job \ {j} : jobs'[i] = jobs[i]
    BY <1>0, <2>1 DEF JobRow
  <2>5. ASSUME NEW v \in Worker \ {w}, workers[v].pc # "idle"
        PROVE  workers[v].job \in Job \ {j}
    BY <1>b, <2>1, <2>5, BusyJob, OperationsAssumption DEF Agrees, Leased, Claimable
  <2>6. ASSUME NEW v \in Worker PROVE Leased(v)' /\ Standing(v)'
    BY <1>b, <2>2, <2>3, <2>4, <2>5 DEF Agrees, Leased, Standing, Answered
  <2>7. ASSUME NEW i \in Job, kind[i] \in Requested PROVE Settled(i)'
    BY <1>b, <2>2, <2>4, <2>7 DEF Agrees, Settled
  <2> QED
    BY <1>b, <2>6, <2>7 DEF Agrees
<1>2. CASE CompleteOperationJob(w) \/ FailOperationJob(w)
  <2>0. PICK j \in Job : j = workers[w].job
    BY <1>2, BusyJob DEF CompleteOperationJob, FailOperationJob
  <2>1. workers[w].pc # "idle"
    BY <1>2 DEF CompleteOperationJob, FailOperationJob
  <2>2. /\ workers'[w].pc = "idle"
        /\ \A v \in Worker \ {w} : workers'[v] = workers[v]
    BY <1>0, <1>2 DEF CompleteOperationJob, FailOperationJob, Idle
  <2>3. \A i \in Job \ {j} : jobs'[i] = jobs[i] /\ requests'[i] = requests[i]
    BY <1>0, <1>2, <2>0 DEF CompleteOperationJob, FailOperationJob
  <2>4. \A v \in Worker \ {w} : workers[v].pc # "idle" => workers[v].job \in Job \ {j}
    BY <1>b, <2>0, <2>1, OneHolder, BusyJob
  <2>5. ASSUME NEW v \in Worker PROVE Leased(v)' /\ Standing(v)'
    BY <1>b, <2>2, <2>3, <2>4 DEF Agrees, Leased, Standing, Answered
  <2>6. ASSUME kind[j] \in Requested PROVE Settled(j)'
    <3>1. CASE CompleteOperationJob(w)
      <4>1. workers[w].pc = "ok" /\ requests' = requests /\ jobs'[j].status = "done"
        BY <1>0, <2>0, <2>1, <3>1 DEF CompleteOperationJob, JobRow
      <4> QED
        BY <1>b, <2>0, <2>6, <4>1 DEF Agrees, Standing, Answered, Settled
    <3>2. CASE FailOperationJob(w)
      <4>1. workers[w].pc = "failed"
        BY <1>b, <2>0, <2>1, <2>6, <3>2 DEF FailOperationJob, Agrees, Standing
      <4>2. jobs'[j].status = FailedStatus(j, FALSE)
        BY <1>0, <2>0, <2>1, <3>2, <4>1 DEF FailOperationJob, JobRow
      <4>3. requests' = IF FailsRequest(j, FALSE)
                          THEN [requests EXCEPT ![j].status = "failed"]
                          ELSE requests
        BY <2>0, <3>2, <4>1 DEF FailOperationJob
      <4>4. CASE Spent(j)
        <5>1. requests'[j].status = "failed" /\ jobs'[j].status = "dead"
          BY <1>0, <2>0, <2>1, <2>6, <4>2, <4>3, <4>4 DEF FailsRequest, FailedStatus
        <5> QED
          BY <5>1 DEF Settled
      <4>5. CASE ~Spent(j)
        BY <4>2, <4>5 DEF FailedStatus, Settled
      <4> QED
        BY <4>4, <4>5
    <3> QED
      BY <1>2, <3>1, <3>2
  <2>7. ASSUME NEW i \in Job, kind[i] \in Requested PROVE Settled(i)'
    <3>1. CASE i = j
      BY <2>6, <2>7, <3>1
    <3>2. CASE i # j
      BY <1>b, <2>3, <2>7, <3>2 DEF Agrees, Settled
    <3> QED
      BY <3>1, <3>2
  <2> QED
    BY <1>b, <2>5, <2>7 DEF Agrees
<1> QED
  BY <1>a, <1>1, <1>2 DEF QueueStep

LEMMA AgreeJobStep ==
    ASSUME PaidInv, AgreeInv, NEW i \in Job, JobStep(i)
    PROVE  AgreeInv'
<1> SUFFICES ASSUME faults' = 0 PROVE Agrees'
  BY DEF AgreeInv
<1>0. /\ jobs \in [Job -> JobRow] /\ faults \in Nat /\ calls \in Nat
      /\ requests \in [Job -> [status : RequestStatus,
                               verification : Verification]]
  BY DEF PaidInv, TypeInv, TypeOK
<1>1. UNCHANGED <<kind, workers>>
  BY JobStepType DEF PaidInv
<1>2. ~Overrun(i)
  BY <1>0 DEF Overrun
<1>3. faults = 0 /\ Agrees
  BY <1>2 DEF JobStep, Enqueues, Clock, Operate, CreateRequest, EnqueueImport,
     VerifyPrivacyRequest, EnqueueSingle, ClaimDueConnectorPipeline,
     ReplayConnectorRun, BackoffPasses, LeaseExpires, RetryDeadLetter,
     DiscardDeadLetter, RejectPrivacyRequest, ghosts, AgreeInv
<1> DEFINE Others == \A j \in Job \ {i} : jobs'[j] = jobs[j] /\ requests'[j] = requests[j]
           Later == calls' \in Nat /\ calls <= calls'
           Kept == jobs'[i] = jobs[i] \/ jobs[i].status # "processing"
                   \/ \A w \in Worker : Leased(w) => workers[w].pc = "idle" \/ workers[w].job # i
           Still == Answered(i) => Answered(i)'
           End == kind[i] \in Requested => Settled(i)'
<1>4. ASSUME Others, Later, Kept, Still, End PROVE Agrees'
  <2>1. ASSUME NEW w \in Worker PROVE Leased(w)' /\ Standing(w)'
    <3>1. Leased(w) /\ Standing(w)
      BY <1>3 DEF Agrees
    <3>2. workers[w].pc # "idle" => workers[w].job \in Job
      BY BusyJob DEF PaidInv
    <3>3. CASE workers[w].job = i
      BY <1>1, <1>4, <3>1, <3>2, <3>3 DEF Leased, Standing
    <3>4. CASE workers[w].job # i
      BY <1>0, <1>1, <1>4, <3>1, <3>2, <3>4 DEF Leased, Standing, Answered
    <3> QED
      BY <3>3, <3>4
  <2>2. ASSUME NEW j \in Job, kind[j] \in Requested PROVE Settled(j)'
    <3>1. CASE j = i
      BY <1>4, <2>2, <3>1
    <3>2. CASE j # i
      BY <1>0, <1>3, <1>4, <2>2, <3>2 DEF Agrees, Settled
    <3> QED
      BY <3>1, <3>2
  <2> QED
    BY <1>1, <2>1, <2>2 DEF Agrees
<1>5. CASE CreateRequest(i)
  <2>1. jobs[i].status = "none"
    BY <1>5 DEF CreateRequest, PaidInv, QueuedInv
  <2>2. jobs'[i].status \in {"none", "pending"} /\ Others /\ Later
    BY <1>0, <1>5, <2>1 DEF CreateRequest, Enqueue, NewJob, ghosts
  <2>3. Still
    BY <1>5 DEF CreateRequest, Answered
  <2> QED
    BY <1>4, <2>1, <2>2, <2>3 DEF Settled
<1>6. CASE EnqueueImport(i) \/ EnqueueSingle(i) \/ ClaimDueConnectorPipeline(i)
           \/ ReplayConnectorRun(i) \/ RetryDeadLetter(i)
  <2>1. PICK c : Enqueue(i, c)
    BY <1>6 DEF EnqueueImport, EnqueueSingle, ClaimDueConnectorPipeline,
                ReplayConnectorRun, RetryDeadLetter, Enqueue
  <2>2. jobs'[i].status = "pending" /\ \A j \in Job \ {i} : jobs'[j] = jobs[j]
    BY <1>0, <2>1 DEF Enqueue, NewJob
  <2>3. jobs[i].status # "processing" /\ requests' = requests /\ Later
    BY <1>0, <1>6 DEF EnqueueImport, EnqueueSingle, ClaimDueConnectorPipeline,
                ReplayConnectorRun, RetryDeadLetter, ghosts
  <2> QED
    BY <1>0, <1>4, <2>2, <2>3 DEF Settled, Answered
<1>7. CASE VerifyPrivacyRequest(i)
  <2>1. jobs[i].status = "none"
    BY <1>7 DEF VerifyPrivacyRequest, PaidInv, QueuedInv, Requested
  <2>2. jobs'[i].status = "pending" /\ Others /\ Later
    BY <1>0, <1>7 DEF VerifyPrivacyRequest, Enqueue, NewJob, ghosts
  <2>3. Still
    BY <1>0, <1>7 DEF VerifyPrivacyRequest, Answered, ghosts
  <2> QED
    BY <1>4, <2>1, <2>2, <2>3 DEF Settled
<1>8. CASE BackoffPasses(i)
  <2>1. jobs[i].status = "pending" /\ jobs'[i].status = "pending"
    BY <1>0, <1>8 DEF BackoffPasses, JobRow
  <2>2. Others /\ Later /\ Still
    BY <1>0, <1>8 DEF BackoffPasses, Answered, ghosts
  <2> QED
    BY <1>4, <2>1, <2>2 DEF Settled
<1>9. CASE LeaseExpires(i)
  <2>1. jobs'[i].status = "processing" /\ workers[jobs[i].lease].job # i
    BY <1>0, <1>9 DEF LeaseExpires, JobRow
  <2>2. Others /\ Later /\ Still
    BY <1>0, <1>9 DEF LeaseExpires, Answered, ghosts
  <2>3. Kept
    BY <2>1 DEF Leased
  <2> QED
    BY <1>4, <2>1, <2>2, <2>3 DEF Settled
<1>10. CASE DiscardDeadLetter(i)
  <2>1. jobs[i].status = "dead" /\ jobs'[i].status = "done"
    BY <1>0, <1>10 DEF DiscardDeadLetter, JobRow
  <2>2. Others /\ Later /\ Still /\ requests' = requests /\ calls' > 0
    BY <1>0, <1>10 DEF DiscardDeadLetter, Answered
  <2>3. End
    BY <1>3, <2>1, <2>2 DEF Agrees, Settled
  <2> QED
    BY <1>4, <2>1, <2>2, <2>3
<1>11. CASE RejectPrivacyRequest(i)
  <2>1. jobs' = jobs /\ requests'[i].status = "rejected" /\ calls' > 0
    BY <1>0, <1>11 DEF RejectPrivacyRequest
  <2>2. Others /\ Later
    BY <1>0, <1>11 DEF RejectPrivacyRequest
  <2> QED
    BY <1>4, <2>1, <2>2 DEF Settled, Answered
<1> QED
  BY <1>2, <1>5, <1>6, <1>7, <1>8, <1>9, <1>10, <1>11
     DEF JobStep, Enqueues, Clock, Operate

\* For any jobs, workers and calls of operators and reviewers: as long as no
\* process has died, overrun its lease or lost a run record, a job that is
\* dead has taken its request with it, and one that is done has its request
\* answered, or an operator or a reviewer has intervened.  The writes that end
\* a job are by id and unfenced; what keeps them from ending the job of
\* another worker is the lease alone.
THEOREM RequestsFollowTheirJobs == Spec => []RequestsAgree
<1>1. Init => AgreeInv
  <2> SUFFICES ASSUME Init PROVE Agrees
    BY DEF AgreeInv
  <2>1. \A w \in Worker : workers[w].pc = "idle"
    BY DEF Init, Idle
  <2>2. \A j \in Job : jobs[j].status = "none"
    BY DEF Init, NoRow
  <2> QED
    BY <2>1, <2>2 DEF Agrees, Leased, Standing, Settled
<1>2. PaidInv /\ AgreeInv /\ [Next]_vars => AgreeInv'
  <2> SUFFICES ASSUME PaidInv, AgreeInv, [Next]_vars PROVE AgreeInv'
    OBVIOUS
  <2>1. TypeInv
    BY DEF PaidInv
  <2>2. CASE UNCHANGED vars
    BY <2>2 DEF AgreeInv, Agrees, Leased, Standing, Answered, Settled, vars, ghosts
  <2> QED
    BY <2>1, <2>2, NextCases, AgreeWork, AgreeQueue, AgreeJobStep
<1>3. AgreeInv => RequestsAgree
  BY DEF AgreeInv, Agrees, Settled, RequestsAgree
<1> QED
  BY <1>1, <1>2, <1>3, PaidInit, PaidStep, PTL DEF Spec
=============================================================================
