------------------------ MODULE JourneyRuntimeProofs ------------------------
(***************************************************************************)
(* Machine-checked proofs about the journey runtime.                       *)
(***************************************************************************)
EXTENDS JourneyRuntimeInv, TLAPS

\* A worker that is not idle has a full local state.
LEMMA BusyState ==
    ASSUME TypeOK, NEW w \in Worker, workers[w].pc # "idle"
    PROVE  /\ workers[w] \in WorkerState
           /\ workers[w].step \in Step
           /\ RunOf(workers[w].step) \in Run
           /\ workers[w].node \in Node
           /\ workers[w].kind \in Kind
           /\ workers[w].res \in Result
<1>1. workers[w] \in WorkerState
  BY DEF TypeOK, IdleWorker
<1> QED
  BY <1>1 DEF WorkerState, Step, RunOf

\* A fresh step id belongs to its run and names no row.
LEMMA FreshStepIsFresh ==
    ASSUME NEW r \in Run, HasFreshStep(r)
    PROVE  /\ FreshStep(r) \in Step
           /\ RunOf(FreshStep(r)) = r
           /\ steps[FreshStep(r)].status = "none"
  BY DEF HasFreshStep, FreshStep

LEMMA RowTypes ==
    /\ NotEnrolled \in RunRow
    /\ NoStep \in StepRow
    /\ NoResult \in Result
    /\ \A n \in Node, k \in Kind, wh \in When : NewStep(n, k, wh) \in StepRow
    /\ \A row \in StepRow : /\ Completed(row) \in StepRow
                            /\ ClaimedRow(row) \in StepRow
                            /\ FailedRow(row) \in StepRow
                            /\ \A wh \in When : RequeuedRow(row, wh) \in StepRow
<1>1. NotEnrolled \in RunRow
  BY GraphAssumption DEF NotEnrolled, RunRow, RunStatus
<1>2. NoStep \in StepRow
  BY GraphAssumption DEF NoStep, StepRow, Kind, StepStatus, When
<1>3. NoResult \in Result
  BY GraphAssumption DEF NoResult, Result, RunStatus, Kind, Outcome
<1>4. \A n \in Node, k \in Kind, wh \in When : NewStep(n, k, wh) \in StepRow
  BY DEF NewStep, StepRow, StepStatus
<1>5. \A row \in StepRow : Completed(row) \in StepRow
  BY DEF Completed, StepRow, StepStatus, When
<1>6. ASSUME NEW row \in StepRow PROVE ClaimedRow(row) \in StepRow
  <2>1. row.attempts + 1 \in Nat
    BY DEF StepRow
  <2> QED
    BY <2>1 DEF ClaimedRow, StepRow, StepStatus
<1>7. ASSUME NEW row \in StepRow PROVE FailedRow(row) \in StepRow
  <2>1. CASE row.attempts >= MaxAttempts
    BY <2>1 DEF FailedRow, StepRow, StepStatus, When
  <2>2. CASE ~(row.attempts >= MaxAttempts)
    BY <2>2 DEF FailedRow, StepRow, StepStatus, When
  <2> QED
    BY <2>1, <2>2
<1>8. \A row \in StepRow, wh \in When : RequeuedRow(row, wh) \in StepRow
  BY DEF RequeuedRow, StepRow, StepStatus
<1> QED
  BY <1>1, <1>2, <1>3, <1>4, <1>5, <1>6, <1>7, <1>8

\* The four groups of node types do not overlap.
LEMMA TypesDisjoint ==
    /\ StraightTypes \cap BranchTypes = {}
    /\ "exit" \notin StraightTypes \cup BranchTypes
    /\ "wait_event" \notin StraightTypes \cup BranchTypes
  BY DEF StraightTypes, BranchTypes

\* Every result execute can compute from a run row is well typed.
LEMMA ResultTypes ==
    ASSUME NEW snap \in RunRow, NEW n \in Node, NEW kind \in Kind
    PROVE  /\ \A res \in ExecuteResults(snap, n, kind) : res \in Result
           /\ \A res \in SkipResults(snap, n) : res \in Result
<1>1. \A e \in Out(n) : e.to \in Node
  BY GraphAssumption DEF Out
<1>2. NodeType[n] \in Outcome
  BY GraphAssumption DEF Outcome
<1>3. {"branch", "exited", "timeout", "waiting", "skipped"} \subseteq Outcome
  BY DEF Outcome
<1> USE DEF Result, RunRow, Kind
<1>4. \A m \in Node : StraightResult(snap, n, m) \in Result
  BY <1>2, ZenonT(60) DEF StraightResult, Moved
<1>5. \A m \in Node, b \in Outcome : Moved(snap, m, b) \in Result
  BY DEF Moved
<1>6. /\ EndResult(snap, "exited") \in Result
      /\ SkipEnd(snap) \in Result
  BY <1>3 DEF EndResult, SkipEnd, Moved, RunStatus
<1>7. WaitResult(snap, n) \in Result
  BY <1>3, GraphAssumption DEF WaitResult, Moved, RunStatus
<1>8. \A m \in Node : /\ TimeoutResult(snap, m) \in Result
                      /\ SkipResult(snap, m) \in Result
  BY <1>3 DEF TimeoutResult, SkipResult, Moved, RunStatus
<1> HIDE DEF Result, RunRow, Kind
<1>9. \A res \in ExecuteResults(snap, n, kind) : res \in Result
  <2>1. CASE NodeType[n] \in StraightTypes
    <3>1. ExecuteResults(snap, n, kind) = ExecStraight(snap, n)
      BY <2>1, TypesDisjoint DEF ExecuteResults
    <3> QED
      BY <1>1, <1>4, <3>1 DEF ExecStraight
  <2>2. CASE NodeType[n] \in BranchTypes
    <3>1. ExecuteResults(snap, n, kind) = ExecBranch(snap, n)
      BY <2>2, TypesDisjoint DEF ExecuteResults
    <3> QED
      BY <1>1, <1>3, <1>5, <3>1 DEF ExecBranch
  <2>3. CASE NodeType[n] = "exit"
    BY <1>6, <2>3, TypesDisjoint DEF ExecuteResults
  <2>4. CASE NodeType[n] = "wait_event"
    <3>1. ExecuteResults(snap, n, kind) = ExecWait(snap, n, kind)
      BY <2>4, TypesDisjoint DEF ExecuteResults
    <3> QED
      BY <1>1, <1>7, <1>8, <3>1 DEF ExecWait
  <2> QED
    BY <2>1, <2>2, <2>3, <2>4, GraphAssumption DEF NodeTypes
<1>10. \A res \in SkipResults(snap, n) : res \in Result
  BY <1>1, <1>6, <1>8 DEF SkipResults
<1> QED
  BY <1>9, <1>10

-----------------------------------------------------------------------------
(***************************************************************************)
(* Type correctness.                                                       *)
(***************************************************************************)

LEMMA InitTypeOK == Init => TypeOK
<1> SUFFICES ASSUME Init PROVE TypeOK
  OBVIOUS
<1>1. runs \in [Run -> RunRow] /\ steps \in [Step -> StepRow]
  BY RowTypes DEF Init
<1>2. transitions \in [Run -> Seq(Transition)]
  BY DEF Init
<1>3. workers \in [Worker -> WorkerState \cup {IdleWorker}]
  BY DEF Init
<1>4. projectors \in [Projector -> ProjectorState]
  BY DEF Init, IdleProjector, ProjectorState
<1> QED
  BY <1>1, <1>2, <1>3, <1>4 DEF Init, TypeOK

\* Setting the state of a held row keeps the table well typed.
LEMMA SweepType == ASSUME TypeOK PROVE Sweep \in [Step -> StepRow]
  BY DEF TypeOK, Sweep, StepRow, StepStatus

LEMMA FailingType ==
    ASSUME TypeOK, NEW w \in Worker, workers[w].pc # "idle"
    PROVE  Failing(w) \in WorkerState
<1>1. workers[w] \in WorkerState
  BY BusyState
<1> QED
  BY <1>1, RowTypes DEF Failing, WorkerState, PC

LEMMA ExecutedType ==
    ASSUME TypeOK, NEW w \in Worker, workers[w].pc # "idle", NEW res \in Result
    PROVE  Executed(w, res) \in WorkerState
<1>1. workers[w] \in WorkerState
  BY BusyState
<1> QED
  BY <1>1, RowTypes DEF Executed, WorkerState, PC

LEMMA ClaimType ==
    ASSUME TypeOK, NEW w \in Worker, NEW s \in Step, ClaimJourneyStep(w, s)
    PROVE  TypeOK'
<1>1. Sweep \in [Step -> StepRow]
  BY SweepType
<1>2. steps[s] \in StepRow
  BY DEF TypeOK
<1>3. steps' \in [Step -> StepRow]
  BY <1>1, RowTypes DEF ClaimJourneyStep
<1>4. workers' \in [Worker -> WorkerState \cup {IdleWorker}]
  BY <1>2, RowTypes DEF ClaimJourneyStep, TypeOK, WorkerState, PC, StepRow
<1> QED
  BY <1>3, <1>4 DEF ClaimJourneyStep, TypeOK

LEMMA ExecuteType ==
    ASSUME TypeOK, NEW w \in Worker,
           \/ Execute(w) \/ ExecuteAction(w)
           \/ SkipLate(w)
    PROVE  TypeOK'
<1>1. workers[w].pc # "idle"
  BY DEF Execute, ExecuteAction, SkipLate
<1>2. /\ workers[w] \in WorkerState
      /\ RunOf(workers[w].step) \in Run
      /\ workers[w].node \in Node /\ workers[w].kind \in Kind
  BY <1>1, BusyState
<1>3. runs[RunOf(workers[w].step)] \in RunRow
  BY <1>2 DEF TypeOK
<1>4. CASE Execute(w)
  <2>1. PICK res \in ExecuteResults(runs[RunOf(workers[w].step)],
                       workers[w].node, workers[w].kind) :
          workers' = [workers EXCEPT ![w] = Executed(w, res)]
    BY <1>4 DEF Execute
  <2>2. res \in Result
    BY <1>2, <1>3, ResultTypes
  <2>3. workers' \in [Worker -> WorkerState \cup {IdleWorker}]
    BY <1>1, <2>1, <2>2, ExecutedType DEF TypeOK
  <2> QED
    BY <1>4, <2>3 DEF Execute, TypeOK
<1>5. CASE ExecuteAction(w)
  <2>1. workers' \in [Worker -> WorkerState \cup {IdleWorker}]
    BY <1>1, <1>5, FailingType DEF ExecuteAction, TypeOK
  <2>2. updated' \subseteq Run \X Node
    BY <1>2, <1>5 DEF ExecuteAction, TypeOK
  <2> QED
    BY <1>5, <2>1, <2>2 DEF ExecuteAction, TypeOK
<1>7. CASE SkipLate(w)
  <2>1. PICK res \in SkipResults(runs[RunOf(workers[w].step)],
                                 workers[w].node) :
          workers' = [workers EXCEPT ![w] = Executed(w, res)]
    BY <1>7 DEF SkipLate
  <2>2. res \in Result
    BY <1>2, <1>3, ResultTypes
  <2>3. workers' \in [Worker -> WorkerState \cup {IdleWorker}]
    BY <1>1, <2>1, <2>2, ExecutedType DEF TypeOK
  <2> QED
    BY <1>7, <2>3 DEF SkipLate, TypeOK
<1> QED
  BY <1>4, <1>5, <1>7

LEMMA RescheduleFailType ==
    ASSUME TypeOK, NEW w \in Worker,
           \/ RescheduleJourneyStep(w) \/ FailJourneyStep(w) \/ TickError(w)
           \/ Crash(w)
    PROVE  TypeOK'
<1>1. workers[w].pc # "idle"
  BY DEF RescheduleJourneyStep, FailJourneyStep, TickError, Crash
<1>2. workers[w].step \in Step /\ steps[workers[w].step] \in StepRow
  BY <1>1, BusyState DEF TypeOK
<1>3. Failing(w) \in WorkerState
  BY <1>1, FailingType
<1>4. workers' \in [Worker -> WorkerState \cup {IdleWorker}]
  BY <1>3 DEF RescheduleJourneyStep, FailJourneyStep, TickError, Crash, TypeOK
<1>5. steps' \in [Step -> StepRow]
  BY <1>2, RowTypes DEF RescheduleJourneyStep, FailJourneyStep, TickError,
     Crash, TypeOK, When
<1> QED
  BY <1>4, <1>5 DEF RescheduleJourneyStep, FailJourneyStep, TickError, Crash,
     TypeOK

LEMMA AdvanceType ==
    ASSUME TypeOK, NEW w \in Worker, AdvanceRunTx(w)
    PROVE  TypeOK'
<1>1. workers[w].pc # "idle"
  BY DEF AdvanceRunTx, AdvanceRejected, AdvanceStale, AdvanceCommit
<1>2. /\ workers[w].step \in Step /\ steps[workers[w].step] \in StepRow
      /\ RunOf(workers[w].step) \in Run
      /\ workers[w].node \in Node
      /\ workers[w].res \in Result
      /\ Completed(steps[workers[w].step]) \in StepRow
  BY <1>1, BusyState, RowTypes DEF TypeOK
<1>3. CASE AdvanceRejected(w)
  BY <1>1, <1>3, FailingType DEF AdvanceRejected, TypeOK
<1>4. CASE AdvanceStale(w)
  BY <1>2, <1>4 DEF AdvanceStale, TypeOK
<1>5. CASE AdvanceCommit(w)
  <2> DEFINE s == workers[w].step
             r == RunOf(s)
             res == workers[w].res
             done == [steps EXCEPT ![s] = Completed(@)]
  <2>1. runs' \in [Run -> RunRow]
    BY <1>2, <1>5 DEF AdvanceCommit, TypeOK, RunRow, Result
  <2>2. done \in [Step -> StepRow]
    BY <1>2 DEF TypeOK
  <2>3. steps' \in [Step -> StepRow]
    <3>1. CASE res.next = "none"
      BY <1>5, <2>2, <3>1 DEF AdvanceCommit
    <3>2. CASE res.next # "none"
      <4>1. FreshStep(r) \in Step
        BY <1>2, <1>5, <3>2, FreshStepIsFresh DEF AdvanceCommit
      <4>2. NewStep(res.node, res.next,
                    IF res.later THEN "future" ELSE "due") \in StepRow
        BY <1>2, <3>2, RowTypes DEF Result, When
      <4> QED
        BY <1>5, <2>2, <3>2, <4>1, <4>2 DEF AdvanceCommit
    <3> QED
      BY <3>1, <3>2
  <2>4. [from |-> workers[w].node, to |-> res.to,
         outcome |-> res.outcome] \in Transition
    BY <1>2 DEF Transition, Result
  <2>5. transitions' \in [Run -> Seq(Transition)]
    BY <1>2, <1>5, <2>4 DEF AdvanceCommit, TypeOK
  <2>6. intents' \subseteq Run \X Node
    BY <1>2, <1>5 DEF AdvanceCommit, TypeOK
  <2>7. workers' \in [Worker -> WorkerState \cup {IdleWorker}]
    BY <1>5 DEF AdvanceCommit, TypeOK
  <2> QED
    BY <1>5, <2>1, <2>3, <2>5, <2>6, <2>7 DEF AdvanceCommit, TypeOK
<1> QED
  BY <1>3, <1>4, <1>5 DEF AdvanceRunTx

\* A resolution moves a run to the end of an edge of the node that was read.
LEMMA ResolvedEdge ==
    ASSUME NEW p \in Projector, NEW r \in Run, Resolves(p, r) # {}
    PROVE  \E it \in projectors[p].items :
             /\ it = (CHOOSE x \in Resolves(p, r) : TRUE)
             /\ it[1] = r /\ it[2] = ResolvedFrom(p, r)
             /\ runs[r].status = "waiting"
             /\ \E e \in Out(it[2]) : e.to = ResolvedNode(p, r)
<1> DEFINE it == CHOOSE x \in Resolves(p, r) : TRUE
<1>1. it \in Resolves(p, r)
  OBVIOUS
<1>2. /\ it \in projectors[p].items /\ it[1] = r /\ runs[r].status = "waiting"
      /\ SuccessEdges(it[2]) # {}
  BY <1>1 DEF Resolves
<1> DEFINE e == CHOOSE x \in SuccessEdges(it[2]) : TRUE
<1>3. e \in Out(it[2])
  BY <1>2 DEF SuccessEdges
<1>4. it[2] = ResolvedFrom(p, r) /\ e.to = ResolvedNode(p, r)
  BY DEF ResolvedNode, ResolvedFrom
<1> QED
  BY <1>2, <1>3, <1>4

LEMMA ResolveType ==
    ASSUME TypeOK, NEW p \in Projector, ResolveWaitingRuns(p)
    PROVE  TypeOK'
<1> DEFINE hit == {r \in Run : Resolves(p, r) # {}}
           src(r) == ResolvedFrom(p, r)
<1>1. \A r \in hit : ResolvedNode(p, r) \in Node /\ src(r) \in Node
  <2> SUFFICES ASSUME NEW r \in Run, Resolves(p, r) # {}
               PROVE  ResolvedNode(p, r) \in Node /\ src(r) \in Node
    OBVIOUS
  <2>1. PICK it \in projectors[p].items :
          /\ it[2] = ResolvedFrom(p, r)
          /\ \E e \in Out(it[2]) : e.to = ResolvedNode(p, r)
    BY ResolvedEdge
  <2>2. it \in Run \X Node
    BY DEF TypeOK, ProjectorState
  <2>3. \A e \in Out(it[2]) : e.to \in Node
    BY GraphAssumption DEF Out
  <2> QED
    BY <2>1, <2>2, <2>3
<1>2. runs' \in [Run -> RunRow]
  <2>1. ASSUME NEW r \in Run PROVE runs'[r] \in RunRow
    <3>1. CASE r \in hit
      BY <1>1, <3>1 DEF ResolveWaitingRuns, TypeOK, RunRow, RunStatus
    <3>2. CASE r \notin hit
      BY <3>2 DEF ResolveWaitingRuns, TypeOK
    <3> QED
      BY <3>1, <3>2
  <2> QED
    BY <2>1 DEF ResolveWaitingRuns
<1>3. steps' \in [Step -> StepRow]
  <2>1. ASSUME NEW s \in Step PROVE steps'[s] \in StepRow
    <3>1. CASE RunOf(s) \in hit
      <4>1. /\ NewStep(ResolvedNode(p, RunOf(s)), "advance", "due") \in StepRow
            /\ steps[s] \in StepRow /\ Completed(steps[s]) \in StepRow
        BY <1>1, <3>1, RowTypes DEF TypeOK, Kind, When
      <4> QED
        BY <3>1, <4>1 DEF ResolveWaitingRuns
    <3>2. CASE RunOf(s) \notin hit
      BY <3>2 DEF ResolveWaitingRuns, TypeOK
    <3> QED
      BY <3>1, <3>2
  <2> QED
    BY <2>1 DEF ResolveWaitingRuns
<1>4. transitions' \in [Run -> Seq(Transition)]
  <2>1. ASSUME NEW r \in Run PROVE transitions'[r] \in Seq(Transition)
    <3>1. CASE r \in hit
      <4>1. [from |-> src(r), to |-> ResolvedNode(p, r),
             outcome |-> "success"] \in Transition
        BY <1>1, <3>1 DEF Transition, Outcome
      <4>2. transitions'[r] = Append(transitions[r],
              [from |-> src(r), to |-> ResolvedNode(p, r),
               outcome |-> "success"])
        BY <3>1, Zenon DEF ResolveWaitingRuns
      <4>3. transitions[r] \in Seq(Transition)
        BY DEF TypeOK
      <4> HIDE DEF src
      <4> QED
        BY <4>1, <4>2, <4>3
    <3>2. CASE r \notin hit
      BY <3>2 DEF ResolveWaitingRuns, TypeOK
    <3> QED
      BY <3>1, <3>2
  <2> QED
    BY <2>1 DEF ResolveWaitingRuns
<1>5. projectors' \in [Projector -> ProjectorState]
  BY DEF ResolveWaitingRuns, TypeOK, IdleProjector, ProjectorState
<1> QED
  BY <1>2, <1>3, <1>4, <1>5 DEF ResolveWaitingRuns, TypeOK

LEMMA OtherTypes ==
    ASSUME TypeOK,
           \/ \E w \in Worker : ClaimNothing(w)
           \/ \E p \in Projector :
                 \/ \E ev \in Event : ReadWaitingRuns(p, ev)
                 \/ ProjectionAborts(p)
           \/ \E r \in Run : EnrollJourneyRun(r) \/ CancelJourneyRun(r)
           \/ \E s \in Step : RetryJourneyStep(s) \/ Clock(s) \/ BecomesLate(s)
           \/ SetJourneyVersionStatus
           \/ UNCHANGED vars
    PROVE  TypeOK'
<1>1. ASSUME NEW w \in Worker, ClaimNothing(w) PROVE TypeOK'
  BY <1>1, SweepType DEF ClaimNothing, TypeOK
<1>2. ASSUME NEW p \in Projector, NEW ev \in Event, ReadWaitingRuns(p, ev)
      PROVE  TypeOK'
  <2>1. \A r \in Run : runs[r].node \in Node
    BY DEF TypeOK, RunRow
  <2>2. projectors' \in [Projector -> ProjectorState]
    BY <1>2, <2>1 DEF ReadWaitingRuns, TypeOK, ProjectorState
  <2> QED
    BY <1>2, <2>2 DEF ReadWaitingRuns, TypeOK
<1>3. ASSUME NEW p \in Projector, ProjectionAborts(p) PROVE TypeOK'
  BY <1>3 DEF ProjectionAborts, TypeOK, IdleProjector, ProjectorState
<1>4. ASSUME NEW r \in Run, EnrollJourneyRun(r) PROVE TypeOK'
  <2>1. FreshStep(r) \in Step
    BY <1>4, FreshStepIsFresh DEF EnrollJourneyRun
  <2>2. NewStep(EntryNode, "advance", "due") \in StepRow
    BY RowTypes, GraphAssumption DEF Kind, When
  <2>3. runs' \in [Run -> RunRow]
    BY <1>4 DEF EnrollJourneyRun, TypeOK, RunRow, RunStatus
  <2> QED
    BY <1>4, <2>1, <2>2, <2>3 DEF EnrollJourneyRun, TypeOK
<1>5. ASSUME NEW r \in Run, CancelJourneyRun(r) PROVE TypeOK'
  <2>1. [NoStep EXCEPT !.status = "deleted"] \in StepRow
    BY RowTypes DEF StepRow, StepStatus
  <2>2. runs' \in [Run -> RunRow]
    BY <1>5 DEF CancelJourneyRun, TypeOK, RunRow, RunStatus
  <2> QED
    BY <1>5, <2>1, <2>2 DEF CancelJourneyRun, TypeOK
<1>6. ASSUME NEW s \in Step, RetryJourneyStep(s) PROVE TypeOK'
  <2>1. steps' \in [Step -> StepRow]
    BY <1>6, RowTypes DEF RetryJourneyStep, TypeOK, When
  <2> QED
    BY <1>6, <2>1 DEF RetryJourneyStep, TypeOK
<1>7. ASSUME NEW s \in Step, Clock(s) \/ BecomesLate(s) PROVE TypeOK'
  <2>1. steps[s] \in StepRow
    BY DEF TypeOK
  <2>2. steps' \in [Step -> StepRow]
    <3>1. CASE TimerFires(s)
      BY <2>1, <3>1 DEF TimerFires, TypeOK, StepRow, When
    <3>2. CASE LeaseExpires(s)
      BY <2>1, <3>2 DEF LeaseExpires, TypeOK, StepRow
    <3>3. CASE BecomesLate(s)
      BY <2>1, <3>3 DEF BecomesLate, TypeOK, StepRow, When
    <3> QED
      BY <1>7, <3>1, <3>2, <3>3 DEF Clock
  <2> QED
    BY <1>7, <2>2 DEF Clock, TimerFires, LeaseExpires, BecomesLate, TypeOK
<1>8. CASE SetJourneyVersionStatus
  BY <1>8 DEF SetJourneyVersionStatus, TypeOK
<1>9. CASE UNCHANGED vars
  BY <1>9 DEF vars, TypeOK
<1> QED
  BY <1>1, <1>2, <1>3, <1>4, <1>5, <1>6, <1>7, <1>8, <1>9

LEMMA NextTypeOK == TypeOK /\ [Next]_vars => TypeOK'
  BY ClaimType, ExecuteType, RescheduleFailType, AdvanceType, ResolveType,
     OtherTypes DEF Next, WorkerStep

\* In every reachable state the tables and the local states of workers and
\* projectors are well typed.
THEOREM TypeCorrect == Spec => []TypeOK
  BY InitTypeOK, NextTypeOK, PTL DEF Spec

-----------------------------------------------------------------------------
(***************************************************************************)
(* A run that has ended never changes, for every graph.                    *)
(***************************************************************************)

\* AdvanceRunTx and resolveWaitingRuns apply only to a run that is inside.
LEMMA AppliesInside ==
    ASSUME TypeOK, NEW w \in Worker, workers[w].pc = "executed",
           AdvanceApplies(w)
    PROVE  runs[RunOf(workers[w].step)].status \in {"active", "waiting"}
  BY DEF AdvanceApplies, Matches, StatusFor

\* A completed or canceled run is never touched again: AdvanceRunTx re-checks
\* the run under its lock, resolveWaitingRuns re-checks status = 'waiting',
\* CancelJourneyRun excludes ended runs.
THEOREM EndedRunsStayPut == Spec => TerminalIsFinal
<1>1. TypeOK /\ [Next]_vars =>
        [\A r \in Run : runs[r].status \in Terminal => runs'[r] = runs[r]]_vars
  <2> SUFFICES ASSUME TypeOK, Next, NEW r \in Run,
                      runs[r].status \in Terminal
               PROVE  runs'[r] = runs[r]
    OBVIOUS
  <2> USE DEF Terminal
  <2>1. ASSUME NEW w \in Worker, AdvanceCommit(w) PROVE runs'[r] = runs[r]
    <3>1. RunOf(workers[w].step) # r
      BY <2>1, AppliesInside DEF AdvanceCommit
    <3> QED
      BY <2>1, <3>1 DEF AdvanceCommit, TypeOK
  <2>2. ASSUME NEW p \in Projector, ResolveWaitingRuns(p)
        PROVE  runs'[r] = runs[r]
    BY <2>2 DEF ResolveWaitingRuns, Resolves
  <2>3. ASSUME NEW q \in Run, EnrollJourneyRun(q) \/ CancelJourneyRun(q)
        PROVE  runs'[r] = runs[r]
    BY <2>3 DEF EnrollJourneyRun, CancelJourneyRun, TypeOK
  <2>4. CASE UNCHANGED runs
    BY <2>4
  <2> QED
    BY <2>1, <2>2, <2>3, <2>4 DEF Next, WorkerStep, ClaimJourneyStep,
       ClaimNothing, Execute, ExecuteAction, SkipLate,
       RescheduleJourneyStep, FailJourneyStep, AdvanceRunTx, AdvanceRejected,
       AdvanceStale, TickError, Crash, ReadWaitingRuns, ProjectionAborts,
       RetryJourneyStep, Clock, TimerFires, LeaseExpires, BecomesLate,
       SetJourneyVersionStatus
<1> QED
  BY <1>1, TypeCorrect, PTL DEF Spec, TerminalIsFinal

-----------------------------------------------------------------------------
(***************************************************************************)
(* The inductive invariant, for acyclic graphs with one wait node.         *)
(***************************************************************************)

\* No node is before itself.
LEMMA AcyclicRank ==
    ASSUME Acyclic, NEW n \in Node
    PROVE  ~(Rank[n] < Rank[n])
  BY DEF Acyclic

\* The fields of the results that follow an edge.
LEMMA MovedFields ==
    ASSUME NEW snap, NEW m, NEW o
    PROVE  /\ Moved(snap, m, o).next = "advance"
           /\ Moved(snap, m, o).status = snap.status
           /\ Moved(snap, m, o).node = m
  BY DEF Moved

LEMMA StraightFields ==
    ASSUME NEW snap, NEW n, NEW m
    PROVE  /\ StraightResult(snap, n, m).next = "advance"
           /\ StraightResult(snap, n, m).status = snap.status
           /\ StraightResult(snap, n, m).node = m
  BY DEF StraightResult, Moved

LEMMA TimeoutFields ==
    ASSUME NEW snap, NEW m
    PROVE  /\ TimeoutResult(snap, m).next = "advance"
           /\ TimeoutResult(snap, m).status = "active"
           /\ TimeoutResult(snap, m).node = m
  BY DEF TimeoutResult, Moved

LEMMA SkipFields ==
    ASSUME NEW snap, NEW m
    PROVE  /\ SkipResult(snap, m).next = "advance"
           /\ SkipResult(snap, m).status = "active"
           /\ SkipResult(snap, m).node = m
  BY DEF SkipResult, Moved

\* What node.execute and the skip policy compute from a run that is still at
\* the node is a legal move.
LEMMA GoodResults ==
    ASSUME NEW snap \in RunRow, NEW n \in Node, NEW kind \in Kind,
           snap.status \in {"active", "waiting"}, snap.node = n,
           snap.status = "waiting" => IsWait(n),
           kind = "timeout" => IsWait(n)
    PROVE  /\ \A res \in ExecuteResults(snap, n, kind) :
                 GoodResult(n, kind, res)
           /\ \A res \in SkipResults(snap, n) : GoodResult(n, kind, res)
<1>1. \A res \in ExecuteResults(snap, n, kind) : GoodResult(n, kind, res)
  <2>1. CASE NodeType[n] \in StraightTypes
    <3>1. ExecuteResults(snap, n, kind) = ExecStraight(snap, n)
      BY <2>1, TypesDisjoint DEF ExecuteResults
    <3>2. snap.status = "active"
      BY <2>1, TypesDisjoint DEF IsWait
    <3>3. ASSUME NEW e \in Out(n)
          PROVE  GoodResult(n, kind, StraightResult(snap, n, e.to))
      BY <3>2, StraightFields DEF GoodResult
    <3> QED
      BY <3>1, <3>3 DEF ExecStraight
  <2>2. CASE NodeType[n] \in BranchTypes
    <3>1. ExecuteResults(snap, n, kind) = ExecBranch(snap, n)
      BY <2>2, TypesDisjoint DEF ExecuteResults
    <3>2. snap.status = "active"
      BY <2>2, TypesDisjoint DEF IsWait
    <3>3. ASSUME NEW e \in Out(n)
          PROVE  GoodResult(n, kind, Moved(snap, e.to, "branch"))
      BY <3>2, MovedFields DEF GoodResult
    <3> QED
      BY <3>1, <3>3 DEF ExecBranch
  <2>3. CASE NodeType[n] = "exit"
    <3>1. ExecuteResults(snap, n, kind) = {EndResult(snap, "exited")}
      BY <2>3, TypesDisjoint DEF ExecuteResults
    <3>2. Out(n) = {}
      BY <2>3, ValidGraph DEF Validate, ValidOutgoing
    <3>3. GoodResult(n, kind, EndResult(snap, "exited"))
      BY <3>2 DEF EndResult, Moved, GoodResult
    <3> QED
      BY <3>1, <3>3
  <2>4. CASE NodeType[n] = "wait_event"
    <3>1. ExecuteResults(snap, n, kind) = ExecWait(snap, n, kind)
      BY <2>4, TypesDisjoint DEF ExecuteResults
    <3>2. ASSUME NEW e \in Out(n)
          PROVE  GoodResult(n, kind, TimeoutResult(snap, e.to))
      BY TimeoutFields DEF GoodResult
    <3>3. kind # "timeout" => GoodResult(n, kind, WaitResult(snap, n))
      BY <2>4 DEF WaitResult, Moved, GoodResult, IsWait, Kind
    <3> QED
      BY <3>1, <3>2, <3>3 DEF ExecWait
  <2> QED
    BY <2>1, <2>2, <2>3, <2>4, GraphAssumption DEF NodeTypes
<1>2. \A res \in SkipResults(snap, n) : GoodResult(n, kind, res)
  <2>1. ASSUME NEW e \in Out(n)
        PROVE  GoodResult(n, kind, SkipResult(snap, e.to))
    BY SkipFields DEF GoodResult
  <2>2. Out(n) = {} => GoodResult(n, kind, SkipEnd(snap))
    BY DEF SkipEnd, EndResult, Moved, GoodResult
  <2> QED
    BY <2>1, <2>2 DEF SkipResults
<1> QED
  BY <1>1, <1>2

\* AdvanceRunTx applies a result only while the run is at the held node, and
\* then the result is a legal move.
LEMMA AppliedResult ==
    ASSUME IInv, Acyclic, NEW w \in Worker, workers[w].pc = "executed",
           AdvanceApplies(w), RunOf(workers[w].step) \in OnPath
    PROVE  /\ HeldRun(w).status \in {"active", "waiting"}
           /\ HeldRun(w).node = workers[w].node
           /\ HeldRun(w).status = StatusFor(workers[w].kind)
           /\ GoodResult(workers[w].node, workers[w].kind, workers[w].res)
<1> USE DEF IInv
<1>1. HeldRun(w).status \in {"active", "waiting"}
  BY AppliesInside DEF HeldRun
<1>2. /\ HeldRun(w).node = workers[w].node
      /\ HeldRun(w).status = StatusFor(workers[w].kind)
  BY DEF AdvanceApplies, Matches, HeldInv, BusyOnPath, Busy,
     Exists, HeldRun
<1>3. ~(Rank[workers[w].node] < Rank[workers[w].node])
  BY AcyclicRank, BusyState
<1>4. ~Gone(w)
  BY <1>1, <1>2, <1>3 DEF Gone, Terminal
<1> QED
  BY <1>1, <1>2, <1>4 DEF ResultInv, BusyOnPath, Busy

\* A run is never uncrossed.
LEMMA CrossedGrows ==
    ASSUME TypeOK, [Next]_vars
    PROVE  crossed \subseteq crossed'
<1>1. ASSUME NEW p \in Projector, ResolveWaitingRuns(p)
      PROVE  crossed \subseteq crossed'
  BY <1>1 DEF ResolveWaitingRuns
<1>2. CASE UNCHANGED crossed
  BY <1>2
<1> QED
  BY <1>1, <1>2 DEF Next, WorkerStep, ClaimJourneyStep,
     ClaimNothing, Execute, ExecuteAction, SkipLate,
     RescheduleJourneyStep, FailJourneyStep, AdvanceRunTx, AdvanceRejected,
     AdvanceStale, AdvanceCommit, TickError, Crash, ReadWaitingRuns,
     ProjectionAborts, EnrollJourneyRun, CancelJourneyRun, RetryJourneyStep,
     Clock, TimerFires, LeaseExpires, BecomesLate, SetJourneyVersionStatus,
     vars

\* A run that is on its path after a step was on its path before.
LEMMA PathShrinks ==
    ASSUME TypeOK, [Next]_vars, NEW r, r \in OnPath'
    PROVE  r \in OnPath /\ r \in Run
  BY CrossedGrows DEF OnPath

\* Unless the run is crossed, the node a projector has read is still the one
\* the waiting run is at.
LEMMA ResolvedHere ==
    ASSUME NEW p \in Projector, NEW r \in OnPath', Resolves(p, r) # {},
           ResolveWaitingRuns(p)
    PROVE  /\ runs[r].status = "waiting"
           /\ ResolvedFrom(p, r) = runs[r].node
           /\ \E e \in Out(runs[r].node) : e.to = ResolvedNode(p, r)
<1>1. r \in Run /\ r \notin crossed'
  BY DEF OnPath
<1>2. ResolvedFrom(p, r) = runs[r].node
  BY <1>1 DEF ResolveWaitingRuns
<1> QED
  BY <1>1, <1>2, ResolvedEdge

\* The run rows: every step of the system is a legal move of every run.
LEMMA MoveStep ==
    ASSUME IInv, Acyclic, [Next]_vars, NEW r \in OnPath'
    PROVE  LegalMove(r)
<1>path. r \in OnPath /\ r \in Run
  BY PathShrinks DEF IInv
<1> USE <1>path
<1> USE DEF IInv
<1>1. ASSUME NEW w \in Worker, AdvanceCommit(w) PROVE LegalMove(r)
  <2> DEFINE s == workers[w].step
             res == workers[w].res
  <2>1. s \in Step /\ RunOf(s) \in Run /\ res \in Result
    BY <1>1, BusyState DEF AdvanceCommit
  <2>2. CASE RunOf(s) # r
    BY <1>1, <2>2 DEF AdvanceCommit, TypeOK, LegalMove
  <2>3. CASE RunOf(s) = r
    <3>1. /\ Inside(r) /\ runs[r].node = workers[w].node
          /\ runs[r].status = StatusFor(workers[w].kind)
          /\ GoodResult(workers[w].node, workers[w].kind, res)
      BY <1>1, <2>3, AppliedResult DEF AdvanceCommit, HeldRun, Inside
    <3>2. runs'[r].status = res.status /\ runs'[r].node = res.node
      BY <1>1, <2>3, <2>1 DEF AdvanceCommit, TypeOK
    <3> QED
      BY <3>1, <3>2 DEF GoodResult, LegalMove, StatusFor
  <2> QED
    BY <2>2, <2>3
<1>2. ASSUME NEW p \in Projector, ResolveWaitingRuns(p) PROVE LegalMove(r)
  <2>1. CASE Resolves(p, r) = {}
    BY <1>2, <2>1 DEF ResolveWaitingRuns, LegalMove
  <2>2. CASE Resolves(p, r) # {}
    <3>1. /\ runs[r].status = "waiting"
          /\ \E e \in Out(runs[r].node) : e.to = ResolvedNode(p, r)
      BY <1>2, <2>2, ResolvedHere
    <3>2. runs'[r].status = "active" /\ runs'[r].node = ResolvedNode(p, r)
      BY <1>2, <2>2 DEF ResolveWaitingRuns, TypeOK, RunRow
    <3> QED
      BY <3>1, <3>2 DEF LegalMove, Inside
  <2> QED
    BY <2>1, <2>2
<1>3. ASSUME NEW q \in Run, EnrollJourneyRun(q) \/ CancelJourneyRun(q)
      PROVE  LegalMove(r)
  BY <1>3 DEF EnrollJourneyRun, CancelJourneyRun, TypeOK, LegalMove, Inside,
     RunRow
<1>4. CASE UNCHANGED runs
  BY <1>4 DEF LegalMove
<1> QED
  BY <1>1, <1>2, <1>3, <1>4 DEF Next, WorkerStep, ClaimJourneyStep,
     ClaimNothing, Execute, ExecuteAction, SkipLate,
     RescheduleJourneyStep, FailJourneyStep, AdvanceRunTx, AdvanceRejected,
     AdvanceStale, TickError, Crash, ReadWaitingRuns, ProjectionAborts,
     RetryJourneyStep, Clock, TimerFires, LeaseExpires, BecomesLate,
     SetJourneyVersionStatus, vars

\* The step rows: a row keeps its node and kind until it is deleted, and a
\* new timeout row is at a wait node.
LEMMA RowStep ==
    ASSUME IInv, Acyclic, [Next]_vars, NEW t \in Step, RunOf(t) \in OnPath'
    PROVE  LegalRow(t)
<1>path. RunOf(t) \in OnPath /\ RunOf(t) \in Run
  BY PathShrinks DEF IInv
<1> USE <1>path
<1> USE DEF IInv
<1>0. steps[t] \in StepRow /\ RunOf(t) \in Run
  BY DEF TypeOK, Step, RunOf
<1>1. CASE steps'[t] = steps[t]
  BY <1>1 DEF LegalRow
<1>2. ASSUME NEW row \in StepRow,
             \/ row = Completed(steps[t]) \/ row = ClaimedRow(steps[t])
             \/ row = FailedRow(steps[t])
             \/ \E wh \in When : row = RequeuedRow(steps[t], wh)
             \/ row = [steps[t] EXCEPT !.status = "dead"]
             \/ \E wh \in When : row = [steps[t] EXCEPT !.when = wh]
             \/ row = [steps[t] EXCEPT !.leased = FALSE],
             Exists(t), steps'[t] = row
      PROVE  LegalRow(t)
  BY <1>0, <1>2 DEF StepRow, Completed, ClaimedRow, FailedRow, RequeuedRow,
     Exists, LegalRow
<1>3. ASSUME NEW w \in Worker, NEW s \in Step, ClaimJourneyStep(w, s)
      PROVE  LegalRow(t)
  <2>1. Sweep[t] \in StepRow /\ steps'[t] \in StepRow
    BY <1>3, SweepType, RowTypes DEF ClaimJourneyStep
  <2>2. CASE t = s
    <3>1. Sweep[t] = steps[t] /\ Exists(t)
      BY <1>0, <1>3, <2>2, BoundsAssumption DEF ClaimJourneyStep, Claimable,
         Sweep, Poisoned, Exists, StepRow
    <3> QED
      BY <1>2, <1>3, <2>1, <2>2, <3>1, SweepType DEF ClaimJourneyStep
  <2>3. CASE t # s
    <3>1. steps'[t] = Sweep[t]
      BY <1>3, <2>3, SweepType DEF ClaimJourneyStep
    <3> QED
      BY <1>1, <1>2, <2>1, <3>1 DEF Sweep, Poisoned, Exists
  <2> QED
    BY <2>2, <2>3
<1>4. ASSUME NEW w \in Worker, ClaimNothing(w) PROVE LegalRow(t)
  BY <1>1, <1>2, <1>4, SweepType DEF ClaimNothing, Sweep, Poisoned, Exists
<1>5. ASSUME NEW w \in Worker, RescheduleJourneyStep(w) \/ FailJourneyStep(w)
      PROVE  LegalRow(t)
  BY <1>0, <1>1, <1>2, <1>5, RowTypes DEF RescheduleJourneyStep,
     FailJourneyStep, TypeOK, When
<1>6. ASSUME NEW w \in Worker, AdvanceStale(w) PROVE LegalRow(t)
  BY <1>0, <1>1, <1>2, <1>6, RowTypes DEF AdvanceStale, TypeOK, Exists
<1>7. ASSUME NEW w \in Worker, AdvanceCommit(w) PROVE LegalRow(t)
  <2> DEFINE s == workers[w].step
             r == RunOf(s)
             res == workers[w].res
  <2>1. /\ s \in Step /\ r \in Run
        /\ workers[w].node \in Node /\ res \in Result
    BY <1>7, BusyState DEF AdvanceCommit
  <2>2. CASE t = s
    <3>1. res.next # "none" => FreshStep(r) # s
      BY <1>7, <2>1, FreshStepIsFresh DEF AdvanceCommit, AdvanceApplies
    <3>2. steps'[t] = Completed(steps[t]) /\ Exists(t)
      BY <1>7, <2>1, <2>2, <3>1 DEF AdvanceCommit, AdvanceApplies, TypeOK,
         Exists
    <3> QED
      BY <1>0, <1>2, <3>2, RowTypes
  <2>3. CASE t # s /\ (res.next # "none" => t # FreshStep(r))
    BY <1>1, <1>7, <2>1, <2>3 DEF AdvanceCommit, TypeOK
  <2>4. CASE t # s /\ res.next # "none" /\ t = FreshStep(r)
    <3>1. steps[t].status = "none"
      BY <1>7, <2>1, <2>4, FreshStepIsFresh DEF AdvanceCommit
    <3>2. steps'[t] = NewStep(res.node, res.next,
                              IF res.later THEN "future" ELSE "due")
      BY <1>7, <2>1, <2>4, FreshStepIsFresh DEF AdvanceCommit, TypeOK
    <3>3. steps'[t].node = res.node /\ steps'[t].kind = res.next
      BY <3>2 DEF NewStep
    <3>6. RunOf(t) = r
      BY <1>7, <2>1, <2>4, FreshStepIsFresh DEF AdvanceCommit
    <3>4. /\ GoodResult(workers[w].node, workers[w].kind, res)
          /\ runs[r].node = workers[w].node
          /\ runs[r].status = StatusFor(workers[w].kind)
      BY <1>7, <3>6, AppliedResult DEF AdvanceCommit, HeldRun
    <3>5. runs'[r].status = res.status /\ runs'[r].node = res.node
      BY <1>7, <2>1 DEF AdvanceCommit, TypeOK
    <3>7. Opened(t)
      BY <2>4, <3>3, <3>4, <3>5, <3>6 DEF Opened, GoodResult, StatusFor
    <3> QED
      BY <3>1, <3>3, <3>4, <3>7 DEF LegalRow, GoodResult
  <2> QED
    BY <2>2, <2>3, <2>4
<1>8. ASSUME NEW p \in Projector, ResolveWaitingRuns(p) PROVE LegalRow(t)
  <2>1. CASE Resolves(p, RunOf(t)) = {}
    BY <1>0, <1>1, <1>8, <2>1 DEF ResolveWaitingRuns
  <2>2. CASE Resolves(p, RunOf(t)) # {} /\ t = FreshStep(RunOf(t))
    <3>1. steps[t].status = "none"
      BY <1>0, <1>8, <2>2, FreshStepIsFresh DEF ResolveWaitingRuns
    <3>2. steps'[t] = NewStep(ResolvedNode(p, RunOf(t)), "advance", "due")
      BY <1>0, <1>8, <2>2 DEF ResolveWaitingRuns
    <3>3. steps'[t].kind = "advance" /\ steps'[t].node = ResolvedNode(p, RunOf(t))
      BY <3>2 DEF NewStep
    <3>4. /\ runs'[RunOf(t)].status = "active"
          /\ runs'[RunOf(t)].node = ResolvedNode(p, RunOf(t))
      BY <1>0, <1>8, <2>2 DEF ResolveWaitingRuns, TypeOK, RunRow
    <3>5. \E e \in Out(runs[RunOf(t)].node) : e.to = ResolvedNode(p, RunOf(t))
      BY <1>0, <1>8, <2>2, ResolvedHere
    <3>6. Opened(t)
      BY <2>2, <3>3, <3>4, <3>5 DEF Opened, StatusFor
    <3> QED
      BY <3>1, <3>3, <3>6 DEF LegalRow
  <2>3. CASE Resolves(p, RunOf(t)) # {} /\ t # FreshStep(RunOf(t))
    <3>1. steps'[t] = IF CompletedByResolve(t) THEN Completed(steps[t])
                                              ELSE steps[t]
      BY <1>0, <1>8, <2>3 DEF ResolveWaitingRuns
    <3> QED
      BY <1>0, <1>1, <1>2, <3>1, RowTypes DEF CompletedByResolve, Exists
  <2> QED
    BY <2>1, <2>2, <2>3
<1>9. ASSUME NEW q \in Run, EnrollJourneyRun(q) PROVE LegalRow(t)
  <2>1. CASE t = FreshStep(q)
    <3>1. steps[t].status = "none"
      BY <1>9, <2>1, FreshStepIsFresh DEF EnrollJourneyRun
    <3>2. steps'[t] = NewStep(EntryNode, "advance", "due")
      BY <1>9, <2>1 DEF EnrollJourneyRun, TypeOK
    <3>3. steps'[t].kind = "advance" /\ steps'[t].node = EntryNode
      BY <3>2 DEF NewStep
    <3>4. /\ RunOf(t) = q /\ runs[q].status = "none"
          /\ runs'[q].status = "active" /\ runs'[q].node = EntryNode
      BY <1>9, <2>1, FreshStepIsFresh DEF EnrollJourneyRun, TypeOK, RunRow,
         RunsInv
    <3>5. Opened(t)
      BY <2>1, <3>3, <3>4 DEF Opened, StatusFor
    <3> QED
      BY <3>1, <3>3, <3>5 DEF LegalRow
  <2>2. CASE t # FreshStep(q)
    BY <1>1, <1>9, <2>2 DEF EnrollJourneyRun, TypeOK
  <2> QED
    BY <2>1, <2>2
<1>10. ASSUME NEW q \in Run, CancelJourneyRun(q) PROVE LegalRow(t)
  <2>1. [NoStep EXCEPT !.status = "deleted"].status = "deleted"
    BY DEF NoStep
  <2> QED
    BY <1>1, <1>10, <2>1 DEF CancelJourneyRun, LegalRow
<1>11. ASSUME NEW s \in Step, RetryJourneyStep(s) \/ Clock(s) \/ BecomesLate(s)
       PROVE  LegalRow(t)
  <2>1. CASE t # s
    BY <1>1, <1>11, <2>1 DEF RetryJourneyStep, Clock, TimerFires,
       LeaseExpires, BecomesLate, TypeOK
  <2>2. CASE t = s /\ RetryJourneyStep(s)
    BY <1>0, <1>2, <2>2, RowTypes DEF RetryJourneyStep, TypeOK, When
  <2>3. CASE t = s /\ (TimerFires(s) \/ BecomesLate(s))
    BY <1>0, <2>3 DEF TimerFires, BecomesLate, TypeOK, StepRow, LegalRow
  <2>4. CASE t = s /\ LeaseExpires(s)
    BY <1>0, <2>4 DEF LeaseExpires, TypeOK, StepRow, LegalRow
  <2> QED
    BY <1>11, <2>1, <2>2, <2>3, <2>4 DEF Clock
<1>12. CASE UNCHANGED steps
  BY <1>1, <1>12
<1> QED
  BY <1>3, <1>4, <1>5, <1>6, <1>7, <1>8, <1>9, <1>10, <1>11, <1>12 DEF Next,
     WorkerStep, Execute, ExecuteAction, SkipLate,
     AdvanceRunTx, AdvanceRejected, TickError, Crash, ReadWaitingRuns,
     ProjectionAborts, SetJourneyVersionStatus, vars

\* A worker that is busy after a step was busy with the same row before, or
\* has just claimed it.
LEMMA WorkerStays ==
    ASSUME IInv, Next, NEW v \in Worker, Busy(v)'
    PROVE  \/ Keeps(v)
           \/ \E s \in Step : ClaimJourneyStep(v, s)
<1> USE DEF IInv
<1>1. ASSUME workers'[v] = workers[v] PROVE Keeps(v)
  BY <1>1 DEF Keeps, Busy
<1>2. ASSUME NEW w \in Worker, v # w,
             \E x : workers' = [workers EXCEPT ![w] = x]
      PROVE  Keeps(v)
  <2>1. PICK x : workers' = [workers EXCEPT ![w] = x]
    BY <1>2
  <2>2. workers \in [Worker -> WorkerState \cup {IdleWorker}]
    BY DEF TypeOK
  <2>3. workers'[v] = workers[v]
    BY ONLY <1>2, <2>1, <2>2, v \in Worker, w \in Worker
  <2> QED
    BY <1>1, <2>3
<1>3. ASSUME NEW w \in Worker, NEW s \in Step, ClaimJourneyStep(w, s), v # w
      PROVE  Keeps(v)
  BY <1>2, <1>3 DEF ClaimJourneyStep
<1>4. ASSUME workers[v] \in WorkerState, workers[v].pc # "idle",
             \/ workers'[v] = Failing(v)
             \/ \E res : workers'[v] = Executed(v, res)
      PROVE  Keeps(v)
  BY <1>4 DEF Keeps, Failing, Executed, WorkerState
<1>5. ASSUME NEW w \in Worker,
             \/ Execute(w) \/ ExecuteAction(w)
             \/ SkipLate(w) \/ TickError(w) \/ AdvanceRejected(w)
      PROVE  Keeps(v)
  <2>1. CASE v # w
    BY <1>2, <1>5, <2>1 DEF Execute, ExecuteAction, SkipLate,
       TickError, AdvanceRejected
  <2>2. CASE v = w
    <3>1. workers[v].pc # "idle" /\ workers[v] \in WorkerState
      BY <1>5, <2>2, BusyState DEF Execute, ExecuteAction,
         SkipLate, TickError, AdvanceRejected
    <3> QED
      BY <1>4, <1>5, <2>2, <3>1 DEF Execute, ExecuteAction,
         SkipLate, TickError, AdvanceRejected, TypeOK
  <2> QED
    BY <2>1, <2>2
<1>6. ASSUME NEW w \in Worker,
             \/ FailJourneyStep(w) \/ AdvanceStale(w) \/ AdvanceCommit(w)
             \/ Crash(w)
      PROVE  Keeps(v)
  <2>1. workers' = [workers EXCEPT ![w] = IdleWorker]
    BY <1>6 DEF FailJourneyStep, AdvanceStale, AdvanceCommit, Crash
  <2>2. v # w
    BY <2>1 DEF Busy, IdleWorker, TypeOK
  <2> QED
    BY <1>2, <2>1, <2>2
<1>7. ASSUME NEW w \in Worker, RescheduleJourneyStep(w) PROVE Keeps(v)
  <2>1. CASE v # w
    BY <1>2, <1>7, <2>1 DEF RescheduleJourneyStep
  <2>2. CASE v = w
    <3>1. workers[v].pc # "idle" /\ workers[v] \in WorkerState
      BY <1>7, <2>2, BusyState DEF RescheduleJourneyStep
    <3>2. workers'[v] = Failing(v)
      BY <1>7, <2>2 DEF RescheduleJourneyStep, Busy, IdleWorker, TypeOK
    <3> QED
      BY <1>4, <3>1, <3>2
  <2> QED
    BY <2>1, <2>2
<1>8. CASE UNCHANGED workers
  BY <1>1, <1>8
<1> QED
  BY <1>3, <1>5, <1>6, <1>7, <1>8 DEF Next, WorkerStep, ClaimNothing,
     AdvanceRunTx, ReadWaitingRuns, ResolveWaitingRuns, ProjectionAborts,
     EnrollJourneyRun, CancelJourneyRun, RetryJourneyStep, Clock, TimerFires,
     LeaseExpires, BecomesLate, SetJourneyVersionStatus

\* A run that has left the node of a held step never comes back to it.
LEMMA GoneForGood ==
    ASSUME IInv, Acyclic, NEW w \in Worker, Keeps(w),
           LegalMove(RunOf(workers[w].step))
    PROVE  /\ Gone(w) => Gone(w)'
           /\ HeldRun(w).node = workers[w].node
                => HeldRun(w)'.node = workers'[w].node \/ Gone(w)'
           /\ HeldRun(w).status # "none" => HeldRun(w)'.status # "none"
<1> DEFINE r == RunOf(workers[w].step)
<1>1. r \in Run /\ workers[w].node \in Node /\ runs[r].node \in Node
  BY BusyState DEF Keeps, IInv, TypeOK, RunRow
<1>2. HeldRun(w) = runs[r] /\ HeldRun(w)' = runs'[r]
  BY DEF HeldRun, Keeps
<1>3. \A e \in Edge : /\ e.from \in Node /\ e.to \in Node
                      /\ Rank[e.from] \in Nat /\ Rank[e.to] \in Nat
                      /\ Rank[e.from] < Rank[e.to]
  BY GraphAssumption DEF Acyclic
<1>4. \/ runs'[r].node = runs[r].node
      \/ /\ Rank[runs[r].node] \in Nat /\ Rank[runs'[r].node] \in Nat
         /\ Rank[runs[r].node] < Rank[runs'[r].node]
  BY <1>3 DEF LegalMove, Out
<1>5. runs[r].status \in Terminal => runs'[r] = runs[r]
  BY DEF LegalMove, Terminal, Inside
<1>6. Rank[workers[w].node] \in Nat
  BY <1>1 DEF Acyclic
<1>7. Gone(w)' <=> \/ runs'[r].status \in Terminal
                   \/ Rank[workers[w].node] < Rank[runs'[r].node]
  BY <1>2 DEF Gone, Keeps
<1>8. Gone(w) <=> \/ runs[r].status \in Terminal
                  \/ Rank[workers[w].node] < Rank[runs[r].node]
  BY <1>2 DEF Gone
<1>9. Rank[runs[r].node] \in Nat
  BY <1>1 DEF Acyclic
<1>10. Gone(w) => Gone(w)'
  BY <1>4, <1>5, <1>6, <1>7, <1>8, <1>9
<1>11. runs[r].node = workers[w].node
         => runs'[r].node = workers'[w].node \/ Gone(w)'
  BY <1>4, <1>7 DEF Keeps
<1>12. runs[r].status # "none" => runs'[r].status # "none"
  BY DEF LegalMove
<1> QED
  BY <1>2, <1>10, <1>11, <1>12

\* The invariants about runs and step rows follow from the shape of moves.
LEMMA TablesStep ==
    ASSUME IInv, Acyclic, [Next]_vars
    PROVE  RunsInv' /\ StepsInv'
<1>1. RunsInv'
  <2> SUFFICES ASSUME NEW r \in OnPath'
               PROVE  /\ runs'[r].status = "none" => runs'[r].node = EntryNode
                      /\ runs'[r].status = "waiting" => IsWait(runs'[r].node)
    BY DEF RunsInv, IsWait
  <2>1. LegalMove(r) /\ r \in OnPath
    BY MoveStep, PathShrinks DEF IInv
  <2> QED
    BY <2>1 DEF LegalMove, IInv, RunsInv
<1>2. StepsInv'
  <2> SUFFICES ASSUME NEW s \in Step, RunOf(s) \in OnPath', Exists(s)',
                      steps'[s].kind = "timeout"
               PROVE  IsWait(steps'[s].node)
    BY DEF StepsInv, IsWait, RunOf
  <2>1. LegalRow(s) /\ RunOf(s) \in OnPath
    BY RowStep, PathShrinks DEF IInv
  <2> QED
    BY <2>1 DEF LegalRow, IInv, StepsInv, Exists
<1> QED
  BY <1>1, <1>2

LEMMA HeldStep ==
    ASSUME IInv, Acyclic, [Next]_vars
    PROVE  HeldInv'
<1> SUFFICES ASSUME NEW v \in Worker, BusyOnPath(v)'
             PROVE  /\ workers'[v].kind = "timeout" => IsWait(workers'[v].node)
                    /\ steps'[workers'[v].step].status # "none"
                    /\ Exists(workers[v].step)' =>
                         /\ steps'[workers'[v].step].node = workers'[v].node
                         /\ steps'[workers'[v].step].kind = workers'[v].kind
                    /\ HeldRun(v)'.status # "none"
                    /\ HeldRun(v)'.node = workers'[v].node \/ Gone(v)'
  BY DEF HeldInv, IsWait
<1>0. Busy(v)' /\ RunOf(workers'[v].step) \in OnPath'
  BY DEF BusyOnPath, RunOf
<1>1. CASE Keeps(v)
  <2>1. Busy(v) /\ workers[v].step \in Step /\ RunOf(workers[v].step) \in Run
    BY <1>1, BusyState DEF Keeps, Busy, IInv
  <2>0. RunOf(workers[v].step) \in OnPath' /\ BusyOnPath(v)
    BY <1>0, <1>1, <2>1, PathShrinks DEF Keeps, IInv, BusyOnPath
  <2>2. LegalRow(workers[v].step) /\ LegalMove(RunOf(workers[v].step))
    BY <2>0, <2>1, RowStep, MoveStep
  <2>3. /\ workers'[v].kind = "timeout" => IsWait(workers'[v].node)
        /\ steps'[workers'[v].step].status # "none"
    BY <1>1, <2>0, <2>1, <2>2 DEF Keeps, IInv, HeldInv, LegalRow
  <2>4. Exists(workers[v].step)' =>
          /\ steps'[workers'[v].step].node = workers'[v].node
          /\ steps'[workers'[v].step].kind = workers'[v].kind
    BY <1>1, <2>0, <2>1, <2>2 DEF Keeps, IInv, HeldInv, LegalRow, Exists
  <2>5. /\ HeldRun(v)'.status # "none"
        /\ HeldRun(v)'.node = workers'[v].node \/ Gone(v)'
    BY <1>1, <2>0, <2>1, <2>2, GoneForGood DEF IInv, HeldInv
  <2> QED
    BY <2>3, <2>4, <2>5
<1>2. ASSUME NEW s \in Step, ClaimJourneyStep(v, s)
      PROVE  /\ workers'[v].kind = "timeout" => IsWait(workers'[v].node)
             /\ steps'[workers'[v].step].status # "none"
             /\ Exists(workers[v].step)' =>
                  /\ steps'[workers'[v].step].node = workers'[v].node
                  /\ steps'[workers'[v].step].kind = workers'[v].kind
             /\ HeldRun(v)'.status # "none"
             /\ HeldRun(v)'.node = workers'[v].node \/ Gone(v)'
  <2>1. /\ workers'[v].step = s /\ workers'[v].node = steps[s].node
        /\ workers'[v].kind = steps[s].kind /\ runs' = runs
    BY <1>2 DEF ClaimJourneyStep, IInv, TypeOK
  <2>2. Exists(s) /\ Matches(s)
    BY <1>2 DEF ClaimJourneyStep, Claimable, Exists
  <2>3. LegalRow(s) /\ RunOf(s) \in OnPath
    BY <1>0, <2>1, RowStep, PathShrinks DEF IInv
  <2>4. HeldRun(v)' = runs[RunOf(s)]
    BY <2>1 DEF HeldRun
  <2> QED
    BY <2>1, <2>2, <2>3, <2>4 DEF LegalRow, Exists, Matches, StatusFor, IInv,
       StepsInv
<1>3. CASE UNCHANGED vars
  BY <1>0, <1>1, <1>3 DEF vars, Keeps, Busy
<1> QED
  BY <1>0, <1>1, <1>2, <1>3, WorkerStays

\* A held run that is not gone is inside the journey, at the held node.
LEMMA StillThere ==
    ASSUME IInv, NEW w \in Worker, BusyOnPath(w), ~Gone(w)
    PROVE  /\ HeldRun(w) \in RunRow
           /\ HeldRun(w).status \in {"active", "waiting"}
           /\ HeldRun(w).node = workers[w].node
           /\ HeldRun(w).status = "waiting" => IsWait(workers[w].node)
<1>1. RunOf(workers[w].step) \in Run
  BY BusyState DEF BusyOnPath, Busy, IInv
<1>2. HeldRun(w) \in RunRow
  BY <1>1 DEF HeldRun, IInv, TypeOK
<1>3. HeldRun(w).status # "none" /\ HeldRun(w).node = workers[w].node
  BY DEF IInv, HeldInv
<1>4. HeldRun(w).status \in {"active", "waiting"}
  BY <1>2, <1>3 DEF Gone, Terminal, RunRow, RunStatus
<1>5. HeldRun(w).status = "waiting" => IsWait(workers[w].node)
  BY <1>1, <1>3 DEF IInv, RunsInv, HeldRun, BusyOnPath
<1> QED
  BY <1>2, <1>3, <1>4, <1>5

\* A worker whose state changes has taken one of its own steps.
LEMMA WorkerMoves ==
    ASSUME TypeOK, [Next]_vars, NEW v \in Worker, workers'[v] # workers[v]
    PROVE  WorkerStep(v) \/ TickError(v) \/ Crash(v)
<1>1. ASSUME NEW w \in Worker, WorkerStep(w) \/ TickError(w) \/ Crash(w)
      PROVE  v = w
  <2>1. workers' = workers \/ \E x : workers' = [workers EXCEPT ![w] = x]
    BY <1>1, Zenon DEF WorkerStep, ClaimJourneyStep, ClaimNothing, Execute,
       ExecuteAction, SkipLate, RescheduleJourneyStep,
       FailJourneyStep, AdvanceRunTx, AdvanceRejected, AdvanceStale,
       AdvanceCommit, TickError, Crash
  <2> QED
    BY <2>1, Zenon DEF TypeOK
<1>2. workers' # workers
  OBVIOUS
<1> QED
  BY <1>1, <1>2 DEF Next, ReadWaitingRuns, ResolveWaitingRuns,
     ProjectionAborts, EnrollJourneyRun, CancelJourneyRun, RetryJourneyStep,
     Clock, TimerFires, LeaseExpires, BecomesLate, SetJourneyVersionStatus,
     vars

\* Which steps of a worker lead where.
LEMMA PcAfter ==
    ASSUME TypeOK, NEW v \in Worker, workers'[v] # workers[v],
           WorkerStep(v) \/ TickError(v) \/ Crash(v)
    PROVE  workers'[v].pc = "executed" => Execute(v) \/ SkipLate(v)
<1>1. workers \in [Worker -> WorkerState \cup {IdleWorker}]
  BY DEF TypeOK
<1>2. ASSUME \/ Execute(v) \/ SkipLate(v)
      PROVE  workers'[v].pc = "executed"
  <2>1. workers[v] \in WorkerState
    BY <1>2, BusyState DEF Execute, SkipLate
  <2>2. PICK res : workers' = [workers EXCEPT ![v] = Executed(v, res)]
    BY <1>2 DEF Execute, SkipLate
  <2>3. workers'[v] = Executed(v, res)
    BY <1>1, <2>2
  <2> QED
    BY <2>1, <2>3 DEF Executed, WorkerState
<1>4. ASSUME \/ \E s \in Step : ClaimJourneyStep(v, s)
             \/ FailJourneyStep(v) \/ AdvanceStale(v) \/ AdvanceCommit(v)
             \/ Crash(v)
      PROVE  workers'[v].pc \in {"idle", "claimed"}
  BY <1>1, <1>4 DEF ClaimJourneyStep, FailJourneyStep, AdvanceStale,
     AdvanceCommit, Crash, IdleWorker
<1>5. ASSUME \/ RescheduleJourneyStep(v) \/ AdvanceRejected(v) \/ TickError(v)
             \/ ExecuteAction(v)
      PROVE  workers'[v].pc \in {"idle", "failing"}
  <2>1. workers[v] \in WorkerState
    BY <1>5, BusyState DEF RescheduleJourneyStep, AdvanceRejected,
       TickError, ExecuteAction
  <2>2. workers'[v] = IdleWorker \/ workers'[v] = Failing(v)
    BY <1>1, <1>5 DEF RescheduleJourneyStep, AdvanceRejected, TickError,
       ExecuteAction
  <2>3. Failing(v).pc = "failing"
    BY <2>1 DEF Failing, WorkerState
  <2> QED
    BY <2>2, <2>3 DEF IdleWorker
<1>6. ~ClaimNothing(v)
  BY DEF ClaimNothing
<1> QED
  BY <1>2, <1>4, <1>5, <1>6 DEF WorkerStep, AdvanceRunTx

LEMMA ResultStep ==
    ASSUME IInv, Acyclic, [Next]_vars
    PROVE  ResultInv'
<1> SUFFICES ASSUME NEW v \in Worker, BusyOnPath(v)',
                    workers'[v].pc = "executed", ~Gone(v)'
             PROVE  GoodResult(workers'[v].node, workers'[v].kind,
                               workers'[v].res)
  BY DEF ResultInv, GoodResult, IsWait, Out
<1>0. RunOf(workers'[v].step) \in OnPath'
  BY DEF BusyOnPath, RunOf
<1>1. CASE workers'[v] = workers[v]
  <2>1. Keeps(v) /\ RunOf(workers[v].step) \in Run
    BY <1>1, BusyState DEF Keeps, IInv
  <2>2. RunOf(workers[v].step) \in OnPath' /\ BusyOnPath(v)
    BY <1>0, <1>1, <2>1, PathShrinks DEF Keeps, IInv, BusyOnPath, Busy
  <2>3. ~Gone(v)
    BY <2>1, <2>2, MoveStep, GoneForGood
  <2> QED
    BY <1>1, <2>2, <2>3 DEF IInv, ResultInv
<1>2. CASE workers'[v] # workers[v]
  <2>1. Execute(v) \/ SkipLate(v)
    BY <1>2, WorkerMoves, PcAfter DEF IInv
  <2>2. /\ Busy(v) /\ workers[v] \in WorkerState /\ workers[v].node \in Node
        /\ workers[v].kind \in Kind
    BY <2>1, BusyState DEF Execute, SkipLate, Busy, IInv
  <2>3. PICK res \in ExecuteResults(HeldRun(v), workers[v].node,
                                    workers[v].kind)
                     \cup SkipResults(HeldRun(v), workers[v].node) :
          /\ workers' = [workers EXCEPT ![v] = Executed(v, res)]
          /\ res \in ExecuteResults(HeldRun(v), workers[v].node,
                                    workers[v].kind)
             \/ res \in SkipResults(HeldRun(v), workers[v].node)
    BY <2>1, Zenon DEF Execute, SkipLate, HeldRun
  <2>4. workers'[v] = Executed(v, res)
    BY <2>3 DEF IInv, TypeOK
  <2>5. /\ workers'[v].node = workers[v].node
        /\ workers'[v].kind = workers[v].kind
        /\ workers'[v].step = workers[v].step
        /\ workers'[v].res = res
    BY <2>2, <2>4 DEF Executed, WorkerState
  <2>6. ~Gone(v)
    BY <2>1, <2>5 DEF Gone, HeldRun, Execute, SkipLate
  <2>10. BusyOnPath(v)
    BY <1>0, <2>2, <2>5, PathShrinks DEF IInv, BusyOnPath
  <2>7. /\ HeldRun(v) \in RunRow
        /\ HeldRun(v).status \in {"active", "waiting"}
        /\ HeldRun(v).node = workers[v].node
        /\ HeldRun(v).status = "waiting" => IsWait(workers[v].node)
    BY <2>2, <2>6, <2>10, StillThere
  <2>8. workers[v].kind = "timeout" => IsWait(workers[v].node)
    BY <2>2, <2>10 DEF IInv, HeldInv
  <2>9. GoodResult(workers[v].node, workers[v].kind, res)
    BY <2>2, <2>3, <2>7, <2>8, GoodResults
  <2> QED
    BY <2>5, <2>9
<1> QED
  BY <1>1, <1>2

LEMMA ItemsStep ==
    ASSUME IInv, [Next]_vars
    PROVE  ItemsInv'
<1>0. \A r : r \in OnPath' => r \in OnPath /\ r \in Run
  BY PathShrinks DEF IInv
<1>1. ASSUME NEW p \in Projector, NEW ev \in Event, ReadWaitingRuns(p, ev)
      PROVE  ItemsInv'
  <2> SUFFICES ASSUME NEW q \in Projector, NEW it \in projectors'[q].items,
                      it[1] \in OnPath'
               PROVE  IsWait(it[2])
    BY DEF ItemsInv, IsWait
  <2>1. CASE q # p
    BY <1>0, <1>1, <2>1 DEF ReadWaitingRuns, IInv, TypeOK, ItemsInv
  <2>2. CASE q = p
    <3>1. projectors'[q].items = {<<r, runs[r].node>> : r \in
            {x \in Run : runs[x].status = "waiting" /\ runs[x].wait = ev}}
      BY <1>1, <2>2 DEF ReadWaitingRuns, IInv, TypeOK
    <3>2. PICK r \in Run : /\ runs[r].status = "waiting"
                           /\ it = <<r, runs[r].node>>
      BY <3>1
    <3> QED
      BY <1>0, <3>2 DEF IInv, RunsInv
  <2> QED
    BY <2>1, <2>2
<1>2. ASSUME NEW p \in Projector, ResolveWaitingRuns(p) \/ ProjectionAborts(p)
      PROVE  ItemsInv'
  <2>1. /\ projectors \in [Projector -> ProjectorState]
        /\ projectors' = [projectors EXCEPT ![p] = IdleProjector]
    BY <1>2 DEF ResolveWaitingRuns, ProjectionAborts, IInv, TypeOK
  <2>2. \A q \in Projector : projectors'[q].items = {}
                             \/ projectors'[q].items = projectors[q].items
    BY <2>1 DEF IdleProjector
  <2> QED
    BY <1>0, <2>2 DEF IInv, ItemsInv, IsWait
<1>3. CASE UNCHANGED projectors
  BY <1>0, <1>3 DEF IInv, ItemsInv, IsWait
<1> QED
  BY <1>1, <1>2, <1>3 DEF Next, WorkerStep, ClaimJourneyStep,
     ClaimNothing, Execute, ExecuteAction, SkipLate,
     RescheduleJourneyStep, FailJourneyStep, AdvanceRunTx, AdvanceRejected,
     AdvanceStale, AdvanceCommit, TickError, Crash, EnrollJourneyRun,
     CancelJourneyRun, RetryJourneyStep, Clock, TimerFires, LeaseExpires,
     BecomesLate, SetJourneyVersionStatus, vars

\* The statuses of a step that still stands for its run.
Standing == {"pending", "processing", "failed", "dead"}
Carries(t) == Matches(t) /\ steps[t].status \in Standing

\* A run that does not move keeps its work as long as no carrying step is
\* completed or deleted.
LEMMA WorkStays ==
    ASSUME IInv, NEW r \in OnPath, runs'[r] = runs[r], Inside(r),
           \A t \in Step : RunOf(t) = r /\ Carries(t) =>
              /\ steps'[t].node = steps[t].node
              /\ steps'[t].kind = steps[t].kind
              /\ steps'[t].status \in Standing
    PROVE  \E t \in Step : RunOf(t) = r /\ Carries(t)'
<1>1. PICK t \in Step : RunOf(t) = r /\ Carries(t)
  BY DEF IInv, WorkConserved, HasWork, Inside, Carries, Matches, Standing
<1>2. Carries(t)'
  BY <1>1 DEF Carries, Matches
<1> QED
  BY <1>1, <1>2

LEMMA WorkStep ==
    ASSUME IInv, Acyclic, [Next]_vars
    PROVE  WorkConserved'
<1> SUFFICES ASSUME NEW r \in OnPath', Inside(r)'
             PROVE  \E t \in Step : RunOf(t) = r /\ Carries(t)'
  BY DEF WorkConserved, HasWork, Inside, Carries, Matches, Standing
<1>path. r \in OnPath /\ r \in Run
  BY PathShrinks DEF IInv
<1> USE <1>path
<1> USE DEF Standing
<1>0. \A t \in Step : steps[t] \in StepRow
  BY DEF IInv, TypeOK
<1>1. ASSUME runs' = runs,
             \A t \in Step : Carries(t) =>
                /\ steps'[t].node = steps[t].node
                /\ steps'[t].kind = steps[t].kind
                /\ steps'[t].status \in Standing
      PROVE  \E t \in Step : RunOf(t) = r /\ Carries(t)'
  BY <1>1, WorkStays DEF Inside
<1>2. ASSUME runs' = runs, NEW s \in Step,
             steps' = [steps EXCEPT ![s] = steps'[s]],
             steps'[s].node = steps[s].node,
             steps'[s].kind = steps[s].kind,
             steps'[s].status \in Standing
      PROVE  \E t \in Step : RunOf(t) = r /\ Carries(t)'
  <2>1. \A t \in Step : t # s => steps'[t] = steps[t]
    BY <1>2 DEF IInv, TypeOK
  <2> QED
    BY <1>1, <1>2, <2>1 DEF Carries
<1>3. ASSUME NEW t \in Step, RunOf(t) = r, NEW wh,
             steps'[t] = NewStep(runs'[r].node,
               IF runs'[r].status = "waiting" THEN "timeout" ELSE "advance", wh)
      PROVE  \E x \in Step : RunOf(x) = r /\ Carries(x)'
  BY <1>3 DEF NewStep, Carries, Matches, StatusFor, Inside
<1>4. ASSUME NEW w \in Worker, NEW s \in Step, ClaimJourneyStep(w, s)
      PROVE  \E t \in Step : RunOf(t) = r /\ Carries(t)'
  <2>1. \A t \in Step : /\ Sweep[t].node = steps[t].node
                        /\ Sweep[t].kind = steps[t].kind
                        /\ Carries(t) => Sweep[t].status \in Standing
    BY <1>0 DEF Sweep, StepRow, Carries
  <2>2. \A t \in Step : t # s => steps'[t] = Sweep[t]
    BY <1>4, SweepType DEF ClaimJourneyStep, IInv
  <2>3. steps'[s] = ClaimedRow(Sweep[s]) /\ Sweep[s] \in StepRow
    BY <1>4, SweepType DEF ClaimJourneyStep, IInv
  <2>4. /\ steps'[s].node = Sweep[s].node /\ steps'[s].kind = Sweep[s].kind
        /\ steps'[s].status = "processing"
    BY <2>3 DEF ClaimedRow, StepRow
  <2> QED
    BY <1>1, <1>4, <2>1, <2>2, <2>4 DEF ClaimJourneyStep
<1>5. ASSUME NEW w \in Worker, ClaimNothing(w)
      PROVE  \E t \in Step : RunOf(t) = r /\ Carries(t)'
  <2>1. \A t \in Step : /\ Sweep[t].node = steps[t].node
                        /\ Sweep[t].kind = steps[t].kind
                        /\ Carries(t) => Sweep[t].status \in Standing
    BY <1>0 DEF Sweep, StepRow, Carries
  <2> QED
    BY <1>1, <1>5, <2>1 DEF ClaimNothing
<1>6. ASSUME NEW s \in Step, steps[s] \in StepRow,
             \/ steps'[s] = FailedRow(steps[s])
             \/ \E wh : steps'[s] = RequeuedRow(steps[s], wh)
      PROVE  /\ steps'[s].node = steps[s].node
             /\ steps'[s].kind = steps[s].kind
             /\ steps'[s].status \in Standing
  BY <1>6 DEF FailedRow, RequeuedRow, StepRow
<1>7. ASSUME NEW w \in Worker, RescheduleJourneyStep(w) \/ FailJourneyStep(w)
      PROVE  \E t \in Step : RunOf(t) = r /\ Carries(t)'
  <2>1. workers[w].step \in Step
    BY <1>7, BusyState DEF IInv, RescheduleJourneyStep, FailJourneyStep
  <2>2. CASE steps' = steps
    BY <1>1, <1>7, <2>2 DEF RescheduleJourneyStep, FailJourneyStep, Carries
  <2>3. CASE steps' # steps
    <3> DEFINE s == workers[w].step
    <3>1. \/ steps' = [steps EXCEPT ![s] = FailedRow(steps[s])]
          \/ steps' = [steps EXCEPT ![s] = RequeuedRow(steps[s], "future")]
      BY <1>7, <2>3 DEF RescheduleJourneyStep, FailJourneyStep
    <3>2. steps \in [Step -> StepRow]
      BY DEF IInv, TypeOK
    <3>3. /\ steps' = [steps EXCEPT ![s] = steps'[s]]
          /\ \/ steps'[s] = FailedRow(steps[s])
             \/ steps'[s] = RequeuedRow(steps[s], "future")
      BY <2>1, <3>1, <3>2
    <3>4. runs' = runs
      BY <1>7 DEF RescheduleJourneyStep, FailJourneyStep
    <3> QED
      BY <1>0, <1>2, <1>6, <2>1, <3>3, <3>4
  <2> QED
    BY <2>2, <2>3
<1>8. ASSUME NEW w \in Worker, AdvanceStale(w)
      PROVE  \E t \in Step : RunOf(t) = r /\ Carries(t)'
  <2>1. workers[w].step \in Step /\ ~Carries(workers[w].step)
    BY <1>8, BusyState DEF IInv, AdvanceStale, AdvanceApplies, Carries
  <2>2. \A t \in Step : t # workers[w].step => steps'[t] = steps[t]
    BY <1>8, <2>1 DEF AdvanceStale, IInv, TypeOK
  <2> QED
    BY <1>1, <1>8, <2>1, <2>2 DEF AdvanceStale, Carries
<1>9. ASSUME NEW w \in Worker, AdvanceCommit(w)
      PROVE  \E t \in Step : RunOf(t) = r /\ Carries(t)'
  <2> DEFINE s == workers[w].step
             res == workers[w].res
  <2>1. /\ s \in Step /\ RunOf(s) \in Run /\ res \in Result
    BY <1>9, BusyState DEF AdvanceCommit, IInv
  <2>2. res.next # "none" => /\ FreshStep(RunOf(s)) \in Step
                             /\ RunOf(FreshStep(RunOf(s))) = RunOf(s)
    BY <1>9, <2>1, FreshStepIsFresh DEF AdvanceCommit
  <2>3. CASE RunOf(s) # r
    <3>1. \A t \in Step : RunOf(t) = r => steps'[t] = steps[t]
      BY <1>9, <2>1, <2>2, <2>3 DEF AdvanceCommit, IInv, TypeOK
    <3>2. runs'[r] = runs[r]
      BY <1>9, <2>1, <2>3 DEF AdvanceCommit, IInv, TypeOK
    <3> QED
      BY <3>1, <3>2, WorkStays DEF Inside, Carries
  <2>4. CASE RunOf(s) = r
    <3>1. runs'[r].status = res.status /\ runs'[r].node = res.node
      BY <1>9, <2>1, <2>4 DEF AdvanceCommit, IInv, TypeOK
    <3>2. GoodResult(workers[w].node, workers[w].kind, res)
      BY <1>9, <2>4, AppliedResult DEF AdvanceCommit
    <3>3. /\ res.next # "none"
          /\ res.next = IF runs'[r].status = "waiting" THEN "timeout"
                                                       ELSE "advance"
      BY <3>1, <3>2 DEF GoodResult, Inside
    <3>4. steps'[FreshStep(r)] =
            NewStep(res.node, res.next, IF res.later THEN "future" ELSE "due")
      BY <1>9, <2>1, <2>2, <2>4, <3>3 DEF AdvanceCommit, IInv, TypeOK
    <3> QED
      BY <1>3, <2>2, <2>4, <3>1, <3>3, <3>4
  <2> QED
    BY <2>3, <2>4
<1>10. ASSUME NEW p \in Projector, ResolveWaitingRuns(p)
       PROVE  \E t \in Step : RunOf(t) = r /\ Carries(t)'
  <2>1. CASE Resolves(p, r) = {}
    <3>1. runs'[r] = runs[r] /\ \A t \in Step : RunOf(t) = r =>
                                               steps'[t] = steps[t]
      BY <1>10, <2>1 DEF ResolveWaitingRuns
    <3> QED
      BY <3>1, WorkStays DEF Inside, Carries
  <2>2. CASE Resolves(p, r) # {}
    <3>1. FreshStep(r) \in Step /\ RunOf(FreshStep(r)) = r
      BY <1>10, <2>2, FreshStepIsFresh DEF ResolveWaitingRuns
    <3>2. runs'[r].status = "active" /\ runs'[r].node = ResolvedNode(p, r)
      BY <1>10, <2>2 DEF ResolveWaitingRuns, IInv, TypeOK, RunRow
    <3>3. steps'[FreshStep(r)] =
            NewStep(ResolvedNode(p, r), "advance", "due")
      BY <1>10, <2>2, <3>1 DEF ResolveWaitingRuns
    <3> QED
      BY <1>3, <3>1, <3>2, <3>3
  <2> QED
    BY <2>1, <2>2
<1>11. ASSUME NEW q \in Run, EnrollJourneyRun(q)
       PROVE  \E t \in Step : RunOf(t) = r /\ Carries(t)'
  <2>1. FreshStep(q) \in Step /\ RunOf(FreshStep(q)) = q
    BY <1>11, FreshStepIsFresh DEF EnrollJourneyRun
  <2>2. CASE q = r
    <3>1. runs'[r].status = "active" /\ runs'[r].node = EntryNode
      BY <1>11, <2>2 DEF EnrollJourneyRun, IInv, TypeOK, RunRow, RunsInv
    <3>2. steps'[FreshStep(q)] = NewStep(EntryNode, "advance", "due")
      BY <1>11, <2>1 DEF EnrollJourneyRun, IInv, TypeOK
    <3> QED
      BY <1>3, <2>1, <2>2, <3>1, <3>2
  <2>3. CASE q # r
    <3>1. runs'[r] = runs[r] /\ \A t \in Step : RunOf(t) = r =>
                                               steps'[t] = steps[t]
      BY <1>11, <2>1, <2>3 DEF EnrollJourneyRun, IInv, TypeOK
    <3> QED
      BY <3>1, WorkStays DEF Inside, Carries
  <2> QED
    BY <2>2, <2>3
<1>12. ASSUME NEW q \in Run, CancelJourneyRun(q)
       PROVE  \E t \in Step : RunOf(t) = r /\ Carries(t)'
  <2>1. q # r
    BY <1>12 DEF CancelJourneyRun, Inside, IInv, TypeOK, RunRow
  <2>2. runs'[r] = runs[r] /\ \A t \in Step : RunOf(t) = r =>
                                             steps'[t] = steps[t]
    BY <1>12, <2>1 DEF CancelJourneyRun, IInv, TypeOK
  <2> QED
    BY <2>2, WorkStays DEF Inside, Carries
<1>13. ASSUME NEW s \in Step, RetryJourneyStep(s)
       PROVE  \E t \in Step : RunOf(t) = r /\ Carries(t)'
  <2>1. steps \in [Step -> StepRow]
    BY DEF IInv, TypeOK
  <2>2. /\ steps' = [steps EXCEPT ![s] = steps'[s]]
        /\ steps'[s] = RequeuedRow(steps[s], "due") /\ runs' = runs
    BY <1>13, <2>1 DEF RetryJourneyStep
  <2> QED
    BY <1>0, <1>2, <1>6, <2>2
<1>14. ASSUME NEW s \in Step, Clock(s) \/ BecomesLate(s)
       PROVE  \E t \in Step : RunOf(t) = r /\ Carries(t)'
  <2>1. /\ \/ \E wh : steps' = [steps EXCEPT ![s].when = wh]
           \/ steps' = [steps EXCEPT ![s].leased = FALSE]
        /\ steps[s].status \in Standing /\ runs' = runs
    BY <1>14 DEF Clock, TimerFires, LeaseExpires, BecomesLate
  <2>2. /\ steps' = [steps EXCEPT ![s] = steps'[s]]
        /\ steps'[s].node = steps[s].node
        /\ steps'[s].kind = steps[s].kind
        /\ steps'[s].status = steps[s].status
    BY <1>0, <2>1 DEF IInv, TypeOK, StepRow
  <2> QED
    BY <1>2, <2>1, <2>2
<1>15. CASE UNCHANGED <<runs, steps>>
  BY <1>1, <1>15 DEF Carries
<1> QED
  BY <1>4, <1>5, <1>7, <1>8, <1>9, <1>10, <1>11, <1>12, <1>13, <1>14, <1>15
     DEF Next, WorkerStep, Execute, ExecuteAction, SkipLate,
     AdvanceRunTx, AdvanceRejected, TickError, Crash, ReadWaitingRuns,
     ProjectionAborts, SetJourneyVersionStatus, vars

-----------------------------------------------------------------------------
(***************************************************************************)
(* The recorded history.                                                   *)
(***************************************************************************)

\* What node.execute and the skip policy compute will be recorded as it is.
LEMMA GoodRecords ==
    ASSUME NEW snap \in RunRow, NEW n \in Node, NEW kind \in Kind
    PROVE  /\ \A res \in ExecuteResults(snap, n, kind) : GoodRecord(res)
           /\ \A res \in SkipResults(snap, n) : GoodRecord(res)
<1>1. \A m : NodeType[n] \in StraightTypes =>
               GoodRecord(StraightResult(snap, n, m))
  BY DEF StraightResult, Moved, GoodRecord, StraightTypes
<1>2. \A m : GoodRecord(Moved(snap, m, "branch"))
  BY DEF Moved, GoodRecord
<1>3. /\ GoodRecord(EndResult(snap, "exited")) /\ GoodRecord(SkipEnd(snap))
      /\ GoodRecord(WaitResult(snap, n))
  BY DEF EndResult, SkipEnd, WaitResult, Moved, GoodRecord
<1>4. \A m : GoodRecord(TimeoutResult(snap, m)) /\ GoodRecord(SkipResult(snap, m))
  BY DEF TimeoutResult, SkipResult, Moved, GoodRecord
<1>5. \A res \in ExecuteResults(snap, n, kind) : GoodRecord(res)
  <2>1. CASE NodeType[n] \in StraightTypes
    <3>1. ExecuteResults(snap, n, kind) = ExecStraight(snap, n)
      BY <2>1, TypesDisjoint DEF ExecuteResults
    <3> QED
      BY <1>1, <2>1, <3>1 DEF ExecStraight
  <2>2. CASE NodeType[n] \in BranchTypes
    <3>1. ExecuteResults(snap, n, kind) = ExecBranch(snap, n)
      BY <2>2, TypesDisjoint DEF ExecuteResults
    <3> QED
      BY <1>2, <3>1 DEF ExecBranch
  <2>3. CASE NodeType[n] = "exit"
    BY <1>3, <2>3, TypesDisjoint DEF ExecuteResults
  <2>4. CASE NodeType[n] = "wait_event"
    <3>1. ExecuteResults(snap, n, kind) = ExecWait(snap, n, kind)
      BY <2>4, TypesDisjoint DEF ExecuteResults
    <3> QED
      BY <1>3, <1>4, <3>1 DEF ExecWait
  <2> QED
    BY <2>1, <2>2, <2>3, <2>4, GraphAssumption DEF NodeTypes
<1>6. \A res \in SkipResults(snap, n) : GoodRecord(res)
  BY <1>3, <1>4 DEF SkipResults
<1> QED
  BY <1>5, <1>6

LEMMA RecordStep ==
    ASSUME TypeOK, RecordInv, [Next]_vars
    PROVE  RecordInv'
<1> SUFFICES ASSUME NEW v \in Worker, workers'[v].pc = "executed"
             PROVE  GoodRecord(workers'[v].res)
  BY DEF RecordInv, GoodRecord
<1>1. CASE workers'[v] = workers[v]
  BY <1>1 DEF RecordInv
<1>2. CASE workers'[v] # workers[v]
  <2>1. Execute(v) \/ SkipLate(v)
    BY <1>2, WorkerMoves, PcAfter
  <2>2. /\ workers[v] \in WorkerState /\ workers[v].node \in Node
        /\ workers[v].kind \in Kind /\ HeldRun(v) \in RunRow
    BY <2>1, BusyState DEF Execute, SkipLate, TypeOK, HeldRun
  <2>3. PICK res \in ExecuteResults(HeldRun(v), workers[v].node,
                                    workers[v].kind)
                     \cup SkipResults(HeldRun(v), workers[v].node) :
          workers' = [workers EXCEPT ![v] = Executed(v, res)]
    BY <2>1, Zenon DEF Execute, SkipLate, HeldRun
  <2>4. workers'[v] = Executed(v, res)
    BY <2>3 DEF TypeOK
  <2>5. workers'[v].res = res
    BY <2>2, <2>4 DEF Executed, WorkerState
  <2> QED
    BY <2>2, <2>3, <2>5, GoodRecords
<1> QED
  BY <1>1, <1>2

\* An edge leads to a higher rank.
LEMMA EdgeRank ==
    ASSUME Acyclic, NEW n \in Node, NEW e \in Out(n)
    PROVE  Rank[n] \in Nat /\ Rank[e.to] \in Nat /\ Rank[n] < Rank[e.to]
  BY GraphAssumption DEF Acyclic, Out

\* Every step of the system records exactly the moves it makes.
LEMMA TransitionStep ==
    ASSUME IInv, Acyclic, [Next]_vars, NEW r \in OnPath'
    PROVE  Unrecorded(r) \/ \E t \in Transition : Recorded(r, t)
<1>path. r \in OnPath /\ r \in Run
  BY PathShrinks DEF IInv
<1> USE <1>path
<1> USE DEF IInv
<1>1. ASSUME NEW w \in Worker, AdvanceCommit(w)
      PROVE  Unrecorded(r) \/ \E t \in Transition : Recorded(r, t)
  <2> DEFINE s == workers[w].step
             n == workers[w].node
             res == workers[w].res
             t == [from |-> n, to |-> res.to, outcome |-> res.outcome]
  <2>1. s \in Step /\ RunOf(s) \in Run /\ n \in Node /\ res \in Result
    BY <1>1, BusyState DEF AdvanceCommit
  <2>3. CASE RunOf(s) # r
    <3>1. transitions'[r] = transitions[r] /\ runs'[r] = runs[r]
      BY <1>1, <2>3 DEF AdvanceCommit, TypeOK
    <3> QED
      BY <2>3, <3>1 DEF Unrecorded
  <2>4. CASE RunOf(s) = r
    <3>1. /\ Inside(r) /\ runs[r].node = n
          /\ GoodResult(n, workers[w].kind, res) /\ GoodRecord(res)
      BY <1>1, <2>4, AppliedResult DEF AdvanceCommit, HeldRun, Inside, RecordInv
    <3>2. /\ runs'[r].status = res.status /\ runs'[r].node = res.node
          /\ transitions'[r] = Append(transitions[r], t)
      BY <1>1, <2>1, <2>4 DEF AdvanceCommit, TypeOK
    <3>3. t \in Transition
      BY <2>1 DEF Transition, Result
    <3>4. EndOf(t) = res.node
      <4>1. res.node \in Node
        BY <2>1 DEF Result
      <4> QED
        BY <3>1, <4>1, GraphAssumption DEF EndOf, GoodRecord, GoodResult
    <3>5. \/ t.outcome = "waiting" /\ res.node = n
          \/ Rank[n] < Rank[res.node]
          \/ res.status = "completed"
      BY <2>1, <3>1, EdgeRank DEF GoodResult, GoodRecord
    <3>7. Recorded(r, t)
      BY <3>1, <3>2, <3>4, <3>5 DEF Recorded
    <3> QED
      BY <3>3, <3>7
  <2> QED
    BY <2>3, <2>4
<1>2. ASSUME NEW p \in Projector, ResolveWaitingRuns(p)
      PROVE  Unrecorded(r) \/ \E t \in Transition : Recorded(r, t)
  <2>1. CASE Resolves(p, r) = {}
    BY <1>2, <2>1 DEF ResolveWaitingRuns, Unrecorded
  <2>2. CASE Resolves(p, r) # {}
    <3> DEFINE m == ResolvedNode(p, r)
               src == ResolvedFrom(p, r)
               t == [from |-> src, to |-> m, outcome |-> "success"]
    <3>1. transitions'[r] = Append(transitions[r], t)
      BY <1>2, <2>2, Zenon DEF ResolveWaitingRuns
    <3>2. /\ runs[r].status = "waiting" /\ src = runs[r].node
          /\ \E e \in Out(runs[r].node) : e.to = m
      BY <1>2, <2>2, ResolvedHere
    <3> HIDE DEF src
    <3>3. runs[r].node \in Node
      BY DEF TypeOK, RunRow
    <3>4. m \in Node /\ Rank[runs[r].node] < Rank[m]
      BY <3>2, <3>3, EdgeRank, GraphAssumption DEF Out
    <3>5. runs'[r].node = m
      BY <1>2, <2>2 DEF ResolveWaitingRuns, TypeOK, RunRow
    <3> HIDE DEF m
    <3>6. t \in Transition
      BY <3>2, <3>3, <3>4 DEF Transition, Outcome
    <3>7. EndOf(t) = m
      BY <3>4, GraphAssumption DEF EndOf
    <3>8. Recorded(r, t)
      BY <3>1, <3>2, <3>4, <3>5, <3>7 DEF Recorded, Inside
    <3> QED
      BY <3>6, <3>8
  <2> QED
    BY <2>1, <2>2
<1>3. ASSUME NEW q \in Run, EnrollJourneyRun(q) \/ CancelJourneyRun(q)
      PROVE  Unrecorded(r)
  <2>1. /\ transitions' = transitions
        /\ runs[r] \in RunRow /\ runs[q] \in RunRow
    BY <1>3 DEF EnrollJourneyRun, CancelJourneyRun, TypeOK
  <2>2. CASE q # r
    <3>1. runs'[r] = runs[r]
      BY <1>3, <2>2 DEF EnrollJourneyRun, CancelJourneyRun, TypeOK
    <3> QED
      BY <2>1, <3>1 DEF Unrecorded
  <2>3. CASE q = r
    <3>1. runs'[r].node = runs[r].node /\ runs[r].status # "completed"
      BY <1>3, <2>1, <2>3 DEF EnrollJourneyRun, CancelJourneyRun, TypeOK, RunRow
    <3> QED
      BY <2>1, <3>1 DEF Unrecorded
  <2> QED
    BY <2>2, <2>3
<1>4. CASE UNCHANGED <<runs, transitions>>
  BY <1>4 DEF Unrecorded
<1> QED
  BY <1>1, <1>2, <1>3, <1>4 DEF Next, WorkerStep, ClaimJourneyStep,
     ClaimNothing, Execute, ExecuteAction, SkipLate,
     RescheduleJourneyStep, FailJourneyStep, AdvanceRunTx, AdvanceRejected,
     AdvanceStale, TickError, Crash, ReadWaitingRuns, ProjectionAborts,
     RetryJourneyStep, Clock, TimerFires, LeaseExpires, BecomesLate,
     SetJourneyVersionStatus, vars

\* The entries of a history with one more transition.
LEMMA AppendedHistory ==
    ASSUME NEW S, NEW h \in Seq(S), NEW t \in S, NEW g, g = Append(h, t)
    PROVE  /\ Len(g) = Len(h) + 1 /\ g # <<>> /\ g[Len(g)] = t
           /\ DOMAIN h = 1..Len(h) /\ DOMAIN g = 1..(Len(h) + 1)
           /\ Len(h) \in Nat
           /\ \A i \in 1..Len(h) : g[i] = h[i] /\ h[i] \in S
           /\ g[Len(h) + 1] = t
           /\ Len(h) = 0 <=> h = <<>>
  OBVIOUS

\* Every step of the system inserts an intent with the transition that says
\* so, or neither.
LEMMA SendStep ==
    ASSUME TypeOK, RecordInv, [Next]_vars, NEW r \in Run
    PROVE  Silent(r) \/ \E t \in Transition : Sends(r, t)
<1>1. ASSUME NEW w \in Worker, AdvanceCommit(w)
      PROVE  Silent(r) \/ \E t \in Transition : Sends(r, t)
  <2> DEFINE s == workers[w].step
             n == workers[w].node
             res == workers[w].res
             t == [from |-> n, to |-> res.to, outcome |-> res.outcome]
  <2>1. s \in Step /\ RunOf(s) \in Run /\ n \in Node /\ res \in Result
    BY <1>1, BusyState DEF AdvanceCommit
  <2>2. intents' = IF res.intent THEN intents \cup {<<RunOf(s), n>>} ELSE intents
    BY <1>1 DEF AdvanceCommit
  <2>3. CASE RunOf(s) # r
    <3>1. transitions'[r] = transitions[r]
      BY <1>1, <2>3 DEF AdvanceCommit, TypeOK
    <3> QED
      BY <2>2, <2>3, <3>1 DEF Silent
  <2>4. CASE RunOf(s) = r
    <3>1. transitions'[r] = Append(transitions[r], t)
      BY <1>1, <2>1, <2>4 DEF AdvanceCommit, TypeOK
    <3>2. t \in Transition
      BY <2>1 DEF Transition, Result
    <3>3. res.intent <=> t.outcome = "message"
      BY <1>1 DEF AdvanceCommit, RecordInv, GoodRecord
    <3>4. ASSUME NEW m \in Node
          PROVE  <<r, m>> \in intents' <=>
                   <<r, m>> \in intents \/ (m = n /\ t.outcome = "message")
      BY <2>2, <2>4, <3>3
    <3>5. Sends(r, t)
      BY <3>1, <3>4 DEF Sends
    <3> QED
      BY <3>2, <3>5
  <2> QED
    BY <2>3, <2>4
<1>2. ASSUME NEW p \in Projector, ResolveWaitingRuns(p)
      PROVE  Silent(r) \/ \E t \in Transition : Sends(r, t)
  <2>1. CASE Resolves(p, r) = {}
    BY <1>2, <2>1 DEF ResolveWaitingRuns, Silent
  <2>2. CASE Resolves(p, r) # {}
    <3> DEFINE m == ResolvedNode(p, r)
               src == ResolvedFrom(p, r)
               t == [from |-> src, to |-> m, outcome |-> "success"]
    <3>1. transitions'[r] = Append(transitions[r], t)
      BY <1>2, <2>2, Zenon DEF ResolveWaitingRuns
    <3>2. PICK it \in projectors[p].items :
            it[2] = src /\ \E e \in Out(it[2]) : e.to = m
      BY <2>2, ResolvedEdge
    <3>3. it \in Run \X Node
      BY DEF TypeOK, ProjectorState
    <3>4. m \in Node
      BY <3>2, GraphAssumption DEF Out
    <3>5. src \in Node
      BY <3>2, <3>3
    <3> HIDE DEF src, m
    <3>6. t \in Transition
      BY <3>4, <3>5 DEF Transition, Outcome
    <3>7. intents' = intents
      BY <1>2 DEF ResolveWaitingRuns
    <3>8. Sends(r, t)
      BY <3>1, <3>7 DEF Sends
    <3> QED
      BY <3>6, <3>8
  <2> QED
    BY <2>1, <2>2
<1>3. CASE UNCHANGED <<transitions, intents>>
  BY <1>3 DEF Silent
<1> QED
  BY <1>1, <1>2, <1>3 DEF Next, WorkerStep, ClaimJourneyStep,
     ClaimNothing, Execute, ExecuteAction, SkipLate,
     RescheduleJourneyStep, FailJourneyStep, AdvanceRunTx, AdvanceRejected,
     AdvanceStale, TickError, Crash, ReadWaitingRuns, ProjectionAborts,
     EnrollJourneyRun, CancelJourneyRun, RetryJourneyStep, Clock, TimerFires,
     LeaseExpires, BecomesLate, SetJourneyVersionStatus, vars

LEMMA EffectsStep ==
    ASSUME TypeOK, RecordInv, EffectsMatchHistory, [Next]_vars
    PROVE  EffectsMatchHistory'
<1> DEFINE Matching(r, S, h) ==
             \A n \in Node : <<r, n>> \in S <=>
                 \E i \in DOMAIN h : h[i].from = n /\ h[i].outcome = "message"
<1>1. ASSUME NEW r \in Run PROVE Matching(r, intents', transitions'[r])
  <2> DEFINE h == transitions[r]
             g == transitions'[r]
  <2>1. Matching(r, intents, h) /\ h \in Seq(Transition)
    BY DEF EffectsMatchHistory, TypeOK
  <2>2. CASE Silent(r)
    BY <2>1, <2>2 DEF Silent
  <2>3. ASSUME NEW t \in Transition, Sends(r, t)
        PROVE  Matching(r, intents', g)
    <3>1. g = Append(h, t)
      BY <2>3 DEF Sends
    <3>0. h \in Seq(Transition)
      BY <2>1
    <3> HIDE DEF h, g
    <3>2. /\ DOMAIN h = 1..Len(h) /\ DOMAIN g = 1..(Len(h) + 1)
          /\ Len(h) \in Nat
          /\ \A i \in 1..Len(h) : g[i] = h[i] /\ h[i] \in Transition
          /\ g[Len(h) + 1] = t
      BY ONLY <3>0, <3>1, t \in Transition, AppendedHistory
    <3> SUFFICES ASSUME NEW n \in Node
                 PROVE  <<r, n>> \in intents' <=>
                          \E i \in DOMAIN g : /\ g[i].from = n
                                              /\ g[i].outcome = "message"
      BY DEF g
    <3>3. <<r, n>> \in intents' <=>
            <<r, n>> \in intents \/ (n = t.from /\ t.outcome = "message")
      BY <2>3 DEF Sends
    <3>4. <<r, n>> \in intents <=>
            \E i \in 1..Len(h) : g[i].from = n /\ g[i].outcome = "message"
      <4>1. <<r, n>> \in intents <=>
              \E i \in DOMAIN h : h[i].from = n /\ h[i].outcome = "message"
        BY <2>1
      <4> QED
        BY ONLY <4>1, <3>2
    <3>5. Len(h) + 1 \in DOMAIN g /\ \A i \in 1..Len(h) : i \in DOMAIN g
      BY <3>2
    <3>6. \A i \in DOMAIN g : i \in 1..Len(h) \/ g[i] = t
      BY <3>2
    <3> QED
      BY <3>2, <3>3, <3>4, <3>5, <3>6
  <2> QED
    BY <2>2, <2>3, SendStep
<1> QED
  BY ONLY <1>1, Zenon DEF EffectsMatchHistory

LEMMA HistoryStep ==
    ASSUME IInv, Acyclic, [Next]_vars
    PROVE  HistoryInv'
<1> DEFINE Explained(h, n) ==
             /\ n = IF h = <<>> THEN EntryNode ELSE EndOf(h[Len(h)])
             /\ \A i \in 1..(Len(h) - 1) : h[i + 1].from = EndOf(h[i])
           Left(h, run) ==
             \A i \in DOMAIN h : \/ h[i].outcome = "waiting"
                                 \/ Rank[h[i].from] < Rank[run.node]
                                 \/ run.status = "completed"
           Once(h) ==
             \A i, j \in DOMAIN h : i # j /\ h[i].from = h[j].from
                 => "waiting" \in {h[i].outcome, h[j].outcome}
<1>1. ASSUME NEW r \in OnPath'
      PROVE  /\ Explained(transitions'[r], runs'[r].node)
             /\ Left(transitions'[r], runs'[r])
             /\ Once(transitions'[r])
  <2>0. r \in OnPath /\ r \in Run
    BY PathShrinks DEF IInv
  <2> DEFINE h == transitions[r]
             g == transitions'[r]
  <2>1. /\ Explained(h, runs[r].node) /\ Left(h, runs[r]) /\ Once(h)
    BY <2>0 DEF IInv, HistoryInv, HistoryExplainsPosition, LeftInv,
       LeavesEachNodeOnce
  <2>2. /\ h \in Seq(Transition) /\ runs[r] \in RunRow /\ runs'[r] \in RunRow
        /\ runs[r].node \in Node /\ runs'[r].node \in Node
    BY <2>0, NextTypeOK DEF IInv, TypeOK, RunRow
  <2>3. CASE Unrecorded(r)
    BY <2>1, <2>3 DEF Unrecorded
  <2>4. ASSUME NEW t \in Transition, Recorded(r, t)
        PROVE  /\ Explained(g, runs'[r].node) /\ Left(g, runs'[r])
               /\ Once(g)
    <3>1. g = Append(h, t)
      BY <2>4 DEF Recorded
    <3>0. h \in Seq(Transition)
      BY <2>2
    <3> HIDE DEF h, g
    <3>2. /\ Len(g) = Len(h) + 1 /\ g # <<>> /\ g[Len(g)] = t
          /\ DOMAIN h = 1..Len(h) /\ DOMAIN g = 1..(Len(h) + 1)
          /\ Len(h) \in Nat
          /\ \A i \in 1..Len(h) : g[i] = h[i] /\ h[i] \in Transition
          /\ g[Len(h) + 1] = t
          /\ Len(h) = 0 <=> h = <<>>
      BY ONLY <3>0, <3>1, t \in Transition, AppendedHistory
    <3>3. /\ t.from = runs[r].node /\ EndOf(t) = runs'[r].node
          /\ runs[r].status # "completed"
      BY <2>4 DEF Recorded, Inside
    <3>4. \A i \in 1..Len(h) : \/ g[i].outcome = "waiting"
                               \/ Rank[g[i].from] < Rank[t.from]
      <4>1. \A i \in DOMAIN h : \/ h[i].outcome = "waiting"
                               \/ Rank[h[i].from] < Rank[runs[r].node]
        BY <2>1, <3>3 DEF h
      <4> QED
        BY ONLY <4>1, <3>2, <3>3
    <3>5. /\ t.from \in Node /\ \A i \in 1..Len(h) : g[i].from \in Node
      BY <3>2 DEF Transition
    <3>6. Explained(g, runs'[r].node)
      <4>1. runs'[r].node = EndOf(g[Len(g)])
        BY <3>2, <3>3
      <4>2. ASSUME NEW i \in 1..(Len(g) - 1)
            PROVE  g[i + 1].from = EndOf(g[i])
        <5>1. i \in 1..Len(h)
          BY <3>2
        <5>2. CASE i = Len(h)
          <6>1. h # <<>>
            BY <3>2, <5>1, <5>2
          <6>2. g[i + 1] = t /\ g[i] = h[Len(h)]
            BY <3>2, <5>1, <5>2
          <6>3. runs[r].node = EndOf(h[Len(h)])
            BY <2>1, <6>1
          <6> QED
            BY <3>3, <6>2, <6>3
        <5>3. CASE i # Len(h)
          <6>1. i + 1 \in 1..Len(h) /\ i \in 1..(Len(h) - 1)
            <7>1. Len(h) \in Nat
              BY <3>2
            <7> QED
              BY ONLY <5>1, <5>3, <7>1
          <6> QED
            BY <2>1, <3>2, <5>1, <6>1
        <5> QED
          BY <5>2, <5>3
      <4> QED
        BY <3>2, <4>1, <4>2
    <3>7. Left(g, runs'[r])
      <4>1. \/ t.outcome = "waiting" /\ runs'[r].node = t.from
            \/ Rank[t.from] < Rank[runs'[r].node]
            \/ runs'[r].status = "completed"
        BY <2>4, <3>3 DEF Recorded
      <4>2. Rank[t.from] \in Nat /\ Rank[runs'[r].node] \in Nat
        BY <2>2, <3>5 DEF Acyclic
      <4>3. \A i \in 1..Len(h) : Rank[g[i].from] \in Nat
        BY <3>5 DEF Acyclic
      <4>4. ASSUME NEW i \in 1..Len(h)
            PROVE  \/ g[i].outcome = "waiting"
                   \/ Rank[g[i].from] < Rank[runs'[r].node]
                   \/ runs'[r].status = "completed"
        BY <3>4, <4>1, <4>2, <4>3
      <4>5. \A i \in DOMAIN g : i \in 1..Len(h) \/ (i = Len(h) + 1 /\ g[i] = t)
        BY <3>2
      <4> QED
        BY <4>1, <4>4, <4>5
    <3>8. Once(g)
      <4>1. ~(Rank[t.from] < Rank[t.from])
        BY <3>5, AcyclicRank
      <4>2. ASSUME NEW i \in 1..Len(h), g[i].from = t.from
            PROVE  g[i].outcome = "waiting"
        BY <3>4, <4>1, <4>2
      <4>3. ASSUME NEW i \in 1..Len(h), NEW j \in 1..Len(h),
                   i # j, g[i].from = g[j].from
            PROVE  "waiting" \in {g[i].outcome, g[j].outcome}
        BY <2>1, <3>2, <4>3
      <4>4. \A i \in DOMAIN g : i \in 1..Len(h) \/ (i = Len(h) + 1 /\ g[i] = t)
        BY <3>2
      <4> QED
        BY <4>2, <4>3, <4>4
    <3> QED
      BY <3>6, <3>7, <3>8 DEF g
  <2> QED
    BY <2>3, <2>4, TransitionStep
<1> QED
  BY <1>1 DEF HistoryInv, HistoryExplainsPosition, LeftInv,
     LeavesEachNodeOnce, EndOf

-----------------------------------------------------------------------------
(***************************************************************************)
(* The work queue.                                                         *)
(***************************************************************************)

\* A run never goes back: it stays at its node or goes to a higher one, and
\* it is active again only after it has left the node where it waited.
LEMMA RunForward ==
    ASSUME IInv, Acyclic, [Next]_vars, NEW r \in OnPath'
    PROVE  /\ Rank[runs[r].node] \in Nat /\ Rank[runs'[r].node] \in Nat
           /\ \/ Rank[runs[r].node] < Rank[runs'[r].node]
              \/ /\ runs'[r].node = runs[r].node
                 /\ runs[r].status \notin {"none", "active"} => runs'[r].status # "active"
           /\ runs[r].status # "none" => runs'[r].status # "none"
<1>path. r \in OnPath /\ r \in Run
  BY PathShrinks DEF IInv
<1> USE <1>path
<1>1. LegalMove(r) /\ runs[r].node \in Node /\ runs'[r].node \in Node
  BY MoveStep, NextTypeOK DEF IInv, TypeOK, RunRow
<1>2. Rank[runs[r].node] \in Nat /\ Rank[runs'[r].node] \in Nat
  BY <1>1 DEF Acyclic
<1> QED
  BY <1>1, <1>2, EdgeRank DEF LegalMove

\* A step row that stands after a step stood before at the same place, or it
\* is the new one for the place its run has just come to.
LEMMA PlacesStep ==
    ASSUME IInv, Acyclic, [Next]_vars
    PROVE  StepsBehind' /\ OneStepPerPlace'
<1>1. ASSUME NEW s \in Step, RunOf(s) \in OnPath', Exists(s)'
      PROVE  \/ /\ Exists(s) /\ steps'[s].node = steps[s].node
                /\ steps'[s].kind = steps[s].kind
             \/ ~Exists(s) /\ Opened(s)
  <2>1. LegalRow(s)
    BY <1>1, RowStep
  <2> QED
    BY <1>1, <2>1 DEF LegalRow, Exists
<1>2. \A s \in Step : RunOf(s) \in Run
  BY DEF Step, RunOf
<1>3. ASSUME NEW s \in Step, RunOf(s) \in OnPath', Exists(s)'
      PROVE  LET run == runs'[RunOf(s)]
             IN  /\ run.status # "none"
                 /\ \/ Rank[steps'[s].node] < Rank[run.node]
                    \/ /\ steps'[s].node = run.node
                       /\ steps'[s].kind = "timeout" => run.status # "active"
  <2>0. RunOf(s) \in OnPath
    BY <1>3, PathShrinks DEF IInv
  <2> DEFINE r == RunOf(s)
  <2>1. /\ Rank[runs[r].node] \in Nat /\ Rank[runs'[r].node] \in Nat
        /\ \/ Rank[runs[r].node] < Rank[runs'[r].node]
           \/ /\ runs'[r].node = runs[r].node
              /\ runs[r].status \notin {"none", "active"} => runs'[r].status # "active"
        /\ runs[r].status # "none" => runs'[r].status # "none"
    BY <1>3, RunForward
  <2>2. CASE /\ Exists(s) /\ steps'[s].node = steps[s].node
             /\ steps'[s].kind = steps[s].kind
    <3>1. /\ runs[r].status # "none"
          /\ \/ Rank[steps[s].node] < Rank[runs[r].node]
             \/ /\ steps[s].node = runs[r].node
                /\ steps[s].kind = "timeout" => runs[r].status # "active"
      BY <2>0, <2>2 DEF IInv, QueueInv, StepsBehind
    <3>2. steps[s].node \in Node
      BY DEF IInv, TypeOK, StepRow
    <3>3. Rank[steps[s].node] \in Nat
      BY <3>2 DEF Acyclic
    <3> HIDE DEF r
    <3>4. \/ Rank[steps[s].node] < Rank[runs'[r].node]
          \/ /\ steps[s].node = runs'[r].node
             /\ steps[s].kind = "timeout" => runs'[r].status # "active"
      BY <2>1, <3>1, <3>3
    <3> QED
      BY <2>1, <2>2, <3>1, <3>4 DEF r
  <2>3. CASE Opened(s)
    BY <2>3 DEF Opened, StatusFor
  <2> QED
    BY <1>1, <1>3, <2>2, <2>3
<1>4. ASSUME NEW s \in Step, NEW t \in Step, RunOf(s) \in OnPath',
             Exists(s)', Exists(t)', RunOf(s) = RunOf(t),
             steps'[s].node = steps'[t].node,
             steps'[s].kind = steps'[t].kind, ~Exists(s), Opened(s),
             Exists(t), steps'[t].node = steps[t].node,
             steps'[t].kind = steps[t].kind
      PROVE  FALSE
  <2>0. RunOf(s) \in OnPath
    BY <1>4, PathShrinks DEF IInv
  <2> DEFINE r == RunOf(s)
  <2>1. /\ runs[r].status # "none"
        /\ \/ Rank[steps[t].node] < Rank[runs[r].node]
           \/ /\ steps[t].node = runs[r].node
              /\ steps[t].kind = "timeout" => runs[r].status # "active"
    BY <1>4, <2>0 DEF IInv, QueueInv, StepsBehind
  <2>2. /\ steps[t].node = runs'[r].node
        /\ runs'[r].status = StatusFor(steps[t].kind)
        /\ \/ \E e \in Out(runs[r].node) : e.to = runs'[r].node
           \/ runs[r].status = "active" /\ runs'[r].status = "waiting"
    BY <1>4, <2>1 DEF Opened
  <2>3. runs[r].node \in Node /\ Rank[runs[r].node] \in Nat
    BY <1>2 DEF IInv, TypeOK, RunRow, Acyclic
  <2>4. CASE \E e \in Out(runs[r].node) : e.to = runs'[r].node
    <3>1. Rank[runs[r].node] < Rank[runs'[r].node] /\ Rank[runs'[r].node] \in Nat
      BY <2>3, <2>4, EdgeRank
    <3> QED
      BY <2>1, <2>2, <2>3, <3>1
  <2>5. CASE runs[r].status = "active" /\ runs'[r].status = "waiting"
    <3>1. steps[t].kind = "timeout"
      BY <2>2, <2>5 DEF StatusFor
    <3>2. /\ Rank[runs'[r].node] \in Nat
          /\ \/ Rank[runs[r].node] < Rank[runs'[r].node]
             \/ runs'[r].node = runs[r].node
      BY <1>4, RunForward
    <3> QED
      BY <2>1, <2>2, <2>3, <2>5, <3>1, <3>2
  <2> QED
    BY <2>2, <2>4, <2>5
<1>5. ASSUME NEW s \in Step, NEW t \in Step, RunOf(s) \in OnPath',
             Exists(s)', Exists(t)', RunOf(s) = RunOf(t),
             steps'[s].node = steps'[t].node,
             steps'[s].kind = steps'[t].kind
      PROVE  s = t
  <2>0. RunOf(s) \in OnPath
    BY <1>5, PathShrinks DEF IInv
  <2>1. CASE Exists(s) /\ Exists(t)
    BY <1>1, <1>5, <2>0, <2>1 DEF IInv, QueueInv, OneStepPerPlace
  <2>2. CASE ~Exists(s) /\ ~Exists(t)
    BY <1>1, <1>5, <2>2 DEF Opened
  <2>3. CASE ~Exists(s) /\ Exists(t)
    BY <1>1, <1>4, <1>5, <2>3
  <2>4. CASE Exists(s) /\ ~Exists(t)
    BY <1>1, <1>4, <1>5, <2>4
  <2> QED
    BY <2>1, <2>2, <2>3, <2>4
<1>6. StepsBehind'
  BY <1>3 DEF StepsBehind, RunOf
<1>7. OneStepPerPlace'
  BY <1>5 DEF OneStepPerPlace, RunOf
<1> QED
  BY <1>6, <1>7

\* Without retries and late policies, a row that is live after a step was
\* live before, is being claimed, or is new.
LEMMA LiveStep ==
    ASSUME IInv, [Next]_vars, NEW t \in Step, Live(t)', steps[t].status # "none",
           latePolicy = "run", retries' = 0
    PROVE  Live(t) \/ Matches(t)
<1> USE DEF IInv
<1>0. steps[t] \in StepRow /\ RunOf(t) \in Run
  BY DEF TypeOK, Step, RunOf
<1>1. CASE steps'[t] = steps[t]
  BY <1>1 DEF Live
<1>2. ASSUME NEW w \in Worker, NEW s \in Step, ClaimJourneyStep(w, s)
      PROVE  Live(t) \/ Matches(t)
  <2>1. CASE t = s
    BY <1>2, <2>1 DEF ClaimJourneyStep, Claimable
  <2>2. CASE t # s
    <3>1. steps'[t] = Sweep[t]
      BY <1>2, <2>2, SweepType DEF ClaimJourneyStep
    <3> QED
      BY <1>1, <3>1 DEF Sweep, Poisoned, Live
  <2> QED
    BY <2>1, <2>2
<1>3. ASSUME NEW w \in Worker, ClaimNothing(w) PROVE Live(t) \/ Matches(t)
  BY <1>1, <1>3 DEF ClaimNothing, Sweep, Poisoned, Live
<1>4. ASSUME NEW w \in Worker, RescheduleJourneyStep(w)
      PROVE  Live(t) \/ Matches(t)
  BY <1>4 DEF RescheduleJourneyStep
<1>5. ASSUME NEW w \in Worker, FailJourneyStep(w) PROVE Live(t) \/ Matches(t)
  <2>1. t = workers[w].step => FailedRow(steps[t]).status \in {"dead", "failed"}
    BY <1>0 DEF FailedRow, StepRow
  <2>2. \/ steps'[t] = steps[t]
        \/ t = workers[w].step /\ steps'[t] = FailedRow(steps[t])
    BY <1>5 DEF FailJourneyStep, TypeOK
  <2> QED
    BY <1>1, <2>1, <2>2 DEF Live
<1>6. ASSUME NEW w \in Worker, AdvanceStale(w) \/ AdvanceCommit(w)
      PROVE  Live(t) \/ Matches(t)
  <2>1. workers[w].step \in Step /\ RunOf(workers[w].step) \in Run
    BY <1>6, BusyState DEF AdvanceStale, AdvanceCommit
  <2>2. Completed(steps[t]).status = "completed"
    BY <1>0 DEF Completed, StepRow
  <2>3. steps'[t] = steps[t] \/ steps'[t] = Completed(steps[t])
    <3>1. CASE AdvanceStale(w)
      BY <2>1, <3>1 DEF AdvanceStale, TypeOK
    <3>2. CASE AdvanceCommit(w)
      <4>1. workers[w].res.next # "none" => t # FreshStep(RunOf(workers[w].step))
        BY <2>1, <3>2, FreshStepIsFresh DEF AdvanceCommit
      <4> QED
        BY <2>1, <3>2, <4>1 DEF AdvanceCommit, TypeOK
    <3> QED
      BY <1>6, <3>1, <3>2
  <2> QED
    BY <1>1, <2>2, <2>3 DEF Live
<1>7. ASSUME NEW p \in Projector, ResolveWaitingRuns(p)
      PROVE  Live(t) \/ Matches(t)
  <2>1. Completed(steps[t]).status = "completed"
    BY <1>0 DEF Completed, StepRow
  <2>2. Resolves(p, RunOf(t)) # {} => t # FreshStep(RunOf(t))
    BY <1>0, <1>7, FreshStepIsFresh DEF ResolveWaitingRuns
  <2>3. steps'[t] = steps[t] \/ steps'[t] = Completed(steps[t])
    BY <1>0, <1>7, <2>2 DEF ResolveWaitingRuns
  <2> QED
    BY <1>1, <2>1, <2>3 DEF Live
<1>8. ASSUME NEW q \in Run, EnrollJourneyRun(q) PROVE Live(t) \/ Matches(t)
  <2>1. t # FreshStep(q)
    BY <1>8, FreshStepIsFresh DEF EnrollJourneyRun
  <2> QED
    BY <1>1, <1>8, <2>1 DEF EnrollJourneyRun, TypeOK
<1>9. ASSUME NEW q \in Run, CancelJourneyRun(q) PROVE Live(t) \/ Matches(t)
  <2>1. [NoStep EXCEPT !.status = "deleted"].status = "deleted"
    BY DEF NoStep
  <2> QED
    BY <1>1, <1>9, <2>1 DEF CancelJourneyRun, Live
<1>10. ASSUME NEW s \in Step, RetryJourneyStep(s) PROVE Live(t) \/ Matches(t)
  BY <1>10 DEF RetryJourneyStep, TypeOK
<1>11. ASSUME NEW s \in Step, Clock(s) \/ BecomesLate(s)
       PROVE  Live(t) \/ Matches(t)
  <2>1. \/ steps'[t] = steps[t] \/ steps'[t] = [steps[t] EXCEPT !.leased = FALSE]
        \/ \E wh \in When : steps'[t] = [steps[t] EXCEPT !.when = wh]
    BY <1>11 DEF Clock, TimerFires, LeaseExpires, BecomesLate, TypeOK, When
  <2>2. steps'[t].status = steps[t].status
    BY <1>0, <2>1 DEF StepRow
  <2> QED
    BY <2>2 DEF Live
<1>12. CASE UNCHANGED steps
  BY <1>1, <1>12
<1> QED
  BY <1>2, <1>3, <1>4, <1>5, <1>6, <1>7, <1>8, <1>9, <1>10, <1>11, <1>12
     DEF Next, WorkerStep, Execute, ExecuteAction, SkipLate,
     AdvanceRunTx, AdvanceRejected, TickError, Crash, ReadWaitingRuns,
     ProjectionAborts, SetJourneyVersionStatus, vars

\* A run that moves takes its live steps with it: the step that moved it is
\* completed, and a cancellation deletes the steps.
LEMMA MoveCloses ==
    ASSUME IInv, Acyclic, [Next]_vars, NEW t \in Step, RunOf(t) \in OnPath',
           runs'[RunOf(t)] # runs[RunOf(t)],
           Exists(t), Live(t) => Matches(t)
    PROVE  ~Live(t)'
<1>path. RunOf(t) \in OnPath /\ RunOf(t) \in Run
  BY PathShrinks DEF IInv
<1> USE <1>path
<1> USE DEF IInv
<1>0. steps[t] \in StepRow /\ RunOf(t) \in Run
  BY DEF TypeOK, Step, RunOf
<1>1. Completed(steps[t]).status = "completed"
  BY <1>0 DEF Completed, StepRow
<1>2. ASSUME NEW w \in Worker, AdvanceCommit(w) PROVE ~Live(t)'
  <2> DEFINE s == workers[w].step
  <2>1. s \in Step /\ RunOf(s) \in Run /\ workers[w].res.next \in Kind \cup {"none"}
    BY <1>2, BusyState DEF AdvanceCommit, Result
  <2>2. RunOf(s) = RunOf(t)
    BY <1>0, <1>2, <2>1 DEF AdvanceCommit, TypeOK
  <2>3. workers[w].res.next # "none" => t # FreshStep(RunOf(s)) /\ s # FreshStep(RunOf(s))
    BY <1>2, <2>1, FreshStepIsFresh DEF AdvanceCommit, AdvanceApplies, Exists
  <2>4. CASE t = s
    <3>1. steps'[t] = Completed(steps[t])
      BY <1>2, <2>1, <2>3, <2>4 DEF AdvanceCommit, TypeOK
    <3> QED
      BY <1>1, <3>1 DEF Live
  <2>5. CASE t # s
    <3>1. steps'[t] = steps[t]
      BY <1>2, <2>1, <2>3, <2>5 DEF AdvanceCommit, TypeOK
    <3>2. ~Matches(t)
      <4>1. Exists(s) /\ Matches(s)
        BY <1>2 DEF AdvanceCommit, AdvanceApplies, Exists
      <4>2. steps[s].kind \in Kind /\ steps[t].kind \in Kind
        BY <2>1, <1>0 DEF TypeOK, StepRow
      <4> QED
        BY <2>1, <2>2, <2>5, <4>1, <4>2 DEF QueueInv, OneStepPerPlace, Matches,
           StatusFor, Kind
    <3> QED
      BY <3>1, <3>2 DEF Live
  <2> QED
    BY <2>4, <2>5
<1>3. ASSUME NEW p \in Projector, ResolveWaitingRuns(p) PROVE ~Live(t)'
  <2>1. Resolves(p, RunOf(t)) # {}
    BY <1>0, <1>3 DEF ResolveWaitingRuns
  <2>2. t # FreshStep(RunOf(t))
    BY <1>0, <1>3, <2>1, FreshStepIsFresh DEF ResolveWaitingRuns, Exists
  <2>3. steps'[t] = IF CompletedByResolve(t) THEN Completed(steps[t])
                                            ELSE steps[t]
    BY <1>0, <1>3, <2>1, <2>2 DEF ResolveWaitingRuns
  <2>4. Live(t) => CompletedByResolve(t)
    BY <1>3, <2>1 DEF ResolveWaitingRuns, ResolveClash
  <2> QED
    BY <1>1, <2>3, <2>4 DEF Live
<1>4. ASSUME NEW q \in Run, EnrollJourneyRun(q) PROVE ~Live(t)'
  <2>1. RunOf(t) = q
    BY <1>0, <1>4 DEF EnrollJourneyRun, TypeOK
  <2> QED
    BY <1>4, <2>1 DEF EnrollJourneyRun, QueueInv, StepsBehind
<1>5. ASSUME NEW q \in Run, CancelJourneyRun(q) PROVE ~Live(t)'
  <2>1. RunOf(t) = q
    BY <1>0, <1>5 DEF CancelJourneyRun, TypeOK
  <2>2. [NoStep EXCEPT !.status = "deleted"].status = "deleted"
    BY DEF NoStep
  <2> QED
    BY <1>5, <2>1, <2>2 DEF CancelJourneyRun, Live
<1>6. runs' # runs
  OBVIOUS
<1> QED
  BY <1>2, <1>3, <1>4, <1>5, <1>6 DEF Next, WorkerStep, ClaimJourneyStep,
     ClaimNothing, Execute, ExecuteAction, SkipLate,
     RescheduleJourneyStep, FailJourneyStep, AdvanceRunTx, AdvanceRejected,
     AdvanceStale, TickError, Crash, ReadWaitingRuns, ProjectionAborts,
     RetryJourneyStep, Clock, TimerFires, LeaseExpires, BecomesLate,
     SetJourneyVersionStatus, vars

\* The late policy never changes and retries are only ever added.
LEMMA PolicyStays ==
    ASSUME TypeOK, [Next]_vars
    PROVE  latePolicy' = latePolicy /\ (retries' = 0 => retries = 0)
<1>1. ASSUME NEW s \in Step, RetryJourneyStep(s)
      PROVE  latePolicy' = latePolicy /\ (retries' = 0 => retries = 0)
  BY <1>1 DEF RetryJourneyStep, TypeOK
<1>2. CASE UNCHANGED <<latePolicy, retries>>
  BY <1>2
<1> QED
  BY <1>1, <1>2 DEF Next, WorkerStep, ClaimJourneyStep, ClaimNothing, Execute,
     ExecuteAction, SkipLate, RescheduleJourneyStep, FailJourneyStep,
     AdvanceRunTx, AdvanceRejected, AdvanceStale, AdvanceCommit, TickError,
     Crash, ReadWaitingRuns, ResolveWaitingRuns, ProjectionAborts,
     EnrollJourneyRun, CancelJourneyRun, Clock, TimerFires, LeaseExpires,
     BecomesLate, SetJourneyVersionStatus, vars

LEMMA QueueStep ==
    ASSUME IInv, Acyclic, [Next]_vars
    PROVE  QueueInv'
<1>1. ASSUME latePolicy' = "run", retries' = 0, NEW s \in Step,
             RunOf(s) \in OnPath', Live(s)'
      PROVE  Matches(s)'
  <2>1. latePolicy = "run" /\ retries = 0
    BY <1>1, PolicyStays DEF IInv
  <2>0. RunOf(s) \in OnPath
    BY <1>1, PathShrinks DEF IInv
  <2>2. Live(s) => Matches(s)
    BY <2>0, <2>1 DEF IInv, QueueInv, LiveMatches
  <2>3. LegalRow(s)
    BY <1>1, RowStep
  <2>4. CASE steps[s].status = "none"
    <3>1. Opened(s)
      BY <1>1, <2>3, <2>4 DEF LegalRow, Live
    <3> QED
      BY <3>1 DEF Opened, Matches, StatusFor
  <2>5. CASE steps[s].status # "none"
    <3>1. /\ Exists(s) /\ steps'[s].node = steps[s].node
          /\ steps'[s].kind = steps[s].kind
      BY <1>1, <2>3, <2>5 DEF LegalRow, Live, Exists
    <3>2. Matches(s)
      BY <1>1, <2>1, <2>2, <2>5, LiveStep
    <3>3. runs'[RunOf(s)] = runs[RunOf(s)]
      BY <1>1, <3>1, <3>2, MoveCloses
    <3> QED
      BY <3>1, <3>2, <3>3 DEF Matches, StatusFor
  <2> QED
    BY <2>4, <2>5
<1>2. LiveMatches'
  BY <1>1 DEF LiveMatches, RunOf
<1> QED
  BY <1>2, PlacesStep DEF QueueInv

-----------------------------------------------------------------------------
LEMMA InitEffects == Init => RecordInv /\ EffectsMatchHistory
<1> SUFFICES ASSUME Init PROVE RecordInv /\ EffectsMatchHistory
  OBVIOUS
<1>1. RecordInv
  BY DEF Init, IdleWorker, RecordInv
<1>2. \A r \in Run : transitions[r] = <<>> /\ DOMAIN transitions[r] = {}
  <2>1. DOMAIN <<>> = {}
    OBVIOUS
  <2> QED
    BY <2>1 DEF Init
<1> QED
  BY <1>1, <1>2 DEF Init, EffectsMatchHistory

LEMMA InitIInv == Init => IInv
<1> SUFFICES ASSUME Init PROVE IInv
  OBVIOUS
<1>1. TypeOK
  BY InitTypeOK
<1>2. \A r \in Run : runs[r].status = "none" /\ runs[r].node = EntryNode
  BY DEF Init, NotEnrolled
<1>3. \A s \in Step : steps[s].status = "none"
  BY DEF Init, NoStep
<1>4. \A w \in Worker : workers[w].pc = "idle"
  BY DEF Init, IdleWorker
<1>5. \A p \in Projector : projectors[p].items = {}
  BY DEF Init, IdleProjector
<1>6. RunsInv /\ WorkConserved
  BY <1>2 DEF RunsInv, WorkConserved, HasWork, OnPath
<1>7. StepsInv
  BY <1>3 DEF StepsInv, Exists
<1>8. HeldInv /\ ResultInv
  BY <1>4 DEF HeldInv, ResultInv, BusyOnPath, Busy
<1>9. ItemsInv
  BY <1>5 DEF ItemsInv
<1>10. RecordInv
  BY <1>4 DEF RecordInv
<1>11. HistoryInv
  <2>1. \A r \in Run : /\ transitions[r] = <<>> /\ DOMAIN transitions[r] = {}
                       /\ 1..(Len(transitions[r]) - 1) = {}
    <3>1. Len(<<>>) = 0 /\ DOMAIN <<>> = {} /\ 1..(0 - 1) = {}
      OBVIOUS
    <3> QED
      BY <3>1 DEF Init
  <2>3. HistoryExplainsPosition
    BY <1>2, <2>1 DEF HistoryExplainsPosition, OnPath
  <2> QED
    BY <2>1, <2>3 DEF HistoryInv, LeftInv, LeavesEachNodeOnce, OnPath
<1>13. EffectsMatchHistory
  BY InitEffects
<1>12. QueueInv
  BY <1>3 DEF QueueInv, StepsBehind, OneStepPerPlace, LiveMatches, Live, Exists
<1> QED
  BY <1>1, <1>6, <1>7, <1>8, <1>9, <1>10, <1>11, <1>12,
     <1>13 DEF IInv

LEMMA NextIInv ==
    ASSUME Acyclic
    PROVE  IInv /\ [Next]_vars => IInv'
<1> SUFFICES ASSUME IInv, [Next]_vars PROVE IInv'
  OBVIOUS
<1>1. TypeOK'
  BY NextTypeOK DEF IInv
<1> QED
  BY <1>1, TablesStep, HeldStep, ResultStep, ItemsStep, WorkStep, RecordStep,
     EffectsStep, HistoryStep, QueueStep DEF IInv

\* On an acyclic graph the inductive invariant holds in every reachable state,
\* for any number of runs, workers, projectors and wait_event nodes.
THEOREM Inductive ==
    ASSUME Acyclic
    PROVE  Spec => []IInv
  BY InitIInv, NextIInv, PTL DEF Spec

\* No participant is lost that was not crossed: whatever the workers, the
\* projectors, the operators and the clock do, a run inside the journey has a
\* step at its node that is queued, running, to be retried or parked.
THEOREM NoParticipantLost ==
    ASSUME Acyclic
    PROVE  Spec => []WorkConserved
<1>1. IInv => WorkConserved
  BY DEF IInv
<1> QED
  BY <1>1, Inductive, PTL

\* The journey_transitions of a run are a path from the entry node to its
\* current_node_id, each row starting where the one before ended, unless
\* resolveWaitingRuns crossed the run: nothing else that a stale worker or
\* projector does puts a row into the history or leaves one out.
THEOREM HistoryIsAPath ==
    ASSUME Acyclic
    PROVE  Spec => []HistoryExplainsPosition
<1>1. IInv => HistoryExplainsPosition
  BY DEF IInv, HistoryInv
<1> QED
  BY <1>1, Inductive, PTL

\* AdvanceRunTx and resolveWaitingRuns together advance a run out of a node at
\* most once until it is crossed, with any number of workers on one step,
\* reclaimed leases, operator retries and timeouts racing events.
THEOREM NodesAreLeftOnce ==
    ASSUME Acyclic
    PROVE  Spec => []LeavesEachNodeOnce
<1>1. IInv => LeavesEachNodeOnce
  BY DEF IInv, HistoryInv
<1> QED
  BY <1>1, Inductive, PTL

\* On every published graph, with loops and any number of waits, and for every
\* run, a journey_message_intents row exists exactly for the message nodes
\* that the recorded history of the run leaves by sending: no intent without
\* its transition, no transition without its intent.
THEOREM IntentsAreRecorded == Spec => []EffectsMatchHistory
<1> DEFINE Inv == TypeOK /\ RecordInv /\ EffectsMatchHistory
<1>1. Init => Inv
  BY InitTypeOK, InitEffects
<1>2. Inv /\ [Next]_vars => Inv'
  BY NextTypeOK, RecordStep, EffectsStep
<1> QED
  BY <1>1, <1>2, PTL DEF Spec

\* Under the policy "run" and before any operator retry, ClaimJourneyStep does
\* not violate the index journey_steps_one_live_per_run on a step of a run
\* that was not crossed, whatever leases expire and whatever steps an unfenced
\* FailJourneyStep reopens.
THEOREM ClaimsNeverClash ==
    ASSUME Acyclic
    PROVE  Spec => []ClaimNeverBlocked
<1>1. ASSUME IInv, latePolicy = "run", retries = 0, NEW s \in Step,
             RunOf(s) \in OnPath, Claimable(s),
             NEW t \in Step, t # s, RunOf(t) = RunOf(s), Live(t)
      PROVE  FALSE
  <2>1. Matches(s) /\ Matches(t) /\ Exists(s) /\ Exists(t)
    BY <1>1 DEF IInv, QueueInv, LiveMatches, Claimable, Live, Exists
  <2>2. steps[s].kind \in Kind /\ steps[t].kind \in Kind
    BY <1>1 DEF IInv, TypeOK, StepRow
  <2> QED
    BY <1>1, <2>1, <2>2 DEF IInv, QueueInv, OneStepPerPlace, Matches,
       StatusFor, Kind
<1>2. IInv => ClaimNeverBlocked
  BY <1>1 DEF ClaimNeverBlocked, IndexClash
<1> QED
  BY <1>2, Inductive, PTL

-----------------------------------------------------------------------------
(***************************************************************************)
(* Crossed runs, and the abstract walk.                                    *)
(***************************************************************************)

\* A run is crossed while it waits, and for the branch of another wait node.
LEMMA CrossedAtWait ==
    ASSUME IInv, [Next]_vars, NEW r \in OnPath, r \in crossed'
    PROVE  /\ runs[r].status = "waiting" /\ runs[r].node \in Node
           /\ IsWait(runs[r].node)
           /\ \E m \in Node : IsWait(m) /\ m # runs[r].node
<1>1. r \in Run /\ r \notin crossed
  BY DEF OnPath
<1>2. PICK p \in Projector : ResolveWaitingRuns(p)
  BY <1>1 DEF Next, WorkerStep, ClaimJourneyStep,
     ClaimNothing, Execute, ExecuteAction, SkipLate,
     RescheduleJourneyStep, FailJourneyStep, AdvanceRunTx, AdvanceRejected,
     AdvanceStale, AdvanceCommit, TickError, Crash, ReadWaitingRuns,
     ProjectionAborts, EnrollJourneyRun, CancelJourneyRun, RetryJourneyStep,
     Clock, TimerFires, LeaseExpires, BecomesLate, SetJourneyVersionStatus,
     vars
<1>3. Resolves(p, r) # {} /\ ResolvedFrom(p, r) # runs[r].node
  BY <1>1, <1>2 DEF ResolveWaitingRuns
<1>4. PICK it \in projectors[p].items :
        /\ it[1] = r /\ it[2] = ResolvedFrom(p, r)
        /\ runs[r].status = "waiting"
  BY <1>1, <1>3, ResolvedEdge
<1>5. it[2] \in Node /\ runs[r].node \in Node
  BY <1>1 DEF IInv, TypeOK, ProjectorState, RunRow
<1>6. IsWait(it[2]) /\ IsWait(runs[r].node)
  BY <1>4 DEF IInv, ItemsInv, RunsInv
<1> QED
  BY <1>3, <1>4, <1>5, <1>6

\* In a graph with at most one wait_event node no run is ever crossed, so that
\* everything above holds of every run.
THEOREM OneWaitNeverCrosses ==
    ASSUME Acyclic, OneWait
    PROVE  Spec => []NoneCrossed
<1>1. Init => NoneCrossed
  BY DEF Init, NoneCrossed
<1>2. ASSUME IInv, NoneCrossed, [Next]_vars PROVE NoneCrossed'
  <2>1. crossed' \subseteq Run
    BY <1>2, NextTypeOK DEF IInv, TypeOK
  <2>2. ASSUME NEW r \in crossed' PROVE FALSE
    BY <1>2, <2>1, <2>2, CrossedAtWait DEF OnPath, OneWait, NoneCrossed
  <2> QED
    BY <2>2 DEF NoneCrossed
<1> QED
  BY <1>1, <1>2, Inductive, PTL DEF Spec

\* Every run is at a place of the walk, and each step of the runtime is a
\* step of the walk or a stutter: a participant only ever follows an edge of
\* the published graph, pauses at a wait node, ends where the graph ends or
\* is canceled, in spite of leases, retries, crashes and racing events; the
\* one way out of the walk is to be crossed while waiting.
THEOREM RuntimeImplementsWalk ==
    ASSUME Acyclic
    PROVE  Spec => ImplementsWalk
<1> DEFINE place == [r \in Run |->
                       IF r \in crossed
                       THEN [status |-> "astray", node |-> EntryNode]
                       ELSE [status |-> runs[r].status, node |-> runs[r].node]]
<1>1. Init => Walk!Init
  BY DEF Init, Walk!Init, NotEnrolled
<1>2. ASSUME IInv, [Next]_vars PROVE [Walk!Next]_place
  <2>1. ASSUME NEW r \in Run
        PROVE  \/ place'[r] = place[r]
               \/ Walk!Enter(r) \/ Walk!Move(r) \/ Walk!Wait(r)
               \/ Walk!Finish(r) \/ Walk!Cancel(r) \/ Walk!GoAstray(r)
    <3>1. CASE r \in crossed
      <4>1. r \in crossed'
        BY <1>2, <3>1, CrossedGrows DEF IInv
      <4> QED
        BY <3>1, <4>1
    <3>2. CASE r \notin crossed /\ r \in crossed'
      <4>1. /\ runs[r].status = "waiting"
            /\ \E m \in Node : IsWait(m) /\ m # runs[r].node
        BY <1>2, <3>2, CrossedAtWait DEF OnPath
      <4>2. {n \in Node : NodeType[n] = "wait_event"} \ {runs[r].node} # {}
        BY <4>1 DEF IsWait
      <4>3. /\ place[r] = [status |-> runs[r].status, node |-> runs[r].node]
            /\ place'[r] = [status |-> "astray", node |-> EntryNode]
        BY <3>2
      <4>4. Walk!GoAstray(r)
        BY <4>1, <4>2, <4>3 DEF Walk!GoAstray, Walk!Becomes
      <4> QED
        BY <4>4
    <3>3. CASE r \in OnPath'
      <4>0. r \in OnPath /\ r \notin crossed /\ r \notin crossed'
        BY <1>2, <3>3, PathShrinks DEF IInv, OnPath
      <4>1. LegalMove(r) /\ runs[r] \in RunRow
        BY <1>2, <3>3, MoveStep DEF IInv, TypeOK
      <4>2. /\ place[r] = [status |-> runs[r].status, node |-> runs[r].node]
            /\ place'[r] = [status |-> runs'[r].status, node |-> runs'[r].node]
        BY <4>0
      <4>3. runs[r].status = "none" => runs[r].node = EntryNode
        BY <1>2, <4>0 DEF IInv, RunsInv
      <4>4. runs[r].node \in Node
        BY <4>1 DEF RunRow
      <4>5. CASE runs'[r] = runs[r]
        BY <4>2, <4>5
      <4>6. CASE /\ runs[r].status = "none" /\ runs'[r].status = "active"
                 /\ runs'[r].node = runs[r].node
        BY <4>2, <4>3, <4>6 DEF Walk!Enter, Walk!Becomes
      <4>7. ASSUME Inside(r), runs'[r].status = "active",
                   NEW e \in Out(runs[r].node), e.to = runs'[r].node
            PROVE  Walk!Move(r)
        <5>1. /\ <<runs[r].node, runs'[r].node>>
                    \in {<<x.from, x.to>> : x \in Edge}
              /\ runs'[r].node \in Node
          BY <4>7, GraphAssumption DEF Out
        <5> QED
          BY <4>2, <4>7, <5>1 DEF Walk!Move, Walk!Inside, Walk!Becomes, Inside
      <4>8. CASE /\ runs[r].status = "active" /\ runs'[r].status = "waiting"
                 /\ runs'[r].node = runs[r].node /\ IsWait(runs[r].node)
        BY <4>2, <4>4, <4>8 DEF Walk!Wait, Walk!Becomes, IsWait
      <4>9. ASSUME Inside(r), runs'[r].status = "completed",
                   runs'[r].node = runs[r].node, Out(runs[r].node) = {}
            PROVE  Walk!Finish(r)
        <5>1. \A n \in Node : <<runs[r].node, n>>
                                 \notin {<<x.from, x.to>> : x \in Edge}
          BY <4>9 DEF Out
        <5> QED
          BY <4>2, <4>9, <5>1 DEF Walk!Finish, Walk!Inside, Walk!Becomes, Inside
      <4>10. CASE /\ Inside(r) /\ runs'[r].status = "canceled"
                  /\ runs'[r].node = runs[r].node
        BY <4>2, <4>10 DEF Walk!Cancel, Walk!Inside, Walk!Becomes, Inside
      <4> QED
        BY <4>1, <4>5, <4>6, <4>7, <4>8, <4>9, <4>10 DEF LegalMove
    <3> QED
      BY <3>1, <3>2, <3>3 DEF OnPath
  <2>2. place' = [r \in Run |-> place'[r]]
    OBVIOUS
  <2> QED
    BY <2>1, <2>2 DEF Walk!Next
<1> QED
  BY <1>1, <1>2, Inductive, PTL DEF Spec, ImplementsWalk, Walk!Spec
=============================================================================
