--------------------------- MODULE JourneyRuntime ---------------------------
(***************************************************************************)
(* The journey runtime: participants (journey_runs) walking the graph of a *)
(* published journey version, one leased work item (journey_steps) at a    *)
(* time.                                                                   *)
(*                                                                         *)
(* Actors: journeys-worker processes (TickNext), projector processes that  *)
(* wake waiting runs when the awaited event is projected                   *)
(* (resolveWaitingRuns), operators (cancel, pause, dead-letter retry) and  *)
(* the clock (timers, leases).  Every action is one committed database     *)
(* statement or transaction; a worker is between two of them at each pc.   *)
(*                                                                         *)
(* The graph is a constant: a published version is immutable.  Payloads,   *)
(* run.state and the contents of messages are abstracted away; the branch  *)
(* a node takes is a free choice among its labelled edges.                 *)
(***************************************************************************)
EXTENDS Naturals, Sequences

CONSTANTS
    Run,            \* journey_runs rows that may be enrolled
    Slot,           \* a run's step ids are <<run, slot>>; Nat in the theorems
    Worker,         \* journeys-worker processes
    Projector,      \* projector processes
    Node,           \* nodes of the published graph
    NodeType,       \* NodeType[n]: the type field of n
    Edge,           \* set of [from, branch, to]
    EntryNode,      \* the entry node
    WaitEvent,      \* WaitEvent[n]: event_type of a wait_event node
    Event,          \* event types
    NoEvent,        \* wait_event_type IS NULL
    NoNode,         \* to_node IS NULL
    MaxAttempts,    \* 10 in the code
    Faults,         \* what may go wrong: "error", "crash"
    LatePolicies,   \* late_policy values of published versions
    MaxRetries,     \* bound on operator retries of dead letters
    Steady          \* the workers that keep polling; others may hang or die

BranchTypes == {"condition", "split", "ai_decision", "feature_flag",
                "extension_action", "extension_condition"}
StraightTypes == {"entry", "delay", "action", "goal", "message"}
NodeTypes == BranchTypes \cup StraightTypes \cup {"wait_event", "exit"}

ASSUME GraphAssumption ==
    /\ NodeType \in [Node -> NodeTypes]
    /\ Edge \subseteq [from : Node, branch : STRING, to : Node]
    /\ EntryNode \in Node
    /\ WaitEvent \in [Node -> Event]
    /\ NoEvent \notin Event
    /\ NoNode \notin Node

\* What validateOutgoing demands of the edges of a node.  The edges of a
\* feature_flag node are not checked.
Out(n) == {e \in Edge : e.from = n}
Branches(n) == {e.branch : e \in Out(n)}
ValidOutgoing(n) ==
    /\ NodeType[n] # "feature_flag" =>
         \A e, f \in Out(n) : e.branch = f.branch => e = f
    /\ NodeType[n] \in StraightTypes => Branches(n) = {""}
    /\ NodeType[n] \in BranchTypes \ {"feature_flag"} => "" \notin Branches(n)
    /\ NodeType[n] = "condition" => Branches(n) = {"true", "false"}
    /\ NodeType[n] = "wait_event" => Branches(n) = {"success", "timeout"}
    /\ NodeType[n] = "exit" => Out(n) = {}

\* The least set of nodes that holds the entry and is closed under the edges.
reachableNodes ==
    {n \in Node : \A S \in SUBSET Node :
        EntryNode \in S /\ (\A e \in Edge : e.from \in S => e.to \in S) => n \in S}

\* What a graph must pass to be published; that the ends of an edge are nodes
\* is in GraphAssumption, and the configuration of a node is left out.
Validate ==
    /\ {n \in Node : NodeType[n] = "entry"} = {EntryNode}
    /\ \A n \in Node : ValidOutgoing(n)
    /\ reachableNodes = Node
    /\ \E n \in reachableNodes : NodeType[n] = "exit"

ASSUME ValidGraph == Validate

ASSUME BoundsAssumption ==
    /\ Slot \subseteq Nat
    /\ MaxAttempts \in Nat \ {0}
    /\ MaxRetries \in Nat
    /\ Faults \subseteq {"error", "crash"}
    /\ LatePolicies \subseteq {"run", "skip", "reschedule"}

Step == Run \X Slot
RunOf(s) == s[1]

RunStatus == {"none", "active", "waiting", "completed", "canceled"}
Terminal == {"completed", "canceled"}
Kind == {"advance", "timeout"}
StepStatus == {"none", "pending", "processing", "completed", "failed",
               "dead", "deleted"}
\* available_at against the clock: in the future, due, or overdue by more
\* than the late threshold.
When == {"future", "due", "late"}

RunRow == [status : RunStatus, node : Node, wait : Event \cup {NoEvent},
           goal : BOOLEAN]
StepRow == [node : Node, kind : Kind, status : StepStatus, attempts : Nat,
            when : When, leased : BOOLEAN]
\* outcome, reduced to the kind of move: the node type for a move along the
\* unlabelled edge, "branch" for "branch:" and the label of the edge taken.
Outcome == NodeTypes \cup {"", "branch", "exited", "timeout", "waiting",
                           "skipped", "success"}
Transition == [from : Node, to : Node \cup {NoNode}, outcome : Outcome]

NotEnrolled == [status |-> "none", node |-> EntryNode, wait |-> NoEvent,
                goal |-> FALSE]
NoStep == [node |-> EntryNode, kind |-> "advance", status |-> "none",
           attempts |-> 0, when |-> "future", leased |-> FALSE]
NewStep(n, k, wh) == [node |-> n, kind |-> k, status |-> "pending",
                      attempts |-> 0, when |-> wh, leased |-> FALSE]

(***************************************************************************)
(* What node.execute hands to AdvanceRunTx.  next is the kind of the next  *)
(* step ("none" when there is none), later its available_at.               *)
(***************************************************************************)
Result == [status : RunStatus, node : Node, wait : Event \cup {NoEvent},
           goal : BOOLEAN, next : Kind \cup {"none"}, later : BOOLEAN,
           to : Node \cup {NoNode}, outcome : Outcome, intent : BOOLEAN]

NoResult == [status |-> "none", node |-> EntryNode, wait |-> NoEvent,
             goal |-> FALSE, next |-> "none", later |-> FALSE,
             to |-> NoNode, outcome |-> "", intent |-> FALSE]

VARIABLES
    runs,           \* journey_runs
    steps,          \* journey_steps
    transitions,    \* journey_transitions, per run in commit order
    intents,        \* journey_message_intents, as the set of <<run, node>>
    updated,        \* <<run, node>> whose UpdateProfileAttributes committed
    workers,        \* the local state of TickNext
    projectors,     \* the local state of resolveWaitingRuns
    versionActive,  \* journey_versions.status = 'active'
    latePolicy,     \* late_policy in the settings of the published version
    retries,        \* operator retries so far
    crossed         \* history: runs that took a branch of a wait node they
                    \* had left (see ResolveWaitingRuns); guards nothing

vars == <<runs, steps, transitions, intents, updated, workers,
          projectors, versionActive, latePolicy, retries, crossed>>

PC == {"idle", "claimed", "executed", "failing"}
WorkerState == [pc : PC, step : Step, node : Node, kind : Kind,
                late : BOOLEAN, res : Result]
IdleWorker == [pc |-> "idle"]
ProjectorState == [pc : {"idle", "read"}, items : SUBSET (Run \X Node)]

IdleProjector == [pc |-> "idle", items |-> {}]

TypeOK ==
    /\ runs \in [Run -> RunRow]
    /\ steps \in [Step -> StepRow]
    /\ transitions \in [Run -> Seq(Transition)]
    /\ intents \subseteq Run \X Node
    /\ updated \subseteq Run \X Node
    /\ workers \in [Worker -> WorkerState \cup {IdleWorker}]
    /\ projectors \in [Projector -> ProjectorState]
    /\ versionActive \in BOOLEAN
    /\ latePolicy \in LatePolicies
    /\ retries \in Nat
    /\ crossed \subseteq Run

Init ==
    /\ runs = [r \in Run |-> NotEnrolled]
    /\ steps = [s \in Step |-> NoStep]
    /\ transitions = [r \in Run |-> <<>>]
    /\ intents = {}
    /\ updated = {}
    /\ workers = [w \in Worker |-> IdleWorker]
    /\ projectors = [p \in Projector |-> IdleProjector]
    /\ versionActive = TRUE
    /\ latePolicy \in LatePolicies
    /\ retries = 0
    /\ crossed = {}

-----------------------------------------------------------------------------
(***************************************************************************)
(* The work queue.                                                         *)
(***************************************************************************)

\* Counted by the unique index journey_steps_one_live_per_run.
Live(s) == steps[s].status \in {"pending", "processing"}
Exists(s) == steps[s].status \notin {"none", "deleted"}

\* Making s live would break the unique index: the statement errors out.
IndexClash(s) == \E t \in Step : t # s /\ RunOf(t) = RunOf(s) /\ Live(t)

\* Mutant: the lease is given up and the row is not closed.
CompletedUnmarked(row) == [row EXCEPT !.leased = FALSE, !.when = "due"]

\* status = 'completed'; available_at is no longer read.
Completed(row) == [row EXCEPT !.status = "completed", !.leased = FALSE,
                              !.when = "due"]

\* A fresh primary key for a step of run r.
HasFreshStep(r) == \E s \in Step : RunOf(s) = r /\ steps[s].status = "none"
FreshStep(r) == CHOOSE s \in Step : RunOf(s) = r /\ steps[s].status = "none"

\* The run status a step of kind k works on.
StatusFor(k) == IF k = "timeout" THEN "waiting" ELSE "active"

EnrollJourneyRun(r) ==
    /\ runs[r].status = "none"
    /\ HasFreshStep(r)
    /\ runs' = [runs EXCEPT ![r].status = "active"]
    /\ steps' = [steps EXCEPT
                   ![FreshStep(r)] = NewStep(EntryNode, "advance", "due")]
    /\ UNCHANGED <<transitions, intents, updated, workers, projectors,
                   versionActive, latePolicy, retries, crossed>>

\* First statement of ClaimJourneyStep: expired leases on their last attempt.
Poisoned(s) == /\ steps[s].status = "processing"
               /\ ~steps[s].leased
               /\ steps[s].attempts >= MaxAttempts
Sweep == [s \in Step |-> IF Poisoned(s)
                         THEN [steps[s] EXCEPT !.status = "dead"]
                         ELSE steps[s]]

\* The join of a step with its run: the step can move the run from where
\* it is.  available_at is never looked at otherwise.
Matches(s) == /\ steps[s].node = runs[RunOf(s)].node
              /\ runs[RunOf(s)].status = StatusFor(steps[s].kind)

\* Mutant: expired leases are never reclaimed.
ClaimableNoReclaim(s) ==
    /\ versionActive /\ Matches(s)
    /\ steps[s].attempts < MaxAttempts
    /\ steps[s].status \in {"pending", "failed"} /\ steps[s].when # "future"

\* The WHERE clause of the second statement.
Claimable(s) ==
    LET st == steps[s]
    IN  /\ versionActive
        /\ Matches(s)
        /\ st.attempts < MaxAttempts
        /\ \/ st.status \in {"pending", "failed"} /\ st.when # "future"
           \/ st.status = "processing" /\ ~st.leased

ClaimedRow(row) == [row EXCEPT !.status = "processing", !.leased = TRUE,
                               !.attempts = row.attempts + 1]

ClaimJourneyStep(w, s) ==
    /\ workers[w].pc = "idle"
    /\ Claimable(s)
    /\ ~IndexClash(s)
    /\ steps' = [Sweep EXCEPT ![s] = ClaimedRow(@)]
    /\ workers' = [workers EXCEPT ![w] =
                     [pc |-> "claimed", step |-> s, node |-> steps[s].node,
                      kind |-> steps[s].kind,
                      late |-> steps[s].when = "late",
                      res |-> NoResult]]
    /\ UNCHANGED <<runs, transitions, intents, updated, projectors,
                   versionActive, latePolicy, retries, crossed>>

\* The sweep commits even when the claim finds nothing or hits the index.
ClaimNothing(w) ==
    /\ workers[w].pc = "idle"
    /\ \/ \A s \in Step : ~Claimable(s)
       \/ \E s \in Step : Claimable(s) /\ IndexClash(s)
    /\ \E s \in Step : Poisoned(s)
    /\ steps' = Sweep
    /\ UNCHANGED <<runs, transitions, intents, updated, workers, projectors,
                   versionActive, latePolicy, retries, crossed>>

-----------------------------------------------------------------------------
(***************************************************************************)
(* TickNext between the claim and AdvanceRunTx: read the run, apply the    *)
(* late policy, execute the node.                                          *)
(***************************************************************************)

\* The next node follows an edge; execute keeps the status it has read.
Moved(snap, n, outcome) ==
    [status |-> snap.status, node |-> n, wait |-> NoEvent,
     goal |-> snap.goal, next |-> "advance", later |-> FALSE,
     to |-> n, outcome |-> outcome, intent |-> FALSE]

\* entry, delay, action, goal and message: the one unlabelled edge.
StraightResult(snap, n, m) ==
    [Moved(snap, m, NodeType[n]) EXCEPT
        !.later = (NodeType[n] = "delay"),
        !.goal = (snap.goal \/ NodeType[n] = "goal"),
        !.intent = (NodeType[n] = "message")]
ExecStraight(snap, n) ==
    {StraightResult(snap, n, e.to) : e \in {x \in Out(n) : x.branch = ""}}

\* condition, split, ai_decision, extension and feature_flag nodes: the edge
\* of the branch that was evaluated.
\* Mutant: an edge of any node.
ExecBranchForeign(snap, n) == {Moved(snap, e.to, "branch") : e \in Edge}
ExecBranch(snap, n) == {Moved(snap, e.to, "branch") : e \in Out(n)}

\* exit: no next node, current_node_id stays as it was read.
EndResult(snap, outcome) ==
    [Moved(snap, snap.node, outcome) EXCEPT
        !.status = "completed", !.next = "none", !.to = NoNode]

\* wait_event: go to sleep with a timeout step, or take the timeout branch.
\* Mutant: no timeout step.
WaitResultNoTimeout(snap, n) ==
    [Moved(snap, n, "waiting") EXCEPT
        !.status = "waiting", !.wait = WaitEvent[n], !.next = "none",
        !.to = NoNode]
WaitResult(snap, n) ==
    [Moved(snap, n, "waiting") EXCEPT
        !.status = "waiting", !.wait = WaitEvent[n], !.next = "timeout",
        !.later = TRUE, !.to = NoNode]
TimeoutResult(snap, m) ==
    [Moved(snap, m, "timeout") EXCEPT !.status = "active"]
ExecWait(snap, n, kind) ==
    IF kind = "timeout"
    THEN {TimeoutResult(snap, e.to) :
            e \in {x \in Out(n) : x.branch = "timeout"}}
    ELSE {WaitResult(snap, n)}

ExecuteResults(snap, n, kind) ==
    CASE NodeType[n] \in StraightTypes -> ExecStraight(snap, n)
      [] NodeType[n] \in BranchTypes -> ExecBranch(snap, n)
      [] NodeType[n] = "exit" -> {EndResult(snap, "exited")}
      [] NodeType[n] = "wait_event" -> ExecWait(snap, n, kind)

\* late_policy "skip": the first edge, or completion when there is none.
\* The wait columns keep the values that were read.
\* Mutant: to_node is not recorded.
SkipResultNoTarget(snap, m) ==
    [Moved(snap, m, "skipped") EXCEPT !.status = "active", !.to = NoNode]
SkipResult(snap, m) ==
    [Moved(snap, m, "skipped") EXCEPT !.status = "active", !.wait = snap.wait]
SkipEnd(snap) == [EndResult(snap, "skipped") EXCEPT !.wait = snap.wait]
SkipResults(snap, n) ==
    IF Out(n) # {} THEN {SkipResult(snap, e.to) : e \in Out(n)}
                   ELSE {SkipEnd(snap)}

\* The worker's state once a call has failed: only the step id matters.
\* Nobody asks whether the step was late any more.
Failing(w) == [workers[w] EXCEPT !.pc = "failing", !.late = FALSE, !.res = NoResult]

Executed(w, res) == [workers[w] EXCEPT !.pc = "executed", !.late = FALSE, !.res = res]

Overdue(w) == workers[w].late /\ latePolicy # "run"

Execute(w) ==
    /\ workers[w].pc = "claimed"
    /\ ~Overdue(w)
    /\ NodeType[workers[w].node] # "action"
    /\ \E res \in ExecuteResults(runs[RunOf(workers[w].step)],
                                  workers[w].node, workers[w].kind) :
         workers' = [workers EXCEPT ![w] = Executed(w, res)]
    /\ UNCHANGED <<runs, steps, transitions, intents, updated, projectors,
                   versionActive, latePolicy, retries, crossed>>

\* An action node commits UpdateProfileAttributes, then calls AcceptEvents
\* for a principal without an application: accepted_events.app_id refuses
\* the empty id, so the step fails.
ExecuteAction(w) ==
    LET r == RunOf(workers[w].step)
    IN  /\ workers[w].pc = "claimed"
        /\ ~Overdue(w)
        /\ NodeType[workers[w].node] = "action"
        /\ updated' = updated \cup {<<r, workers[w].node>>}
        /\ workers' = [workers EXCEPT ![w] = Failing(w)]
        /\ UNCHANGED <<runs, steps, transitions, intents, projectors,
                       versionActive, latePolicy, retries, crossed>>

SkipLate(w) ==
    /\ workers[w].pc = "claimed"
    /\ workers[w].late /\ latePolicy = "skip"
    /\ \E res \in SkipResults(runs[RunOf(workers[w].step)],
                               workers[w].node) :
         workers' = [workers EXCEPT ![w] = Executed(w, res)]
    /\ UNCHANGED <<runs, steps, transitions, intents, updated, projectors,
                   versionActive, latePolicy, retries, crossed>>

\* Back to pending with a clean slate, runnable at once or later.
RequeuedRow(row, wh) == [row EXCEPT !.status = "pending", !.attempts = 0,
                                    !.when = wh, !.leased = FALSE]

\* late_policy "reschedule": not fenced by owner or status.
RescheduleJourneyStep(w) ==
    LET s == workers[w].step
    IN  /\ workers[w].pc = "claimed"
        /\ workers[w].late /\ latePolicy = "reschedule"
        /\ IF Exists(s) /\ IndexClash(s)
           THEN /\ workers' = [workers EXCEPT ![w] = Failing(w)]
                /\ UNCHANGED steps
           ELSE /\ workers' = [workers EXCEPT ![w] = IdleWorker]
                /\ steps' = IF Exists(s)
                            THEN [steps EXCEPT ![s] = RequeuedRow(@, "future")]
                            ELSE steps
        /\ UNCHANGED <<runs, transitions, intents, updated, projectors,
                       versionActive, latePolicy, retries, crossed>>

\* Any call between the claim and the advance may return an error.
TickError(w) ==
    /\ "error" \in Faults
    /\ workers[w].pc \in {"claimed", "executed"}
    /\ workers' = [workers EXCEPT ![w] = Failing(w)]
    /\ UNCHANGED <<runs, steps, transitions, intents, updated, projectors,
                   versionActive, latePolicy, retries, crossed>>

FailedRow(row) ==
    [row EXCEPT !.status = IF row.attempts >= MaxAttempts
                           THEN "dead" ELSE "failed",
                !.when = "future", !.leased = FALSE]

\* The error path: FailJourneyStep, not fenced by owner or status.
FailJourneyStep(w) ==
    LET s == workers[w].step
    IN  /\ workers[w].pc = "failing"
        /\ workers' = [workers EXCEPT ![w] = IdleWorker]
        /\ steps' = IF Exists(s)
                    THEN [steps EXCEPT ![s] = FailedRow(@)]
                    ELSE steps
        /\ UNCHANGED <<runs, transitions, intents, updated, projectors,
                       versionActive, latePolicy, retries, crossed>>

-----------------------------------------------------------------------------
(***************************************************************************)
(* AdvanceRunTx: one transaction that locks the run, then the step.        *)
(***************************************************************************)

\* Mutant: a second worker's advance of a completed step is applied as well.
AdvanceAppliesReplayed(w) ==
    steps[workers[w].step].status \in {"processing", "completed"}

AdvanceApplies(w) ==
    steps[workers[w].step].status = "processing" /\ Matches(workers[w].step)

\* Mutant: the message intent is inserted before the step is checked, in a
\* transaction of its own.
AdvanceRejectedSends(w) ==
    /\ workers[w].pc = "executed"
    /\ steps[workers[w].step].status \notin {"processing", "completed"}
    /\ intents' = IF workers[w].res.intent
                  THEN intents \cup
                         {<<RunOf(workers[w].step), workers[w].node>>}
                  ELSE intents
    /\ workers' = [workers EXCEPT ![w] = Failing(w)]
    /\ UNCHANGED <<runs, steps, transitions, updated, projectors,
                   versionActive, latePolicy, retries, crossed>>

\* The row is gone, or no longer processing: the transaction is rolled back.
AdvanceRejected(w) ==
    /\ workers[w].pc = "executed"
    /\ steps[workers[w].step].status \notin {"processing", "completed"}
    /\ workers' = [workers EXCEPT ![w] = Failing(w)]
    /\ UNCHANGED <<runs, steps, transitions, intents, updated, projectors,
                   versionActive, latePolicy, retries, crossed>>

\* Somebody completed the step (nothing to do), or the run has moved on
\* (the stale step is completed).
AdvanceStale(w) ==
    /\ workers[w].pc = "executed"
    /\ steps[workers[w].step].status \in {"processing", "completed"}
    /\ ~AdvanceApplies(w)
    /\ steps' = [steps EXCEPT ![workers[w].step] = Completed(@)]
    /\ workers' = [workers EXCEPT ![w] = IdleWorker]
    /\ UNCHANGED <<runs, transitions, intents, updated, projectors,
                   versionActive, latePolicy, retries, crossed>>

AdvanceCommit(w) ==
    LET s == workers[w].step
        r == RunOf(s)
        n == workers[w].node
        res == workers[w].res
        done == [steps EXCEPT ![s] = Completed(@)]
    IN  /\ workers[w].pc = "executed"
        /\ AdvanceApplies(w)
        /\ runs' = [runs EXCEPT ![r] = [status |-> res.status,
                                        node |-> res.node,
                                        wait |-> res.wait,
                                        goal |-> res.goal]]
        /\ \/ res.next = "none" /\ steps' = done
           \/ /\ res.next # "none"
              /\ HasFreshStep(r)
              /\ steps' = [done EXCEPT ![FreshStep(r)] =
                             NewStep(res.node, res.next,
                                     IF res.later THEN "future" ELSE "due")]
        /\ transitions' = [transitions EXCEPT ![r] =
                             Append(@, [from |-> n, to |-> res.to,
                                        outcome |-> res.outcome])]
        /\ intents' = IF res.intent THEN intents \cup {<<r, n>>} ELSE intents
        /\ workers' = [workers EXCEPT ![w] = IdleWorker]
        /\ UNCHANGED <<updated, projectors, versionActive, latePolicy,
                       retries, crossed>>

AdvanceRunTx(w) == AdvanceRejected(w) \/ AdvanceStale(w) \/ AdvanceCommit(w)

\* The worker process dies; what it committed stays.
Crash(w) ==
    /\ "crash" \in Faults
    /\ workers[w].pc # "idle"
    /\ workers' = [workers EXCEPT ![w] = IdleWorker]
    /\ UNCHANGED <<runs, steps, transitions, intents, updated, projectors,
                   versionActive, latePolicy, retries, crossed>>

-----------------------------------------------------------------------------
(***************************************************************************)
(* resolveWaitingRuns, part of the projection transaction of an event: a   *)
(* SELECT of the runs waiting for it, then for each of them an UPDATE that *)
(* re-checks only status = 'waiting'.  READ COMMITTED: the rows may change *)
(* between the two.                                                        *)
(***************************************************************************)

ReadWaitingRuns(p, ev) ==
    LET hit == {r \in Run : runs[r].status = "waiting" /\ runs[r].wait = ev}
    IN  /\ projectors[p].pc = "idle"
        /\ hit # {}
        /\ projectors' = [projectors EXCEPT ![p] =
              [pc |-> "read", items |-> {<<r, runs[r].node>> : r \in hit}]]
        /\ UNCHANGED <<runs, steps, transitions, intents, updated, workers,
                       versionActive, latePolicy, retries, crossed>>

SuccessEdges(n) == {e \in Out(n) : e.branch = "success"}

\* The item read for run r, if the UPDATE hits a row.
Resolves(p, r) ==
    {it \in projectors[p].items : /\ it[1] = r
                                 /\ runs[r].status = "waiting"
                                 /\ SuccessEdges(it[2]) # {}}
ResolvedFrom(p, r) == (CHOOSE it \in Resolves(p, r) : TRUE)[2]
ResolvedNode(p, r) ==
    (CHOOSE e \in SuccessEdges(ResolvedFrom(p, r)) : TRUE).to

CompletedByResolve(s) ==
    steps[s].kind = "timeout" /\ steps[s].status \in
        {"pending", "processing", "failed"}

\* A live step that the resolution does not complete: the INSERT of the
\* next step violates the unique index and the projection is rolled back.
ResolveClash(p) ==
    \E s \in Step : /\ Resolves(p, RunOf(s)) # {}
                    /\ Live(s)
                    /\ ~CompletedByResolve(s)

\* The UPDATE does not ask whether the run still waits at the node that was
\* read: after a timeout it may wait at the next wait node, and is crossed.
ResolveWaitingRuns(p) ==
    LET hit == {r \in Run : Resolves(p, r) # {}}
    IN  /\ projectors[p].pc = "read"
        /\ ~ResolveClash(p)
        /\ \A r \in hit : HasFreshStep(r)
        /\ runs' = [r \in Run |->
              IF r \in hit
              THEN [runs[r] EXCEPT !.status = "active", !.wait = NoEvent,
                                   !.node = ResolvedNode(p, r)]
              ELSE runs[r]]
        /\ steps' = [s \in Step |->
              IF RunOf(s) \notin hit THEN steps[s]
              ELSE IF s = FreshStep(RunOf(s))
              THEN NewStep(ResolvedNode(p, RunOf(s)), "advance", "due")
              ELSE IF CompletedByResolve(s)
              THEN Completed(steps[s])
              ELSE steps[s]]
        /\ transitions' = [r \in Run |->
              IF r \in hit
              THEN Append(transitions[r],
                     [from |-> ResolvedFrom(p, r),
                      to |-> ResolvedNode(p, r), outcome |-> "success"])
              ELSE transitions[r]]
        /\ crossed' = crossed \cup
              {r \in hit : ResolvedFrom(p, r) # runs[r].node}
        /\ projectors' = [projectors EXCEPT ![p] = IdleProjector]
        /\ UNCHANGED <<intents, updated, workers, versionActive, latePolicy,
                        retries>>

\* The projection transaction fails (here or elsewhere) or its process dies.
ProjectionAborts(p) ==
    /\ projectors[p].pc = "read"
    /\ projectors' = [projectors EXCEPT ![p] = IdleProjector]
    /\ UNCHANGED <<runs, steps, transitions, intents, updated, workers,
                   versionActive, latePolicy, retries, crossed>>

-----------------------------------------------------------------------------
(***************************************************************************)
(* Operators and the clock.                                                *)
(***************************************************************************)

\* Mutant: the status guard is missing.
CancelJourneyRunAny(r) ==
    /\ runs[r].status # "none"
    /\ runs' = [runs EXCEPT ![r].status = "canceled"]
    /\ UNCHANGED <<steps, transitions, intents, updated, workers, projectors,
                   versionActive, latePolicy, retries, crossed>>

CancelJourneyRun(r) ==
    /\ runs[r].status \in {"active", "waiting"}
    /\ runs' = [runs EXCEPT ![r].status = "canceled"]
    /\ steps' = [s \in Step |->
          IF RunOf(s) = r /\ steps[s].status \notin {"none", "completed"}
          THEN [NoStep EXCEPT !.status = "deleted"]
          ELSE steps[s]]
    /\ UNCHANGED <<transitions, intents, updated, workers, projectors,
                   versionActive, latePolicy, retries, crossed>>

SetJourneyVersionStatus ==
    /\ versionActive' = ~versionActive
    /\ UNCHANGED <<runs, steps, transitions, intents, updated, workers,
                   projectors, latePolicy, retries, crossed>>

\* Dead-letter retry: accepts any existing row; an index clash is an error.
RetryJourneyStep(s) ==
    /\ retries < MaxRetries
    /\ Exists(s)
    /\ ~IndexClash(s)
    /\ retries' = retries + 1
    /\ steps' = [steps EXCEPT ![s] = RequeuedRow(@, "due")]
    /\ UNCHANGED <<runs, transitions, intents, updated, workers, projectors,
                   versionActive, latePolicy, crossed>>

TimerFires(s) ==
    /\ steps[s].status \in {"pending", "failed"} /\ Matches(s)
    /\ steps[s].when = "future"
    /\ steps' = [steps EXCEPT ![s].when = "due"]
    /\ UNCHANGED <<runs, transitions, intents, updated, workers, projectors,
                   versionActive, latePolicy, retries, crossed>>

\* Lateness has no effect under the policy "run", and is read at the claim
\* only: while a step is leased, it may as well become late afterwards.
BecomesLate(s) ==
    /\ latePolicy # "run"
    /\ \/ steps[s].status \in {"pending", "failed"}
       \/ steps[s].status = "processing" /\ ~steps[s].leased
    /\ Matches(s)
    /\ steps[s].when = "due"
    /\ steps' = [steps EXCEPT ![s].when = "late"]
    /\ UNCHANGED <<runs, transitions, intents, updated, workers, projectors,
                   versionActive, latePolicy, retries, crossed>>

LeaseExpires(s) ==
    /\ steps[s].status = "processing" /\ steps[s].leased
    /\ steps' = [steps EXCEPT ![s].leased = FALSE]
    /\ UNCHANGED <<runs, transitions, intents, updated, workers, projectors,
                   versionActive, latePolicy, retries, crossed>>

-----------------------------------------------------------------------------
WorkerStep(w) ==
    \/ \E s \in Step : ClaimJourneyStep(w, s)
    \/ ClaimNothing(w)
    \/ Execute(w)
    \/ ExecuteAction(w)
    \/ SkipLate(w)
    \/ RescheduleJourneyStep(w)
    \/ FailJourneyStep(w)
    \/ AdvanceRunTx(w)

Clock(s) == TimerFires(s) \/ LeaseExpires(s)

Next ==
    \/ \E w \in Worker : WorkerStep(w) \/ TickError(w) \/ Crash(w)
    \/ \E p \in Projector :
          \/ \E ev \in Event : ReadWaitingRuns(p, ev)
          \/ ResolveWaitingRuns(p)
          \/ ProjectionAborts(p)
    \/ \E r \in Run : EnrollJourneyRun(r) \/ CancelJourneyRun(r)
    \/ \E s \in Step : RetryJourneyStep(s) \/ Clock(s) \/ BecomesLate(s)
    \/ SetJourneyVersionStatus

Spec == Init /\ [][Next]_vars

(***************************************************************************)
(* Fairness: journeys-worker loops over TickNext, so a worker that keeps   *)
(* running takes its next step; every other worker may hang, or be dead,   *)
(* forever with a step in its hands.  Timers and leases run out because    *)
(* time passes; a projection transaction ends.  Errors, crashes, events,   *)
(* operators and enrolments are never forced.                              *)
(***************************************************************************)
FairSpec ==
    /\ Spec
    /\ \A w \in Steady : WF_vars(WorkerStep(w))
    /\ WF_vars(\E s \in Step : Clock(s))
    /\ \A p \in Projector :
          WF_vars(ResolveWaitingRuns(p) \/ ProjectionAborts(p))

-----------------------------------------------------------------------------
(***************************************************************************)
(* Properties.  Four of them, and the abstract walk, except the runs that  *)
(* were crossed: the code gives those nothing to rely on.                  *)
(***************************************************************************)
OnPath == Run \ crossed

\* A run that is still inside the journey has a step at its current node, of
\* the kind that can move it, that is queued, being worked on, waiting for a
\* retry or parked as a dead letter.
HasWork(r) ==
    runs[r].status \in {"active", "waiting"} =>
        \E s \in Step : /\ RunOf(s) = r
                        /\ steps[s].node = runs[r].node
                        /\ StatusFor(steps[s].kind) = runs[r].status
                        /\ steps[s].status \in
                             {"pending", "processing", "failed", "dead"}

\* No participant is lost, although AdvanceRunTx, resolveWaitingRuns and the
\* unfenced FailJourneyStep and RescheduleJourneyStep all rewrite steps behind
\* one another's backs.
WorkConserved == \A r \in OnPath : HasWork(r)

\* Nor is one that resolveWaitingRuns took from a wait node it had not read:
\* the timeout step of that node is completed, but the step at the node the
\* run is put to is inserted in the same transaction.
CrossedRunsKeepWork == \A r \in crossed : HasWork(r)

\* A run that has completed or was canceled never changes again, whatever
\* late worker or projector still holds a step or a stale read of it.
TerminalIsFinal ==
    [][\A r \in Run : runs[r].status \in Terminal => runs'[r] = runs[r]]_vars

\* Two workers on one step, a reclaimed lease or a timeout racing an event
\* never advance a run twice: it leaves each node at most once.
LeavesEachNodeOnce ==
    \A r \in OnPath : \A i, j \in DOMAIN transitions[r] :
        (/\ i # j
         /\ transitions[r][i].from = transitions[r][j].from)
        => "waiting" \in {transitions[r][i].outcome, transitions[r][j].outcome}

\* The causal history explains where the run is: each transition starts
\* where the previous one ended, and the last one ends at the current node.
EndOf(t) == IF t.to = NoNode THEN t.from ELSE t.to
HistoryExplainsPosition ==
    \A r \in OnPath :
        LET h == transitions[r]
        IN  /\ runs[r].node = IF h = <<>> THEN EntryNode ELSE EndOf(h[Len(h)])
            /\ \A i \in 1..(Len(h) - 1) : h[i + 1].from = EndOf(h[i])

\* Effects and history agree: a message intent exists exactly when the run
\* has left that message node by sending, for crossed runs too.
EffectsMatchHistory ==
    \A r \in Run : \A n \in Node :
        <<r, n>> \in intents <=>
            \E i \in DOMAIN transitions[r] :
                /\ transitions[r][i].from = n
                /\ transitions[r][i].outcome = "message"

\* A claim never runs into the unique index journey_steps_one_live_per_run:
\* that error would be returned for the same head of the queue forever.  It is
\* the promise of the policy "run", until an operator retries a step: the
\* unfenced reschedule and a retried old step both reopen a closed row.
ClaimNeverBlocked ==
    latePolicy = "run" /\ retries = 0 =>
        \A s \in Step : RunOf(s) \in OnPath /\ Claimable(s) => ~IndexClash(s)

\* Once the version stays active, every participant leaves the journey or
\* ends up with a dead-lettered step an operator can see.
Parked(r) == \E s \in Step : /\ RunOf(s) = r
                            /\ steps[s].node = runs[r].node
                            /\ steps[s].status = "dead"
EveryRunSettles ==
    <>[]versionActive =>
        \A r \in Run : (runs[r].status # "none") ~>
                         (runs[r].status \in Terminal \/ Parked(r))

\* The runtime implements the abstract walk along the graph; a crossed run has
\* gone astray.
Walk == INSTANCE JourneyWalk WITH
    Successor <- {<<e.from, e.to>> : e \in Edge},
    WaitNode <- {n \in Node : NodeType[n] = "wait_event"},
    place <- [r \in Run |->
                IF r \in crossed
                THEN [status |-> "astray", node |-> EntryNode]
                ELSE [status |-> runs[r].status, node |-> runs[r].node]]
ImplementsWalk == Walk!Spec
=============================================================================
