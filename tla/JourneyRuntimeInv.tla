------------------------- MODULE JourneyRuntimeInv --------------------------
(***************************************************************************)
(* The inductive invariant behind JourneyRuntime's safety properties, kept *)
(* apart from the proofs so that TLC can check it first.                   *)
(*                                                                         *)
(* It rests on one fact about the published graph, which the design states *)
(* ("an immutable published DAG") and the validator does not check: it has *)
(* no cycle, that is, a rank grows along every edge.  It is about the runs *)
(* that were not crossed, each whatever happens to the others.             *)
(***************************************************************************)
EXTENDS JourneyRuntime

CONSTANT Rank       \* Rank[n]: a number that grows along every edge

Acyclic == /\ Rank \in [Node -> Nat]
           /\ \A e \in Edge : Rank[e.from] < Rank[e.to]

IsWait(n) == NodeType[n] = "wait_event"
OneWait == \A m, n \in Node : IsWait(m) /\ IsWait(n) => m = n
NoneCrossed == crossed = {}

Busy(w) == workers[w].pc # "idle"
\* The worker is busy with a run that was not crossed.
BusyOnPath(w) == Busy(w) /\ RunOf(workers[w].step) \in OnPath
HeldRun(w) == runs[RunOf(workers[w].step)]

\* The run has left the held step's node for good.
Gone(w) == \/ HeldRun(w).status \in Terminal
           \/ Rank[workers[w].node] < Rank[HeldRun(w).node]

\* A run is at its entry node until it enrols, and waits only at wait nodes.
RunsInv ==
    \A r \in OnPath : /\ runs[r].status = "none" => runs[r].node = EntryNode
                      /\ runs[r].status = "waiting" => IsWait(runs[r].node)

\* Timeout steps belong to wait nodes.
StepsInv ==
    \A s \in Step : /\ RunOf(s) \in OnPath
                    /\ Exists(s) /\ steps[s].kind = "timeout"
                    => IsWait(steps[s].node)

\* What a worker holds is the row it claimed, or the row was deleted; the
\* run is at that node or past it.
HeldInv ==
    \A w \in Worker : BusyOnPath(w) =>
        /\ workers[w].kind = "timeout" => IsWait(workers[w].node)
        /\ steps[workers[w].step].status # "none"
        /\ Exists(workers[w].step) =>
             /\ steps[workers[w].step].node = workers[w].node
             /\ steps[workers[w].step].kind = workers[w].kind
        /\ HeldRun(w).status # "none"
        /\ HeldRun(w).node = workers[w].node \/ Gone(w)

\* A computed result is a legal move from the held node, or can no longer
\* be applied.
GoodResult(n, kind, res) ==
    \/ /\ res.next = "advance" /\ res.status = "active"
       /\ \E e \in Out(n) : e.to = res.node
    \/ /\ res.next = "timeout" /\ res.status = "waiting"
       /\ res.node = n /\ IsWait(n) /\ kind = "advance"
    \/ /\ res.next = "none" /\ res.status = "completed"
       /\ res.node = n /\ Out(n) = {}

ResultInv ==
    \A w \in Worker : BusyOnPath(w) /\ workers[w].pc = "executed" =>
        \/ GoodResult(workers[w].node, workers[w].kind, workers[w].res)
        \/ Gone(w)

\* A projector has only read runs at wait nodes.
ItemsInv ==
    \A p \in Projector : \A it \in projectors[p].items :
        it[1] \in OnPath => IsWait(it[2])

\* What a computed result will record agrees with what it will do: to_node is
\* where the run goes, only going to sleep is recorded as waiting, and an
\* intent comes with the outcome of a message node.
GoodRecord(res) ==
    /\ res.to = IF res.next = "advance" THEN res.node ELSE NoNode
    /\ res.next = "timeout" <=> res.outcome = "waiting"
    /\ res.intent <=> res.outcome = "message"
RecordInv ==
    \A w \in Worker : workers[w].pc = "executed" => GoodRecord(workers[w].res)

\* A run that is not completed is past every node it was recorded to leave.
LeftInv ==
    \A r \in OnPath : \A i \in DOMAIN transitions[r] :
        \/ transitions[r][i].outcome = "waiting"
        \/ Rank[transitions[r][i].from] < Rank[runs[r].node]
        \/ runs[r].status = "completed"

HistoryInv == /\ HistoryExplainsPosition
              /\ LeftInv
              /\ LeavesEachNodeOnce

\* No step is ahead of its run, and no timeout step is there before the run
\* waits.
StepsBehind ==
    \A s \in Step : RunOf(s) \in OnPath /\ Exists(s) =>
        LET run == runs[RunOf(s)]
        IN  /\ run.status # "none"
            /\ \/ Rank[steps[s].node] < Rank[run.node]
               \/ /\ steps[s].node = run.node
                  /\ steps[s].kind = "timeout" => run.status # "active"

\* A run has at most one step per node and kind.
OneStepPerPlace ==
    \A s, t \in Step :
        (/\ RunOf(s) \in OnPath
         /\ Exists(s) /\ Exists(t) /\ RunOf(s) = RunOf(t)
         /\ steps[s].node = steps[t].node /\ steps[s].kind = steps[t].kind)
        => s = t

\* A live step can move its run, as long as nothing reopens closed steps.
LiveMatches ==
    latePolicy = "run" /\ retries = 0 =>
        \A s \in Step : RunOf(s) \in OnPath /\ Live(s) => Matches(s)

QueueInv == StepsBehind /\ OneStepPerPlace /\ LiveMatches

\* The inductive invariant: whatever stale step, result or read a worker or a
\* projector still holds, it is either a legal move of the run or can no
\* longer be applied, no participant is lost, the recorded history is the
\* way the run has come, and the queue holds one step per place.
IInv == /\ TypeOK
        /\ RunsInv
        /\ StepsInv
        /\ HeldInv
        /\ ResultInv
        /\ ItemsInv
        /\ WorkConserved
        /\ RecordInv
        /\ EffectsMatchHistory
        /\ HistoryInv
        /\ QueueInv

(***************************************************************************)
(* What a step may do to one run, to one step row and to one worker: the   *)
(* shape of the induction.                                                 *)
(***************************************************************************)
Inside(r) == runs[r].status \in {"active", "waiting"}

LegalMove(r) ==
    \/ runs'[r] = runs[r]
    \/ /\ runs[r].status = "none" /\ runs'[r].status = "active"
       /\ runs'[r].node = runs[r].node
    \/ /\ Inside(r) /\ runs'[r].status = "active"
       /\ \E e \in Out(runs[r].node) : e.to = runs'[r].node
    \/ /\ runs[r].status = "active" /\ runs'[r].status = "waiting"
       /\ runs'[r].node = runs[r].node /\ IsWait(runs[r].node)
    \/ /\ Inside(r) /\ runs'[r].status = "completed"
       /\ runs'[r].node = runs[r].node /\ Out(runs[r].node) = {}
    \/ /\ Inside(r) /\ runs'[r].status = "canceled"
       /\ runs'[r].node = runs[r].node

\* A new row is the one step for the place its run has just come to.
Opened(s) ==
    LET r == RunOf(s)
    IN  /\ s = FreshStep(r)
        /\ steps'[s].node = runs'[r].node
        /\ runs'[r].status = StatusFor(steps'[s].kind)
        /\ \/ runs[r].status = "none"
           \/ \E e \in Out(runs[r].node) : e.to = runs'[r].node
           \/ runs[r].status = "active" /\ runs'[r].status = "waiting"

LegalRow(s) ==
    \/ /\ steps[s].status # "none" /\ steps'[s].status # "none"
       /\ steps'[s].status # "deleted" =>
            /\ steps[s].status # "deleted"
            /\ steps'[s].node = steps[s].node
            /\ steps'[s].kind = steps[s].kind
    \/ /\ steps[s].status = "none"
       /\ steps'[s].status \notin {"none", "deleted"} =>
            /\ steps'[s].kind = "timeout" => IsWait(steps'[s].node)
            /\ Opened(s)

\* What a step may do to the history of one run: nothing, or one transition
\* that starts where the run was and ends where the run is.
Unrecorded(r) ==
    /\ transitions'[r] = transitions[r]
    /\ runs'[r].node = runs[r].node
    /\ runs[r].status = "completed" => runs'[r].status = "completed"

Recorded(r, t) ==
    /\ transitions'[r] = Append(transitions[r], t)
    /\ Inside(r)
    /\ t.from = runs[r].node /\ EndOf(t) = runs'[r].node
    /\ \/ t.outcome = "waiting" /\ runs'[r].node = runs[r].node
       \/ Rank[t.from] < Rank[runs'[r].node]
       \/ runs'[r].status = "completed"

\* What a step may do to the history of one run and to its intents: nothing,
\* or one transition together with the intent of a message node.
Silent(r) ==
    /\ transitions'[r] = transitions[r]
    /\ \A n \in Node : <<r, n>> \in intents' <=> <<r, n>> \in intents

Sends(r, t) ==
    /\ transitions'[r] = Append(transitions[r], t)
    /\ \A n \in Node : <<r, n>> \in intents' <=>
          <<r, n>> \in intents \/ (n = t.from /\ t.outcome = "message")

Keeps(w) == /\ workers[w].pc # "idle"
            /\ workers'[w].step = workers[w].step
            /\ workers'[w].node = workers[w].node
            /\ workers'[w].kind = workers[w].kind
=============================================================================
