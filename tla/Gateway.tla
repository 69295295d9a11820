------------------------------ MODULE Gateway ------------------------------
(***************************************************************************)
(* The AI gateway: every caller of a model (the copilot handlers, the      *)
(* insights agent, the journey decision node, LLM scoring, the generation  *)
(* job) goes through Generate, which reads the workspace's default         *)
(* provider configuration, checks the month's budget, calls the provider,  *)
(* counts what the response cost and records the decision in the activity  *)
(* log.  Callers run concurrently and share only the configuration, the    *)
(* ai_budget_usage row and the log; the log is never read by them, so a    *)
(* record is written in the step of the store call that precedes it.       *)
(* Costs are cents, the month does not turn.                               *)
(***************************************************************************)
EXTENDS Naturals, FiniteSets

CONSTANTS Callers,
          Budgets,       \* monthly budgets an administrator may set, 0 for none
          MaxCost,       \* the dearest response of the provider
          CallCap,       \* MaxCostCents of a journey's decision node
          MaxSteps,      \* the agent's step limit
          MaxSpend,      \* bound on what the provider charges
          MaxFaults,     \* bound on contexts that end early and store calls that fail
          NoConfig

ASSUME BudgetAssumption == Budgets \subseteq Nat
ASSUME CostAssumption == MaxCost \in Nat \ {0} /\ CallCap \in Nat /\ MaxSpend \in Nat
ASSUME BoundsAssumption == MaxSteps \in Nat \ {0} /\ MaxFaults \in Nat
ASSUME CallersAssumption == IsFiniteSet(Callers)
ASSUME ConfigAssumption == NoConfig \notin [status: {"active", "disabled"}, budget: Budgets]

VARIABLES cfg,       \* the default row of ai_provider_configs
          usage,     \* ai_budget_usage.cost_cents of the month
          spent,     \* what the responses received cost
          admitted,  \* the budgets under which calls were let through
          call,      \* the request of each caller
          faults     \* contexts that ended early and store calls that failed

vars == <<cfg, usage, spent, admitted, call, faults>>

\* The copilots and the generation job are alike for the gateway, and so are
\* embeddings and moderation.
Tasks == {"draft", "insights", "decision", "score", "embed"}
Config == [status: {"active", "disabled"}, budget: Budgets]
Steps == {"idle", "called", "ready", "asked", "answered", "retry", "asked again", "repaired", "returned"}
Contexts == {"live", "ended"}

\* The request of a caller for a task: how far it is, and what became of its
\* context.
NewRequest(task, at, step, ctx) ==
    [task |-> task, at |-> at, budget |-> 0, cost |-> 0, again |-> 0, step |-> step, ctx |-> ctx]
Idle == NewRequest("none", "idle", 0, "live")
Ended(c) == call[c].ctx = "ended"

-----------------------------------------------------------------------------
(* The provider configuration                                              *)

\* Creating or updating a default row clears the flag on the others first.
MakeDefault(c) == cfg' = c /\ UNCHANGED <<usage, spent, admitted, call, faults>>

CreateAIProviderConfig == cfg = NoConfig /\ \E c \in Config : MakeDefault(c)
UpdateAIProviderConfig == cfg # NoConfig /\ \E c \in (Config \ {cfg}) \cup {NoConfig} : MakeDefault(c)
DeleteAIProviderConfig == cfg # NoConfig /\ MakeDefault(NoConfig)

-----------------------------------------------------------------------------
(* Store calls of a caller.  They fail once its context has ended, or when *)
(* the store does, which happens to one call of a step at most.            *)

\* ok is what the call returns; a failure that is not the context's is counted.
Works(c, ok) ==
    \/ ok /\ ~Ended(c) /\ UNCHANGED faults
    \/ ~ok /\ Ended(c) /\ UNCHANGED faults
    \/ ~ok /\ ~Ended(c) /\ faults < MaxFaults /\ faults' = faults + 1

\* One statement adds the cost to the month's row.
IncrementAIBudgetUsage(cents) == usage' = usage + cents
GetDefaultAIProviderConfig == cfg
GetAIBudgetUsage == usage

Moves(c, r) == call' = [call EXCEPT ![c] = r]
Ends(c) == Moves(c, Idle)

\* An answer or an error is handed back to the code that asked.
Returns(c) == Moves(c, NewRequest(call[c].task, "returned", call[c].step, call[c].ctx))

\* The row of the activity log and its audit event, in one transaction.
RecordAIActivity(c, ok) == Works(c, ok)

\* record: the context is detached when it has ended, so that refusals are
\* written; it is the store alone that can lose one.
Refuses(c) ==
    /\ Ends(c)
    /\ UNCHANGED <<cfg, usage, spent, admitted, faults>>

-----------------------------------------------------------------------------
(* Generate                                                                *)

\* getProvider: the default row, which must be active.
getProvider(c) ==
    LET row == GetDefaultAIProviderConfig
    IN /\ ~Ended(c) /\ row # NoConfig /\ row.status = "active"
       /\ Moves(c, [call[c] EXCEPT !.at = "ready", !.budget = row.budget])
       /\ UNCHANGED <<cfg, usage, spent, admitted, faults>>

\* An unusable prompt version, a payload that may not be sent or a disabled
\* provider is recorded as denied_policy.
Generate(c) == call[c].at = "called" /\ (getProvider(c) \/ Refuses(c))

\* Mutant: a repair is sent without looking at the budget again.
WithinBudgetOnce(c) ==
    call[c].at = "retry" \/ call[c].budget = 0 \/ (~Ended(c) /\ GetAIBudgetUsage < call[c].budget)

\* A budget of 0 is not read; the read fails with its context.
WithinBudget(c) == call[c].budget = 0 \/ (~Ended(c) /\ GetAIBudgetUsage < call[c].budget)

checkBudget(c) ==
    /\ call[c].at \in {"ready", "retry"}
    /\ \/ /\ WithinBudget(c)
          /\ Moves(c, [call[c] EXCEPT !.at = IF @ = "ready" THEN "asked" ELSE "asked again"])
          /\ admitted' = admitted \cup {call[c].budget}
          /\ UNCHANGED <<cfg, usage, spent, faults>>
       \/ ~WithinBudget(c) /\ Refuses(c)

\* The cost the prompt's length predicts may exceed the caller's cap.
EstimateCost(c) == call[c].at = "ready" /\ call[c].task = "decision" /\ Refuses(c)

\* provider.Generate, Embed and Moderate: a request built by the profile,
\* to an allowed host, and its parsed answer.
ProviderAnswers(c) ==
    /\ call[c].at \in {"asked", "asked again"} /\ ~Ended(c)
    /\ \E k \in 1..MaxCost :
          /\ spent + k <= MaxSpend
          /\ spent' = spent + k
          /\ \/ call[c].at = "asked" /\ Moves(c, [call[c] EXCEPT !.at = "answered", !.cost = k])
             \/ call[c].at = "asked again" /\ Moves(c, [call[c] EXCEPT !.at = "repaired", !.again = k])
    /\ UNCHANGED <<cfg, usage, admitted, faults>>

\* A refused host, a transport error, a status that is not 200 or a timeout is
\* recorded and ends the call.
ProviderFails(c) == call[c].at \in {"asked", "asked again"} /\ Refuses(c)

OverCap(c) == call[c].task = "decision" /\ call[c].cost + call[c].again > CallCap

\* Mutant: a repair is counted with the response it repairs.
ResponseCostTotal(c) == call[c].cost + call[c].again

\* The response in hand: of a repair, the repair alone.
ResponseCost(c) == IF call[c].at = "repaired" THEN call[c].again ELSE call[c].cost

\* Best effort: the error of the increment is dropped.
recordMetricsAndIncrementBudget(c) ==
    \/ Works(c, TRUE) /\ IncrementAIBudgetUsage(ResponseCost(c))
    \/ Works(c, FALSE) /\ UNCHANGED usage

\* Dearer than the caller's cap: counted, recorded as denied_budget, refused.
TooDear(c) ==
    /\ call[c].at \in {"answered", "repaired"} /\ OverCap(c)
    /\ recordMetricsAndIncrementBudget(c)
    /\ Ends(c)
    /\ UNCHANGED <<cfg, spent, admitted>>

\* The first answer fails the output schema or the domain validator: it is
\* counted, and repaired if the budget still allows.
ValidateOutput(c) ==
    /\ call[c].at = "answered" /\ ~OverCap(c) /\ call[c].task \notin {"embed"}
    /\ recordMetricsAndIncrementBudget(c)
    /\ Moves(c, [call[c] EXCEPT !.at = "retry"])
    /\ UNCHANGED <<cfg, spent, admitted>>

\* The repaired answer fails as well: counted and recorded as schema_reject.
RepairRejected(c) ==
    /\ call[c].at = "repaired" /\ ~OverCap(c)
    /\ recordMetricsAndIncrementBudget(c)
    /\ Ends(c)
    /\ UNCHANGED <<cfg, spent, admitted>>

\* recordActivityID: only a recorded answer is handed back.
HandsBack(c, recorded) == IF recorded THEN Returns(c) ELSE Ends(c)

\* A valid first answer is recorded, and then counted: when the record fails
\* Generate returns before the increment.
Accepts(c) ==
    /\ call[c].at = "answered" /\ ~OverCap(c) /\ call[c].task # "embed"
    /\ \/ RecordAIActivity(c, FALSE) /\ HandsBack(c, FALSE) /\ UNCHANGED usage
       \/ HandsBack(c, TRUE) /\ ~Ended(c) /\ recordMetricsAndIncrementBudget(c)
    /\ UNCHANGED <<cfg, spent, admitted>>

\* A repaired answer is counted first.
AcceptsRepair(c) ==
    /\ call[c].at = "repaired" /\ ~OverCap(c)
    /\ \/ recordMetricsAndIncrementBudget(c) /\ HandsBack(c, ~Ended(c))
       \/ /\ RecordAIActivity(c, FALSE) /\ ~Ended(c)
          /\ IncrementAIBudgetUsage(ResponseCost(c)) /\ HandsBack(c, FALSE)
    /\ UNCHANGED <<cfg, spent, admitted>>

\* Embed and Moderate count first and stop at the first error.
Embed(c) ==
    /\ call[c].at = "answered" /\ call[c].task = "embed"
    /\ \/ Works(c, TRUE) /\ IncrementAIBudgetUsage(ResponseCost(c)) /\ HandsBack(c, TRUE)
       \/ Works(c, FALSE) /\ UNCHANGED usage /\ HandsBack(c, FALSE)
       \/ /\ RecordAIActivity(c, FALSE) /\ ~Ended(c)
          /\ IncrementAIBudgetUsage(ResponseCost(c)) /\ HandsBack(c, FALSE)
    /\ UNCHANGED <<cfg, spent, admitted>>

\* The request's deadline passes, its client leaves or its worker stops.
Expire(c) ==
    /\ call[c].at \notin {"idle", "returned"} /\ ~Ended(c) /\ faults < MaxFaults
    /\ Moves(c, [call[c] EXCEPT !.ctx = "ended"])
    /\ faults' = faults + 1
    /\ UNCHANGED <<cfg, usage, spent, admitted>>

-----------------------------------------------------------------------------
(* The callers                                                             *)

\* The prompt version, when there is one, was found active and passed.
Asks(c, task) ==
    /\ call[c].at = "idle"
    /\ Moves(c, NewRequest(task, "called", 0, "live"))
    /\ UNCHANGED <<cfg, usage, spent, admitted, faults>>

\* What is made of the answer is a draft, a branch, a score or a stored
\* document of its own row, or nothing if the answer does not parse.
Uses(c, task) ==
    /\ call[c].at = "returned" /\ call[c].task = task
    /\ Ends(c)
    /\ UNCHANGED <<cfg, usage, spent, admitted, faults>>

createContentCopilot(c) == Asks(c, "draft") \/ Uses(c, "draft")
createJourneyCopilot(c) == Asks(c, "draft") \/ Uses(c, "draft")
createAudienceCopilot(c) == Asks(c, "draft") \/ Uses(c, "draft")
createPerformanceCopilot(c) == Asks(c, "draft") \/ Uses(c, "draft")
executeAIGeneration(c) == Asks(c, "draft") \/ Uses(c, "draft")
decide(c) == Asks(c, "decision") \/ Uses(c, "decision")
EvaluateLLM(c) == Asks(c, "score") \/ Uses(c, "score")
embeds(c) == Asks(c, "embed") \/ Uses(c, "embed")
moderates(c) == Asks(c, "embed") \/ Uses(c, "embed")

\* An evaluation asks once for each of its cases.
EvaluateLLMModel(c) ==
    /\ call[c].at = "returned" /\ call[c].task = "score" /\ call[c].step < MaxSteps
    /\ Moves(c, NewRequest("score", "called", call[c].step + 1, "live"))
    /\ UNCHANGED <<cfg, usage, spent, admitted, faults>>

-----------------------------------------------------------------------------
(* The insights agent                                                      *)

\* The next step of the loop, or its end at the limit or the deadline.
NextStep(c) ==
    IF call[c].step + 1 < MaxSteps /\ ~Ended(c)
    THEN Moves(c, NewRequest("insights", "called", call[c].step + 1, "live"))
    ELSE Ends(c)

\* The output of a tool enters the trace once its call is recorded as allowed;
\* a missing scope, a rejected input or output, an error or a record that
\* cannot be written gives the agent an error to read.  The loop goes on.
Call(c) ==
    /\ call[c].at = "returned" /\ call[c].task = "insights"
    /\ NextStep(c)
    /\ UNCHANGED <<cfg, usage, spent, admitted, faults>>

\* The final answer is shown if its metrics occur in the trace.
createInsightsCopilot(c) == Asks(c, "insights") \/ Uses(c, "insights")

-----------------------------------------------------------------------------

Init ==
    /\ cfg \in {NoConfig} \cup Config
    /\ usage = 0 /\ spent = 0 /\ admitted = {}
    /\ call = [c \in Callers |-> Idle]
    /\ faults = 0

Administer == CreateAIProviderConfig \/ UpdateAIProviderConfig \/ DeleteAIProviderConfig

Handle(c) ==
    \/ createContentCopilot(c) \/ createJourneyCopilot(c) \/ createAudienceCopilot(c)
    \/ createPerformanceCopilot(c) \/ createInsightsCopilot(c) \/ executeAIGeneration(c)
    \/ decide(c) \/ EvaluateLLM(c) \/ EvaluateLLMModel(c) \/ embeds(c) \/ moderates(c)

Proceed(c) ==
    \/ Generate(c) \/ checkBudget(c) \/ EstimateCost(c) \/ ProviderAnswers(c) \/ ProviderFails(c)
    \/ TooDear(c) \/ ValidateOutput(c) \/ RepairRejected(c) \/ Accepts(c) \/ AcceptsRepair(c)
    \/ Embed(c) \/ Expire(c) \/ Call(c)

Next == Administer \/ \E c \in Callers : Handle(c) \/ Proceed(c)

Spec == Init /\ [][Next]_vars

-----------------------------------------------------------------------------
(* Properties                                                              *)

Request == [task: Tasks \cup {"none"}, at: Steps, budget: Budgets \cup {0}, cost: 0..MaxCost,
            again: 0..MaxCost, step: 0..MaxSteps, ctx: Contexts]

\* The state keeps its shape: one default configuration, one usage row, one
\* request per caller.
TypeOK ==
    /\ cfg \in {NoConfig} \cup Config
    /\ usage \in Nat /\ spent \in Nat /\ faults \in Nat
    /\ admitted \subseteq Budgets \cup {0}
    /\ call \in [Callers -> Request]

\* The response of a caller that no increment has been tried for, and the
\* cents of all of them.
Uncounted(c) ==
    IF call[c].at = "answered" THEN call[c].cost
    ELSE IF call[c].at = "repaired" THEN call[c].again
    ELSE 0
Pending == UNION {{c} \X (1..Uncounted(c)) : c \in Callers}

\* usage follows what the provider charged: nothing is counted twice (a repair
\* not with its first answer), and what is missing was lost to a context that
\* ended or a store call that failed, one response for each.
ChargesAreCounted ==
    /\ usage + Cardinality(Pending) <= spent
    /\ spent <= usage + Cardinality(Pending) + MaxCost * faults

\* The calls between their admission and the count of their response.
InFlight == {c \in Callers : call[c].at \in {"asked", "answered", "asked again", "repaired"}}

\* The check of the budget and the count are two steps and the callers run
\* concurrently, so the budget is overrun; but what is counted and what is on
\* its way exceed the highest budget that let a call through by less than one
\* response for each caller, whatever the administrator changes and although a
\* call may send two requests (checkBudget, recordMetricsAndIncrementBudget).
OverrunBounded ==
    admitted # {} /\ 0 \notin admitted =>
        \E b \in admitted :
            usage + MaxCost * Cardinality(InFlight) < b + MaxCost * Cardinality(Callers)
=============================================================================
