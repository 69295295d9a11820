--------------------------- MODULE GatewayProofs ---------------------------
(***************************************************************************)
(* What the AI gateway keeps whatever the number of callers, the budgets   *)
(* and the costs: its types, the bound on how far a budget is overrun, and *)
(* that every charge is counted once.                                      *)
(***************************************************************************)
EXTENDS Gateway, FiniteSetTheorems, TLAPS

USE CostAssumption, BoundsAssumption, BudgetAssumption

\* The requests a step may leave a caller with.
LEMMA NewRequestType ==
  ASSUME NEW task \in Tasks \cup {"none"}, NEW at \in Steps, NEW step \in 0..MaxSteps,
         NEW ctx \in Contexts
  PROVE  NewRequest(task, at, step, ctx) \in Request
<1>1. 0 \in 0..MaxCost /\ 0 \in Budgets \cup {0}
  OBVIOUS
<1> QED
  BY <1>1, Zenon DEF NewRequest, Request

LEMMA IdleIsRequest == Idle \in Request
<1>1. 0 \in 0..MaxSteps /\ "idle" \in Steps /\ "live" \in Contexts
  BY DEF Steps, Contexts
<1> QED
  BY <1>1, NewRequestType DEF Idle

-----------------------------------------------------------------------------
(* Types                                                                   *)

\* A step of a caller's request leaves the other requests alone.
LEMMA MovesType ==
  ASSUME TypeOK, NEW c \in Callers, NEW r \in Request, Moves(c, r)
  PROVE  call' \in [Callers -> Request]
  BY DEF TypeOK, Moves

LEMMA EndsType ==
  ASSUME TypeOK, NEW c \in Callers, Ends(c)
  PROVE  call' \in [Callers -> Request]
  BY MovesType, IdleIsRequest DEF Ends

LEMMA ReturnsType ==
  ASSUME TypeOK, NEW c \in Callers, Returns(c)
  PROVE  call' \in [Callers -> Request]
<1>1. call[c] \in Request
  BY DEF TypeOK
<1>2. call[c].task \in Tasks \cup {"none"} /\ call[c].step \in 0..MaxSteps /\ call[c].ctx \in Contexts
  BY <1>1 DEF Request
<1>3. NewRequest(call[c].task, "returned", call[c].step, call[c].ctx) \in Request
  BY <1>2, NewRequestType DEF Steps
<1> QED
  BY <1>3, MovesType DEF Returns

\* What a store call may do to the counters.
LEMMA CountsType ==
  ASSUME TypeOK, NEW c \in Callers
  PROVE  /\ call[c] \in Request /\ ResponseCost(c) \in 0..MaxCost
         /\ \A ok \in BOOLEAN : Works(c, ok) => faults' \in Nat
         /\ IncrementAIBudgetUsage(ResponseCost(c)) => usage' \in Nat
         /\ recordMetricsAndIncrementBudget(c) => usage' \in Nat /\ faults' \in Nat
<1>1. call[c] \in Request
  BY DEF TypeOK
<1>2. ResponseCost(c) \in 0..MaxCost
  BY <1>1 DEF ResponseCost, Request
<1>3. \A ok \in BOOLEAN : Works(c, ok) => faults' \in Nat
  BY DEF Works, TypeOK
<1>4. IncrementAIBudgetUsage(ResponseCost(c)) => usage' \in Nat
  BY <1>2 DEF IncrementAIBudgetUsage, TypeOK
<1> QED
  BY <1>1, <1>2, <1>3, <1>4 DEF recordMetricsAndIncrementBudget, TypeOK

LEMMA HandsBackType ==
  ASSUME TypeOK, NEW c \in Callers, NEW recorded \in BOOLEAN, HandsBack(c, recorded)
  PROVE  call' \in [Callers -> Request]
  BY EndsType, ReturnsType DEF HandsBack

\* A configuration is all an administrator changes.
LEMMA AdministerType ==
  ASSUME TypeOK, Administer
  PROVE  TypeOK'
  BY DEF TypeOK, Administer, CreateAIProviderConfig, UpdateAIProviderConfig, DeleteAIProviderConfig,
         MakeDefault

\* A caller asks or uses an answer.
LEMMA HandleType ==
  ASSUME TypeOK, NEW c \in Callers, Handle(c)
  PROVE  TypeOK'
<1>1. call[c] \in Request /\ call[c].step \in 0..MaxSteps
  BY DEF TypeOK, Request
<1>2. ASSUME NEW task \in Tasks, Asks(c, task)
      PROVE  TypeOK'
  <2>1. NewRequest(task, "called", 0, "live") \in Request
    <3>1. 0 \in 0..MaxSteps /\ "called" \in Steps /\ "live" \in Contexts
      BY DEF Steps, Contexts
    <3> QED
      BY <3>1, NewRequestType
  <2>2. call' \in [Callers -> Request]
    BY <1>2, <2>1, MovesType DEF Asks
  <2> QED
    BY <1>2, <2>2 DEF Asks, TypeOK
<1>3. ASSUME NEW task \in Tasks, Uses(c, task)
      PROVE  TypeOK'
  <2>1. call' \in [Callers -> Request]
    BY <1>3, EndsType DEF Uses
  <2> QED
    BY <1>3, <2>1 DEF Uses, TypeOK
<1>4. CASE EvaluateLLMModel(c)
  <2>1. NewRequest("score", "called", call[c].step + 1, "live") \in Request
    <3>1. /\ call[c].step + 1 \in 0..MaxSteps /\ "score" \in Tasks
          /\ "called" \in Steps /\ "live" \in Contexts
      BY <1>1, <1>4 DEF EvaluateLLMModel, Tasks, Steps, Contexts
    <3> QED
      BY <3>1, NewRequestType
  <2>2. call' \in [Callers -> Request]
    BY <1>4, <2>1, MovesType DEF EvaluateLLMModel
  <2> QED
    BY <1>4, <2>2 DEF EvaluateLLMModel, TypeOK
<1>5. EvaluateLLMModel(c) \/ \E task \in Tasks : Asks(c, task) \/ Uses(c, task)
  BY DEF Handle, createContentCopilot, createJourneyCopilot, createAudienceCopilot,
         createPerformanceCopilot, createInsightsCopilot, executeAIGeneration, decide, EvaluateLLM,
         embeds, moderates, Tasks
<1> QED
  BY <1>2, <1>3, <1>4, <1>5

LEMMA RefusesType ==
  ASSUME TypeOK, NEW c \in Callers, Refuses(c)
  PROVE  TypeOK'
  BY EndsType DEF Refuses, TypeOK

\* Each step of a request.
LEMMA ProceedType ==
  ASSUME TypeOK, NEW c \in Callers, Proceed(c)
  PROVE  TypeOK'
<1>1. call[c] \in Request
  BY DEF TypeOK
<1>2. CASE Generate(c)
  <2>1. CASE getProvider(c)
    <3>1. cfg \in Config /\ cfg.budget \in Budgets \cup {0}
      BY <2>1 DEF getProvider, GetDefaultAIProviderConfig, TypeOK, Config
    <3>2. [call[c] EXCEPT !.at = "ready", !.budget = cfg.budget] \in Request
      BY <1>1, <3>1 DEF Request, Steps
    <3>3. call' \in [Callers -> Request]
      BY <2>1, <3>2, MovesType DEF getProvider, GetDefaultAIProviderConfig
    <3> QED
      BY <2>1, <3>3 DEF getProvider, TypeOK
  <2> QED
    BY <1>2, <2>1, RefusesType DEF Generate
<1>3. CASE checkBudget(c)
  <2>1. CASE Refuses(c)
    BY <2>1, RefusesType
  <2>2. CASE ~Refuses(c)
    <3>1. [call[c] EXCEPT !.at = IF @ = "ready" THEN "asked" ELSE "asked again"] \in Request
      BY <1>1 DEF Request, Steps
    <3>2. call' \in [Callers -> Request]
      BY <1>3, <2>2, <3>1, MovesType DEF checkBudget
    <3>3. admitted' \subseteq Budgets \cup {0}
      BY <1>1, <1>3, <2>2 DEF checkBudget, TypeOK, Request
    <3> QED
      BY <1>3, <2>2, <3>2, <3>3 DEF checkBudget, TypeOK
  <2> QED
    BY <2>1, <2>2
<1>4. CASE EstimateCost(c) \/ ProviderFails(c)
  BY <1>4, RefusesType DEF EstimateCost, ProviderFails
<1>5. CASE ProviderAnswers(c)
  <2>1. PICK k \in 1..MaxCost :
          /\ spent' = spent + k
          /\ \/ Moves(c, [call[c] EXCEPT !.at = "answered", !.cost = k])
             \/ Moves(c, [call[c] EXCEPT !.at = "repaired", !.again = k])
    BY <1>5 DEF ProviderAnswers
  <2>2. /\ [call[c] EXCEPT !.at = "answered", !.cost = k] \in Request
        /\ [call[c] EXCEPT !.at = "repaired", !.again = k] \in Request
    <3>1. k \in 0..MaxCost
      OBVIOUS
    <3> QED
      BY <1>1, <3>1 DEF Request, Steps
  <2>3. call' \in [Callers -> Request]
    BY <2>1, <2>2, MovesType
  <2>4. spent' \in Nat
    BY <2>1 DEF TypeOK
  <2> QED
    BY <1>5, <2>3, <2>4 DEF ProviderAnswers, TypeOK
<1>6. CASE TooDear(c) \/ RepairRejected(c)
  <2>1. call' \in [Callers -> Request] /\ usage' \in Nat /\ faults' \in Nat
    BY <1>6, EndsType, CountsType DEF TooDear, RepairRejected
  <2> QED
    BY <1>6, <2>1 DEF TooDear, RepairRejected, TypeOK
<1>7. CASE ValidateOutput(c)
  <2>1. [call[c] EXCEPT !.at = "retry"] \in Request
    BY <1>1 DEF Request, Steps
  <2>2. call' \in [Callers -> Request] /\ usage' \in Nat /\ faults' \in Nat
    BY <1>7, <2>1, MovesType, CountsType DEF ValidateOutput
  <2> QED
    BY <1>7, <2>2 DEF ValidateOutput, TypeOK
<1>8. CASE Accepts(c) \/ AcceptsRepair(c) \/ Embed(c)
  <2>1. \E recorded \in BOOLEAN : HandsBack(c, recorded)
    BY <1>8 DEF Accepts, AcceptsRepair, Embed
  <2>2. call' \in [Callers -> Request]
    BY <2>1, HandsBackType
  <2>3. usage' \in Nat /\ faults' \in Nat
    BY <1>8, CountsType DEF Accepts, AcceptsRepair, Embed, RecordAIActivity, TypeOK
  <2> QED
    BY <1>8, <2>2, <2>3 DEF Accepts, AcceptsRepair, Embed, TypeOK
<1>9. CASE Expire(c)
  <2>1. [call[c] EXCEPT !.ctx = "ended"] \in Request
    BY <1>1 DEF Request, Contexts
  <2>2. call' \in [Callers -> Request]
    BY <1>9, <2>1, MovesType DEF Expire
  <2> QED
    BY <1>9, <2>2 DEF Expire, TypeOK
<1>10. CASE Call(c)
  <2>1. call' \in [Callers -> Request]
    <3>1. CASE Ends(c)
      BY <3>1, EndsType
    <3>2. CASE ~Ends(c)
      <4>1. call[c].step + 1 < MaxSteps /\ Moves(c, NewRequest("insights", "called", call[c].step + 1, "live"))
        BY <1>10, <3>2 DEF Call, NextStep
      <4>2. call[c].step \in 0..MaxSteps
        BY <1>1 DEF Request
      <4>3. NewRequest("insights", "called", call[c].step + 1, "live") \in Request
        <5>1. /\ call[c].step + 1 \in 0..MaxSteps /\ "insights" \in Tasks
              /\ "called" \in Steps /\ "live" \in Contexts
          BY <4>1, <4>2 DEF Tasks, Steps, Contexts
        <5> QED
          BY <5>1, NewRequestType
      <4> QED
        BY <4>1, <4>3, MovesType
    <3> QED
      BY <3>1, <3>2
  <2> QED
    BY <1>10, <2>1 DEF Call, TypeOK
<1> QED
  BY <1>2, <1>3, <1>4, <1>5, <1>6, <1>7, <1>8, <1>9, <1>10 DEF Proceed

\* The state of the gateway keeps its shape whatever the number of callers,
\* the budgets and the costs.
THEOREM GatewayTypeCorrect == Spec => []TypeOK
<1>1. Init => TypeOK
  <2> SUFFICES ASSUME Init PROVE TypeOK
    OBVIOUS
  <2>1. call \in [Callers -> Request]
    BY IdleIsRequest DEF Init
  <2> QED
    BY <2>1 DEF Init, TypeOK
<1>2. TypeOK /\ [Next]_vars => TypeOK'
  <2>1. ASSUME TypeOK, UNCHANGED vars PROVE TypeOK'
    BY <2>1 DEF TypeOK, vars
  <2> QED
    BY <2>1, AdministerType, HandleType, ProceedType DEF Next
<1> QED
  BY <1>1, <1>2, PTL DEF Spec

-----------------------------------------------------------------------------
(* The budget                                                              *)

\* Nothing is counted and nobody is admitted.
Quiet == usage' = usage /\ admitted' = admitted /\ InFlight' \subseteq InFlight

\* A caller lets go of its response, which may be counted.
Counted ==
    /\ usage' \in usage..(usage + MaxCost) /\ admitted' = admitted
    /\ \E c \in InFlight : InFlight' \subseteq InFlight \ {c}

\* A caller is admitted by a budget that is not used up, or by none.
Admitted ==
    /\ usage' = usage
    /\ \E b \in Nat : admitted' = admitted \cup {b} /\ (b = 0 \/ usage < b)

\* A request that moves changes InFlight at most by its caller.
LEMMA FlightMoves ==
  ASSUME TypeOK, NEW c \in Callers, NEW r \in Request, Moves(c, r)
  PROVE  /\ \A d \in Callers : d # c => call'[d] = call[d]
         /\ call'[c] = r
         /\ r.at \notin {"asked", "answered", "asked again", "repaired"} => InFlight' = InFlight \ {c}
         /\ c \in InFlight => InFlight' \subseteq InFlight
<1>1. /\ \A d \in Callers : d # c => call'[d] = call[d]
      /\ call'[c] = r
  BY DEF Moves, TypeOK
<1> QED
  BY <1>1 DEF InFlight

LEMMA FlightEnds ==
  ASSUME TypeOK, NEW c \in Callers, Ends(c)
  PROVE  InFlight' = InFlight \ {c}
<1>1. Idle.at = "idle"
  BY DEF Idle, NewRequest
<1> QED
  BY <1>1, IdleIsRequest, FlightMoves DEF Ends

LEMMA FlightReturns ==
  ASSUME TypeOK, NEW c \in Callers, Returns(c)
  PROVE  InFlight' = InFlight \ {c}
<1> DEFINE r == NewRequest(call[c].task, "returned", call[c].step, call[c].ctx)
<1>1. r \in Request
  <2>1. call[c] \in Request
    BY DEF TypeOK
  <2>2. /\ call[c].task \in Tasks \cup {"none"} /\ call[c].step \in 0..MaxSteps
        /\ call[c].ctx \in Contexts /\ "returned" \in Steps
    BY <2>1 DEF Request, Steps
  <2> QED
    BY <2>2, NewRequestType
<1>2. r.at = "returned"
  BY DEF NewRequest
<1> HIDE DEF r
<1>3. Moves(c, r)
  BY DEF Returns, r
<1> QED
  BY <1>1, <1>2, <1>3, FlightMoves

LEMMA HandleIsQuiet ==
  ASSUME TypeOK, NEW c \in Callers, Handle(c)
  PROVE  Quiet
<1>1. ASSUME NEW r, Moves(c, r), r \in Request, r.at = "called"
      PROVE  InFlight' \subseteq InFlight
  BY <1>1, FlightMoves
<1>2. ASSUME NEW task \in Tasks, Asks(c, task)
      PROVE  Quiet
  <2> DEFINE r == NewRequest(task, "called", 0, "live")
  <2>1. 0 \in 0..MaxSteps /\ "called" \in Steps /\ "live" \in Contexts
    BY DEF Steps, Contexts
  <2>2. r \in Request
    BY <2>1, NewRequestType
  <2>3. r.at = "called" /\ Moves(c, r)
    BY <1>2 DEF NewRequest, Asks
  <2> QED
    BY <1>1, <1>2, <2>2, <2>3 DEF Asks, Quiet
<1>3. ASSUME NEW task \in Tasks, Uses(c, task)
      PROVE  Quiet
  BY <1>3, FlightEnds DEF Uses, Quiet
<1>4. CASE EvaluateLLMModel(c)
  <2> DEFINE r == NewRequest("score", "called", call[c].step + 1, "live")
  <2>1. call[c].step \in 0..MaxSteps
    BY DEF TypeOK, Request
  <2>2. /\ call[c].step + 1 \in 0..MaxSteps /\ "score" \in Tasks
        /\ "called" \in Steps /\ "live" \in Contexts
    BY <1>4, <2>1 DEF EvaluateLLMModel, Tasks, Steps, Contexts
  <2>3. r \in Request
    BY <2>2, NewRequestType
  <2>4. r.at = "called" /\ Moves(c, r)
    BY <1>4 DEF NewRequest, EvaluateLLMModel
  <2> QED
    BY <1>1, <1>4, <2>3, <2>4 DEF EvaluateLLMModel, Quiet
<1>5. EvaluateLLMModel(c) \/ \E task \in Tasks : Asks(c, task) \/ Uses(c, task)
  BY DEF Handle, createContentCopilot, createJourneyCopilot, createAudienceCopilot,
         createPerformanceCopilot, createInsightsCopilot, executeAIGeneration, decide, EvaluateLLM,
         embeds, moderates, Tasks
<1> QED
  BY <1>2, <1>3, <1>4, <1>5

LEMMA RefusesIsQuiet ==
  ASSUME TypeOK, NEW c \in Callers, Refuses(c)
  PROVE  Quiet
  BY FlightEnds DEF Refuses, Quiet

\* What a response adds to the month's row.
LEMMA CountBounds ==
  ASSUME TypeOK, NEW c \in Callers
  PROVE  /\ IncrementAIBudgetUsage(ResponseCost(c)) => usage' \in usage..(usage + MaxCost)
         /\ recordMetricsAndIncrementBudget(c) => usage' \in usage..(usage + MaxCost)
         /\ UNCHANGED usage => usage' \in usage..(usage + MaxCost)
<1>1. ResponseCost(c) \in 0..MaxCost /\ usage \in Nat
  BY CountsType DEF TypeOK
<1>2. usage + ResponseCost(c) \in usage..(usage + MaxCost) /\ usage \in usage..(usage + MaxCost)
  BY <1>1
<1> QED
  BY <1>2 DEF recordMetricsAndIncrementBudget, IncrementAIBudgetUsage

\* Every step of a request is one of the three.
LEMMA ProceedShape ==
  ASSUME TypeOK, NEW c \in Callers, Proceed(c)
  PROVE  Quiet \/ Counted \/ Admitted
<1>1. call[c] \in Request /\ call[c].step \in 0..MaxSteps /\ call[c].budget \in Nat
  <2>1. call[c] \in Request
    BY DEF TypeOK
  <2>2. call[c].step \in 0..MaxSteps /\ call[c].budget \in Budgets \cup {0}
    BY <2>1 DEF Request
  <2>3. \A b \in Budgets \cup {0} : b \in Nat
    OBVIOUS
  <2> QED
    BY <2>1, <2>2, <2>3
<1>2. CASE Generate(c)
  <2>1. CASE getProvider(c)
    <3> DEFINE r == [call[c] EXCEPT !.at = "ready", !.budget = cfg.budget]
    <3>1. cfg \in Config /\ cfg.budget \in Budgets \cup {0}
      BY <2>1 DEF getProvider, GetDefaultAIProviderConfig, TypeOK, Config
    <3>2. r \in Request /\ r.at = "ready"
      BY <1>1, <3>1 DEF Request, Steps
    <3>3. Moves(c, r)
      BY <2>1 DEF getProvider, GetDefaultAIProviderConfig
    <3> HIDE DEF r
    <3>4. InFlight' \subseteq InFlight
      BY <3>2, <3>3, FlightMoves
    <3> QED
      BY <2>1, <3>4 DEF getProvider, Quiet
  <2> QED
    BY <1>2, <2>1, RefusesIsQuiet DEF Generate
<1>3. CASE checkBudget(c)
  <2>1. CASE Refuses(c)
    BY <2>1, RefusesIsQuiet
  <2>2. CASE ~Refuses(c)
    <3>1. usage' = usage /\ admitted' = admitted \cup {call[c].budget}
      BY <1>3, <2>2 DEF checkBudget
    <3>2. call[c].budget = 0 \/ usage < call[c].budget
      BY <1>3, <2>2 DEF checkBudget, WithinBudget, GetAIBudgetUsage
    <3> QED
      BY <1>1, <3>1, <3>2 DEF Admitted
  <2> QED
    BY <2>1, <2>2
<1>4. CASE EstimateCost(c) \/ ProviderFails(c)
  BY <1>4, RefusesIsQuiet DEF EstimateCost, ProviderFails
<1>5. CASE ProviderAnswers(c)
  <2>1. PICK k \in 1..MaxCost :
          \/ Moves(c, [call[c] EXCEPT !.at = "answered", !.cost = k])
          \/ Moves(c, [call[c] EXCEPT !.at = "repaired", !.again = k])
    BY <1>5 DEF ProviderAnswers
  <2>2. k \in 0..MaxCost
    OBVIOUS
  <2>3. /\ [call[c] EXCEPT !.at = "answered", !.cost = k] \in Request
        /\ [call[c] EXCEPT !.at = "repaired", !.again = k] \in Request
    BY <1>1, <2>2 DEF Request, Steps
  <2>4. c \in InFlight
    BY <1>5 DEF ProviderAnswers, InFlight
  <2>5. InFlight' \subseteq InFlight
    BY <2>1, <2>3, <2>4, FlightMoves
  <2> QED
    BY <1>5, <2>5 DEF ProviderAnswers, Quiet
<1>6. CASE TooDear(c) \/ RepairRejected(c)
  <2>1. c \in InFlight
    BY <1>6 DEF TooDear, RepairRejected, InFlight
  <2>2. InFlight' = InFlight \ {c}
    BY <1>6, FlightEnds DEF TooDear, RepairRejected
  <2>3. usage' \in usage..(usage + MaxCost)
    BY <1>6, CountBounds DEF TooDear, RepairRejected
  <2> QED
    BY <1>6, <2>1, <2>2, <2>3 DEF TooDear, RepairRejected, Counted
<1>7. CASE ValidateOutput(c)
  <2> DEFINE r == [call[c] EXCEPT !.at = "retry"]
  <2>1. r \in Request /\ r.at = "retry"
    BY <1>1 DEF Request, Steps
  <2>2. Moves(c, r)
    BY <1>7 DEF ValidateOutput
  <2> HIDE DEF r
  <2>3. c \in InFlight
    BY <1>7 DEF ValidateOutput, InFlight
  <2>4. InFlight' = InFlight \ {c}
    BY <2>1, <2>2, FlightMoves
  <2>5. usage' \in usage..(usage + MaxCost)
    BY <1>7, CountBounds DEF ValidateOutput
  <2> QED
    BY <1>7, <2>3, <2>4, <2>5 DEF ValidateOutput, Counted
<1>8. CASE Accepts(c) \/ AcceptsRepair(c) \/ Embed(c)
  <2>1. c \in InFlight
    BY <1>8 DEF Accepts, AcceptsRepair, Embed, InFlight
  <2>2. \E recorded \in BOOLEAN : HandsBack(c, recorded)
    BY <1>8 DEF Accepts, AcceptsRepair, Embed
  <2>3. InFlight' = InFlight \ {c}
    BY <2>2, FlightEnds, FlightReturns DEF HandsBack
  <2>4. usage' \in usage..(usage + MaxCost)
    BY <1>8, CountBounds DEF Accepts, AcceptsRepair, Embed
  <2>5. admitted' = admitted
    BY <1>8 DEF Accepts, AcceptsRepair, Embed
  <2> QED
    BY <2>1, <2>3, <2>4, <2>5 DEF Counted
<1>9. CASE Expire(c)
  <2> DEFINE r == [call[c] EXCEPT !.ctx = "ended"]
  <2>1. r \in Request /\ r.at = call[c].at
    BY <1>1 DEF Request, Contexts
  <2>2. Moves(c, r)
    BY <1>9 DEF Expire
  <2> HIDE DEF r
  <2>3. InFlight' \subseteq InFlight
    BY <2>1, <2>2, FlightMoves DEF InFlight
  <2> QED
    BY <1>9, <2>3 DEF Expire, Quiet
<1>10. CASE Call(c)
  <2>1. InFlight' \subseteq InFlight
    <3>1. CASE Ends(c)
      BY <3>1, FlightEnds
    <3>2. CASE ~Ends(c)
      <4> DEFINE r == NewRequest("insights", "called", call[c].step + 1, "live")
      <4>1. call[c].step + 1 < MaxSteps /\ Moves(c, r)
        BY <1>10, <3>2 DEF Call, NextStep
      <4>2. /\ call[c].step + 1 \in 0..MaxSteps /\ "insights" \in Tasks
            /\ "called" \in Steps /\ "live" \in Contexts
        BY <1>1, <4>1 DEF Tasks, Steps, Contexts
      <4>3. r \in Request
        BY <4>2, NewRequestType
      <4>4. r.at = "called"
        BY DEF NewRequest
      <4> HIDE DEF r
      <4> QED
        BY <4>1, <4>3, <4>4, FlightMoves
    <3> QED
      BY <3>1, <3>2
  <2> QED
    BY <1>10, <2>1 DEF Call, Quiet
<1> QED
  BY <1>2, <1>3, <1>4, <1>5, <1>6, <1>7, <1>8, <1>9, <1>10 DEF Proceed

\* A smaller set of requests in flight counts less.
LEMMA FlightCount ==
  ASSUME NEW S \in SUBSET Callers, NEW T \in SUBSET S
  PROVE  /\ Cardinality(T) \in Nat /\ Cardinality(S) \in Nat /\ Cardinality(Callers) \in Nat
         /\ MaxCost * Cardinality(T) <= MaxCost * Cardinality(S)
         /\ MaxCost * Cardinality(S) <= MaxCost * Cardinality(Callers)
         /\ \A c \in S : T \subseteq S \ {c} => MaxCost + MaxCost * Cardinality(T) <= MaxCost * Cardinality(S)
<1>1. IsFiniteSet(S) /\ IsFiniteSet(T) /\ Cardinality(S) <= Cardinality(Callers)
      /\ Cardinality(T) <= Cardinality(S)
  BY CallersAssumption, FS_Subset
<1>2. Cardinality(T) \in Nat /\ Cardinality(S) \in Nat /\ Cardinality(Callers) \in Nat
  BY <1>1, CallersAssumption, FS_CardinalityType
<1>3. \A a, b \in Nat : a <= b => MaxCost * a <= MaxCost * b
  OBVIOUS
<1>4. ASSUME NEW c \in S, T \subseteq S \ {c}
      PROVE  MaxCost + MaxCost * Cardinality(T) <= MaxCost * Cardinality(S)
  <2>1. Cardinality(S \ {c}) = Cardinality(S) - 1 /\ IsFiniteSet(S \ {c})
    BY <1>1, FS_RemoveElement
  <2>2. Cardinality(T) <= Cardinality(S \ {c})
    BY <1>4, <2>1, FS_Subset
  <2>3. Cardinality(T) + 1 <= Cardinality(S)
    BY <1>2, <2>1, <2>2
  <2>4. MaxCost * (Cardinality(T) + 1) <= MaxCost * Cardinality(S)
    BY <1>2, <1>3, <2>3
  <2>5. MaxCost * (Cardinality(T) + 1) = MaxCost + MaxCost * Cardinality(T)
    BY <1>2
  <2> QED
    BY <2>4, <2>5
<1> QED
  BY <1>1, <1>2, <1>3, <1>4

\* What is counted and what is on its way exceed the highest budget that let
\* a call through by less than one response for each caller, whatever the
\* number of callers and the administrator's changes (checkBudget,
\* recordMetricsAndIncrementBudget).
THEOREM BudgetOverrunIsBounded == Spec => []OverrunBounded
<1>1. Init => OverrunBounded
  BY DEF Init, OverrunBounded
<1>2. TypeOK /\ TypeOK' /\ OverrunBounded /\ [Next]_vars => OverrunBounded'
  <2> SUFFICES ASSUME TypeOK, TypeOK', OverrunBounded, [Next]_vars, admitted' # {}, 0 \notin admitted'
               PROVE  \E b \in admitted' :
                        usage' + MaxCost * Cardinality(InFlight') < b + MaxCost * Cardinality(Callers)
    BY DEF OverrunBounded
  <2>1. /\ InFlight \in SUBSET Callers /\ InFlight' \in SUBSET Callers
        /\ usage \in Nat /\ usage' \in Nat /\ admitted \subseteq Nat
    <3>1. InFlight \in SUBSET Callers /\ InFlight' \in SUBSET Callers
      BY DEF InFlight
    <3>2. usage \in Nat /\ usage' \in Nat /\ admitted \subseteq Nat
      BY DEF TypeOK
    <3> QED
      BY <3>1, <3>2
  <2>2. CASE Quiet
    <3>1. PICK b \in admitted :
            usage + MaxCost * Cardinality(InFlight) < b + MaxCost * Cardinality(Callers)
      BY <2>2 DEF OverrunBounded, Quiet
    <3>2. MaxCost * Cardinality(InFlight') <= MaxCost * Cardinality(InFlight)
      BY <2>1, <2>2, FlightCount DEF Quiet
    <3>3. Cardinality(InFlight) \in Nat /\ Cardinality(InFlight') \in Nat /\ Cardinality(Callers) \in Nat
      BY <2>1, FlightCount
    <3>4. usage' + MaxCost * Cardinality(InFlight') < b + MaxCost * Cardinality(Callers)
      BY <2>1, <2>2, <3>1, <3>2, <3>3 DEF Quiet
    <3> QED
      BY <2>2, <3>4 DEF Quiet
  <2>3. CASE Counted
    <3>1. PICK b \in admitted :
            usage + MaxCost * Cardinality(InFlight) < b + MaxCost * Cardinality(Callers)
      BY <2>3 DEF OverrunBounded, Counted
    <3>2. MaxCost + MaxCost * Cardinality(InFlight') <= MaxCost * Cardinality(InFlight)
      BY <2>1, <2>3, FlightCount DEF Counted
    <3>3. Cardinality(InFlight) \in Nat /\ Cardinality(InFlight') \in Nat /\ Cardinality(Callers) \in Nat
      BY <2>1, FlightCount
    <3>4. usage' <= usage + MaxCost
      BY <2>1, <2>3 DEF Counted
    <3>5. usage' + MaxCost * Cardinality(InFlight') < b + MaxCost * Cardinality(Callers)
      BY <2>1, <3>1, <3>2, <3>3, <3>4
    <3> QED
      BY <2>3, <3>5 DEF Counted
  <2>4. CASE Admitted
    <3>1. PICK b \in Nat : admitted' = admitted \cup {b} /\ usage < b /\ usage' = usage
      BY <2>4 DEF Admitted
    <3>2. MaxCost * Cardinality(InFlight') <= MaxCost * Cardinality(Callers)
      BY <2>1, FlightCount
    <3>3. Cardinality(InFlight') \in Nat /\ Cardinality(Callers) \in Nat
      BY <2>1, FlightCount
    <3>4. usage' + MaxCost * Cardinality(InFlight') < b + MaxCost * Cardinality(Callers)
      BY <2>1, <3>1, <3>2, <3>3
    <3> QED
      BY <3>1, <3>4
  <2>5. Quiet \/ Counted \/ Admitted
    <3>1. CASE UNCHANGED vars
      BY <3>1 DEF vars, Quiet, InFlight
    <3>2. CASE Administer
      BY <3>2 DEF Administer, CreateAIProviderConfig, UpdateAIProviderConfig, DeleteAIProviderConfig,
                  MakeDefault, Quiet, InFlight
    <3> QED
      BY <3>1, <3>2, HandleIsQuiet, ProceedShape DEF Next
  <2> QED
    BY <2>2, <2>3, <2>4, <2>5
<1> QED
  BY <1>1, <1>2, GatewayTypeCorrect, PTL DEF Spec
-----------------------------------------------------------------------------
(* The charges                                                             *)

\* The callers whose response can only be lost: their context has ended, and
\* the fault that ended it has been counted.
Doomed == {c \in Callers : Ended(c) /\ call[c].at \in {"answered", "repaired"}}

\* ChargesAreCounted, with one fault set aside for each doomed response.
ChargesInv ==
    /\ usage + Cardinality(Pending) <= spent
    /\ spent + MaxCost * Cardinality(Doomed) <= usage + Cardinality(Pending) + MaxCost * faults

\* The cents of a count f for each caller, and of all callers but one.
Cents(f, S) == UNION {{c} \X (1..f[c]) : c \in S}

LEMMA CentsAreFinite ==
  ASSUME NEW f \in [Callers -> 0..MaxCost], NEW S \in SUBSET Callers
  PROVE  IsFiniteSet(Cents(f, S)) /\ Cardinality(Cents(f, S)) \in Nat
<1>1. IsFiniteSet(1..MaxCost)
  BY FS_Interval
<1>2. IsFiniteSet(Callers \X (1..MaxCost))
  BY <1>1, CallersAssumption, FS_Product
<1>3. Cents(f, S) \subseteq Callers \X (1..MaxCost)
  <2>1. \A c \in Callers : f[c] \in 0..MaxCost
    OBVIOUS
  <2>2. \A c \in Callers : 1..f[c] \subseteq 1..MaxCost
    BY <2>1
  <2> QED
    BY <2>2 DEF Cents
<1> QED
  BY <1>2, <1>3, FS_Subset, FS_CardinalityType

\* One caller's cents can be counted apart from the others'.
LEMMA CentsOfOne ==
  ASSUME NEW f \in [Callers -> 0..MaxCost], NEW c \in Callers
  PROVE  Cardinality(Cents(f, Callers)) = Cardinality(Cents(f, Callers \ {c})) + f[c]
<1> DEFINE mine == {c} \X (1..f[c])
           others == Cents(f, Callers \ {c})
<1>1. f[c] \in Nat
  OBVIOUS
<1>2. IsFiniteSet(1..f[c]) /\ Cardinality(1..f[c]) = f[c]
  <2>1. f[c] \in Int /\ 1 \in Int
    BY <1>1
  <2>2. IsFiniteSet(1..f[c])
    BY <2>1, FS_Interval
  <2>3. Cardinality(1..f[c]) = IF 1 > f[c] THEN 0 ELSE f[c] - 1 + 1
    BY <2>1, FS_Interval
  <2> QED
    BY <1>1, <2>2, <2>3
<1>3. IsFiniteSet({c}) /\ Cardinality({c}) = 1
  BY FS_Singleton
<1>4. IsFiniteSet(mine) /\ Cardinality(mine) = f[c]
  <2>1. IsFiniteSet(mine) /\ Cardinality(mine) = 1 * f[c]
    BY <1>2, <1>3, FS_Product
  <2> QED
    BY <1>1, <2>1
<1>5. IsFiniteSet(others) /\ Cardinality(others) \in Nat
  BY CentsAreFinite
<1>6. Cents(f, Callers) = others \cup mine
  BY DEF Cents
<1>7. others \cap mine = {}
  BY DEF Cents
<1> HIDE DEF mine, others
<1>8. Cardinality(others \cap mine) = 0
  BY <1>7, FS_EmptySet, Zenon
<1>9. Cardinality(others \cup mine) = Cardinality(others) + Cardinality(mine) - Cardinality(others \cap mine)
  BY <1>4, <1>5, FS_Union
<1>10. Cardinality(others \cup mine) = Cardinality(others) + f[c]
  BY <1>1, <1>4, <1>5, <1>8, <1>9
<1>11. Cardinality(Cents(f, Callers)) = Cardinality(others) + f[c]
  BY <1>6, <1>10, Zenon
<1> QED
  BY <1>11 DEF others

\* A response in hand is at most the dearest one.
LEMMA UncountedType ==
  ASSUME TypeOK
  PROVE  \A c \in Callers : Uncounted(c) \in 0..MaxCost
<1> TAKE c \in Callers
<1>1. call[c] \in Request
  BY DEF TypeOK
<1>2. call[c].cost \in 0..MaxCost /\ call[c].again \in 0..MaxCost /\ 0 \in 0..MaxCost
  BY <1>1 DEF Request
<1> QED
  BY <1>2 DEF Uncounted

\* When one caller moves, its response alone changes what is pending.
LEMMA PendingMoves ==
  ASSUME TypeOK, TypeOK', NEW c \in Callers, \A d \in Callers \ {c} : call'[d] = call[d]
  PROVE  /\ Cardinality(Pending) \in Nat /\ Cardinality(Pending') \in Nat
         /\ Uncounted(c) \in 0..MaxCost /\ Uncounted(c)' \in 0..MaxCost
         /\ Cardinality(Pending') + Uncounted(c) = Cardinality(Pending) + Uncounted(c)'
<1> DEFINE f == [d \in Callers |-> Uncounted(d)]
           g == [d \in Callers |-> Uncounted(d)']
<1>1. \A d \in Callers : Uncounted(d) \in 0..MaxCost
  BY UncountedType
<1>2. \A d \in Callers : Uncounted(d)' \in 0..MaxCost
  <2> TAKE d \in Callers
  <2>1. call'[d] \in Request
    BY DEF TypeOK
  <2>2. call'[d].cost \in 0..MaxCost /\ call'[d].again \in 0..MaxCost /\ 0 \in 0..MaxCost
    BY <2>1 DEF Request
  <2> QED
    BY <2>2 DEF Uncounted
<1>3. f \in [Callers -> 0..MaxCost] /\ g \in [Callers -> 0..MaxCost]
  BY <1>1, <1>2
<1>4. \A d \in Callers \ {c} : f[d] = g[d]
  BY DEF Uncounted
<1>5. Pending = Cents(f, Callers) /\ Pending' = Cents(g, Callers)
  BY DEF Pending, Cents
<1>6. f[c] = Uncounted(c) /\ g[c] = Uncounted(c)'
  OBVIOUS
<1> HIDE DEF f, g
<1>7. Cents(f, Callers \ {c}) = Cents(g, Callers \ {c})
  BY <1>4 DEF Cents
<1>8. /\ Cardinality(Pending) = Cardinality(Cents(f, Callers \ {c})) + Uncounted(c)
      /\ Cardinality(Pending') = Cardinality(Cents(f, Callers \ {c})) + Uncounted(c)'
  BY <1>3, <1>5, <1>6, <1>7, CentsOfOne
<1>9. Cardinality(Cents(f, Callers \ {c})) \in Nat
  BY <1>3, CentsAreFinite
<1> QED
  BY <1>1, <1>2, <1>8, <1>9

-----------------------------------------------------------------------------

\* The books of a step of caller c balance: a response is charged and in hand,
\* or the one in hand is counted.
Balances(c) ==
    /\ \/ Uncounted(c) = 0 /\ usage' = usage /\ spent' = spent + Uncounted(c)'
       \/ Uncounted(c)' = 0 /\ spent' = spent /\ usage' = usage + Uncounted(c)
    /\ faults' \in {faults, faults + 1}
    /\ Doomed' \subseteq Doomed

\* The context of caller c ends.
Expires(c) ==
    /\ usage' = usage /\ spent' = spent /\ Uncounted(c)' = Uncounted(c)
    /\ faults' = faults + 1
    /\ Doomed' \subseteq Doomed \cup {c}

\* The response of caller c is not counted, which a fault pays for: one of
\* this step, or the one that ended its context.
Loses(c) ==
    /\ usage' = usage /\ spent' = spent /\ Uncounted(c)' = 0
    /\ \/ faults' = faults + 1 /\ Doomed' \subseteq Doomed
       \/ faults' = faults /\ c \in Doomed /\ Doomed' \subseteq Doomed \ {c}

\* One caller moves, in one of the three ways.
OneMoves(c) ==
    /\ \A d \in Callers \ {c} : call'[d] = call[d]
    /\ Balances(c) \/ Expires(c) \/ Loses(c)

\* What a request that moves does to its response and to the doomed ones.
LEMMA ChargeMoves ==
  ASSUME TypeOK, NEW c \in Callers, NEW r \in Request, Moves(c, r)
  PROVE  /\ \A d \in Callers \ {c} : call'[d] = call[d]
         /\ call'[c] = r
         /\ Doomed' \subseteq Doomed \cup {c}
         /\ c \in Doomed' <=> r.ctx = "ended" /\ r.at \in {"answered", "repaired"}
         /\ r.at \notin {"answered", "repaired"} => Uncounted(c)' = 0 /\ Doomed' = Doomed \ {c}
<1>1. call' = [call EXCEPT ![c] = r] /\ call \in [Callers -> Request]
  BY DEF Moves, TypeOK
<1>2. /\ \A d \in Callers \ {c} : call'[d] = call[d]
      /\ call'[c] = r
  BY <1>1
<1> QED
  BY <1>2 DEF Doomed, Ended, Uncounted

LEMMA ChargeEnds ==
  ASSUME TypeOK, NEW c \in Callers, Ends(c)
  PROVE  /\ \A d \in Callers \ {c} : call'[d] = call[d]
         /\ Uncounted(c)' = 0 /\ Doomed' = Doomed \ {c}
<1>1. Idle.at = "idle"
  BY DEF Idle, NewRequest
<1> QED
  BY <1>1, IdleIsRequest, ChargeMoves DEF Ends

LEMMA ChargeReturns ==
  ASSUME TypeOK, NEW c \in Callers, Returns(c)
  PROVE  /\ \A d \in Callers \ {c} : call'[d] = call[d]
         /\ Uncounted(c)' = 0 /\ Doomed' = Doomed \ {c}
<1> DEFINE r == NewRequest(call[c].task, "returned", call[c].step, call[c].ctx)
<1>1. r \in Request
  <2>1. call[c] \in Request
    BY DEF TypeOK
  <2>2. /\ call[c].task \in Tasks \cup {"none"} /\ call[c].step \in 0..MaxSteps
        /\ call[c].ctx \in Contexts /\ "returned" \in Steps
    BY <2>1 DEF Request, Steps
  <2> QED
    BY <2>2, NewRequestType
<1>2. r.at = "returned"
  BY DEF NewRequest
<1> HIDE DEF r
<1>3. Moves(c, r)
  BY DEF Returns, r
<1> QED
  BY <1>1, <1>2, <1>3, ChargeMoves

\* A caller without a response in hand, whose request stays without one.
LEMMA IdleBalances ==
  ASSUME TypeOK, NEW c \in Callers, UNCHANGED <<usage, spent>>, faults' \in {faults, faults + 1},
         Uncounted(c) = 0, Uncounted(c)' = 0, Doomed' \subseteq Doomed
  PROVE  Balances(c)
  BY DEF Balances, TypeOK

\* Where there is no response, nothing is uncounted.
LEMMA NothingInHand ==
  ASSUME NEW c \in Callers, call[c].at \notin {"answered", "repaired"}
  PROVE  Uncounted(c) = 0
  BY DEF Uncounted

\* An attempt to count the response in hand, at the end of which it is let go.
LEMMA CountingMoves ==
  ASSUME TypeOK, NEW c \in Callers, call[c].at \in {"answered", "repaired"},
         Uncounted(c)' = 0, Doomed' = Doomed \ {c}, spent' = spent
  PROVE  /\ recordMetricsAndIncrementBudget(c) => Balances(c) \/ Loses(c)
         /\ \A ok \in BOOLEAN : Works(c, ok) /\ IncrementAIBudgetUsage(ResponseCost(c)) => Balances(c)
         /\ Works(c, FALSE) /\ UNCHANGED usage => Loses(c)
<1>1. ResponseCost(c) = Uncounted(c) /\ Uncounted(c) \in 0..MaxCost
  BY UncountedType DEF ResponseCost, Uncounted
<1>2. usage \in Nat /\ spent \in Nat /\ faults \in Nat
  BY DEF TypeOK
<1>3. ASSUME NEW ok \in BOOLEAN, Works(c, ok), IncrementAIBudgetUsage(ResponseCost(c))
      PROVE  Balances(c)
  <2>1. faults' \in {faults, faults + 1}
    BY <1>3 DEF Works
  <2>2. usage' = usage + Uncounted(c)
    BY <1>1, <1>3 DEF IncrementAIBudgetUsage
  <2> QED
    BY <1>1, <1>2, <2>1, <2>2 DEF Balances
<1>4. ASSUME Works(c, FALSE), UNCHANGED usage
      PROVE  Loses(c)
  <2>1. \/ faults' = faults + 1
        \/ faults' = faults /\ Ended(c)
    BY <1>4 DEF Works
  <2>2. Ended(c) => c \in Doomed
    BY DEF Doomed
  <2> QED
    BY <1>4, <2>1, <2>2 DEF Loses
<1> QED
  BY <1>3, <1>4 DEF recordMetricsAndIncrementBudget

LEMMA RefusesCharges ==
  ASSUME TypeOK, NEW c \in Callers, Refuses(c), call[c].at \notin {"answered", "repaired"}
  PROVE  OneMoves(c)
<1>1. /\ \A d \in Callers \ {c} : call'[d] = call[d]
      /\ Uncounted(c)' = 0 /\ Doomed' \subseteq Doomed
  BY ChargeEnds DEF Refuses
<1>2. UNCHANGED <<usage, spent>> /\ faults' \in {faults, faults + 1}
  BY DEF Refuses
<1> QED
  BY <1>1, <1>2, NothingInHand, IdleBalances DEF OneMoves

\* A request that moves on without a response.
LEMMA WaitingCharges ==
  ASSUME TypeOK, NEW c \in Callers, NEW r \in Request, Moves(c, r),
         call[c].at \notin {"answered", "repaired"}, r.at \notin {"answered", "repaired"},
         UNCHANGED <<usage, spent>>, faults' \in {faults, faults + 1}
  PROVE  OneMoves(c)
<1>1. /\ \A d \in Callers \ {c} : call'[d] = call[d]
      /\ Uncounted(c)' = 0 /\ Doomed' \subseteq Doomed
  BY ChargeMoves
<1> QED
  BY <1>1, NothingInHand, IdleBalances DEF OneMoves

LEMMA HandleCharges ==
  ASSUME TypeOK, NEW c \in Callers, Handle(c)
  PROVE  OneMoves(c)
<1>1. ASSUME NEW task \in Tasks, Asks(c, task)
      PROVE  OneMoves(c)
  <2> DEFINE r == NewRequest(task, "called", 0, "live")
  <2>1. 0 \in 0..MaxSteps /\ "called" \in Steps /\ "live" \in Contexts
    BY DEF Steps, Contexts
  <2>2. r \in Request
    BY <2>1, NewRequestType
  <2>3. r.at = "called"
    BY DEF NewRequest
  <2>4. Moves(c, r) /\ call[c].at = "idle" /\ UNCHANGED <<usage, spent, faults>>
    BY <1>1 DEF Asks
  <2> HIDE DEF r
  <2> QED
    BY <2>2, <2>3, <2>4, WaitingCharges
<1>2. ASSUME NEW task \in Tasks, Uses(c, task)
      PROVE  OneMoves(c)
  <2>1. Refuses(c) /\ call[c].at = "returned"
    BY <1>2 DEF Uses, Refuses
  <2> QED
    BY <2>1, RefusesCharges
<1>3. CASE EvaluateLLMModel(c)
  <2> DEFINE r == NewRequest("score", "called", call[c].step + 1, "live")
  <2>1. call[c].step \in 0..MaxSteps
    BY DEF TypeOK, Request
  <2>2. /\ call[c].step + 1 \in 0..MaxSteps /\ "score" \in Tasks
        /\ "called" \in Steps /\ "live" \in Contexts
    BY <1>3, <2>1 DEF EvaluateLLMModel, Tasks, Steps, Contexts
  <2>3. r \in Request
    BY <2>2, NewRequestType
  <2>4. r.at = "called"
    BY DEF NewRequest
  <2>5. Moves(c, r) /\ call[c].at = "returned" /\ UNCHANGED <<usage, spent, faults>>
    BY <1>3 DEF EvaluateLLMModel
  <2> HIDE DEF r
  <2> QED
    BY <2>3, <2>4, <2>5, WaitingCharges
<1>4. EvaluateLLMModel(c) \/ \E task \in Tasks : Asks(c, task) \/ Uses(c, task)
  BY DEF Handle, createContentCopilot, createJourneyCopilot, createAudienceCopilot,
         createPerformanceCopilot, createInsightsCopilot, executeAIGeneration, decide, EvaluateLLM,
         embeds, moderates, Tasks
<1> QED
  BY <1>1, <1>2, <1>3, <1>4

LEMMA ProceedCharges ==
  ASSUME TypeOK, NEW c \in Callers, Proceed(c)
  PROVE  OneMoves(c)
<1>1. call[c] \in Request /\ call[c].step \in 0..MaxSteps
  BY DEF TypeOK, Request
<1>2. CASE Generate(c)
  <2>1. CASE getProvider(c)
    <3> DEFINE r == [call[c] EXCEPT !.at = "ready", !.budget = cfg.budget]
    <3>1. cfg \in Config /\ cfg.budget \in Budgets \cup {0}
      BY <2>1 DEF getProvider, GetDefaultAIProviderConfig, TypeOK, Config
    <3>2. r \in Request /\ r.at = "ready"
      BY <1>1, <3>1 DEF Request, Steps
    <3>3. Moves(c, r) /\ call[c].at = "called" /\ UNCHANGED <<usage, spent, faults>>
      BY <1>2, <2>1 DEF Generate, getProvider, GetDefaultAIProviderConfig
    <3> HIDE DEF r
    <3> QED
      BY <3>2, <3>3, WaitingCharges
  <2> QED
    BY <1>2, <2>1, RefusesCharges DEF Generate
<1>3. CASE checkBudget(c)
  <2>1. CASE Refuses(c)
    BY <1>3, <2>1, RefusesCharges DEF checkBudget
  <2>2. CASE ~Refuses(c)
    <3> DEFINE r == [call[c] EXCEPT !.at = IF @ = "ready" THEN "asked" ELSE "asked again"]
    <3>1. r \in Request /\ r.at \in {"asked", "asked again"}
      BY <1>1 DEF Request, Steps
    <3>2. Moves(c, r) /\ call[c].at \in {"ready", "retry"} /\ UNCHANGED <<usage, spent, faults>>
      BY <1>3, <2>2 DEF checkBudget
    <3> HIDE DEF r
    <3> QED
      BY <3>1, <3>2, WaitingCharges
  <2> QED
    BY <2>1, <2>2
<1>4. CASE EstimateCost(c) \/ ProviderFails(c)
  BY <1>4, RefusesCharges DEF EstimateCost, ProviderFails
<1>5. CASE ProviderAnswers(c)
  <2>1. PICK k \in 1..MaxCost :
          /\ spent' = spent + k
          /\ \/ Moves(c, [call[c] EXCEPT !.at = "answered", !.cost = k])
             \/ Moves(c, [call[c] EXCEPT !.at = "repaired", !.again = k])
    BY <1>5 DEF ProviderAnswers
  <2>2. k \in 0..MaxCost
    OBVIOUS
  <2>3. PICK r \in Request :
          /\ Moves(c, r) /\ r.ctx = call[c].ctx
          /\ (r.at = "answered" /\ r.cost = k) \/ (r.at = "repaired" /\ r.again = k)
    <3> DEFINE p == [call[c] EXCEPT !.at = "answered", !.cost = k]
               q == [call[c] EXCEPT !.at = "repaired", !.again = k]
    <3>1. p \in Request /\ p.at = "answered" /\ p.cost = k /\ p.ctx = call[c].ctx
      BY <1>1, <2>2 DEF Request, Steps
    <3>2. q \in Request /\ q.at = "repaired" /\ q.again = k /\ q.ctx = call[c].ctx
      BY <1>1, <2>2 DEF Request, Steps
    <3>3. Moves(c, p) \/ Moves(c, q)
      BY <2>1
    <3> HIDE DEF p, q
    <3>4. CASE Moves(c, p)
      BY <3>1, <3>4, Zenon
    <3>5. CASE Moves(c, q)
      BY <3>2, <3>5, Zenon
    <3> QED
      BY <3>3, <3>4, <3>5, Zenon
  <2>4. /\ call[c].ctx # "ended" /\ call[c].at \notin {"answered", "repaired"}
        /\ UNCHANGED <<usage, faults>>
    BY <1>5 DEF ProviderAnswers, Ended
  <2>5. /\ \A d \in Callers \ {c} : call'[d] = call[d]
        /\ call'[c] = r /\ c \notin Doomed' /\ Doomed' \subseteq Doomed \cup {c}
    BY <2>3, <2>4, ChargeMoves
  <2>6. Uncounted(c) = 0
    BY <2>4, NothingInHand
  <2>7. Uncounted(c)' = k
    BY <2>3, <2>5 DEF Uncounted
  <2>8. Uncounted(c) = 0 /\ usage' = usage /\ spent' = spent + Uncounted(c)'
    BY <2>1, <2>4, <2>6, <2>7
  <2>9. Doomed' \subseteq Doomed
    BY <2>5
  <2> QED
    BY <2>4, <2>5, <2>8, <2>9 DEF OneMoves, Balances
<1>6. CASE TooDear(c) \/ RepairRejected(c)
  <2>1. call[c].at \in {"answered", "repaired"} /\ spent' = spent
    BY <1>6 DEF TooDear, RepairRejected
  <2>2. /\ \A d \in Callers \ {c} : call'[d] = call[d]
        /\ Uncounted(c)' = 0 /\ Doomed' = Doomed \ {c}
    BY <1>6, ChargeEnds DEF TooDear, RepairRejected
  <2>3. recordMetricsAndIncrementBudget(c)
    BY <1>6 DEF TooDear, RepairRejected
  <2> QED
    BY <2>1, <2>2, <2>3, CountingMoves DEF OneMoves
<1>7. CASE ValidateOutput(c)
  <2> DEFINE r == [call[c] EXCEPT !.at = "retry"]
  <2>1. r \in Request /\ r.at = "retry"
    BY <1>1 DEF Request, Steps
  <2>2. Moves(c, r) /\ call[c].at \in {"answered", "repaired"} /\ spent' = spent
        /\ recordMetricsAndIncrementBudget(c)
    BY <1>7 DEF ValidateOutput
  <2> HIDE DEF r
  <2>3. /\ \A d \in Callers \ {c} : call'[d] = call[d]
        /\ Uncounted(c)' = 0 /\ Doomed' = Doomed \ {c}
    BY <2>1, <2>2, ChargeMoves
  <2> QED
    BY <2>2, <2>3, CountingMoves DEF OneMoves
<1>8. CASE Accepts(c) \/ AcceptsRepair(c) \/ Embed(c)
  <2>1. call[c].at \in {"answered", "repaired"} /\ spent' = spent
    BY <1>8 DEF Accepts, AcceptsRepair, Embed
  <2>2. \E recorded \in BOOLEAN : HandsBack(c, recorded)
    BY <1>8 DEF Accepts, AcceptsRepair, Embed
  <2>3. /\ \A d \in Callers \ {c} : call'[d] = call[d]
        /\ Uncounted(c)' = 0 /\ Doomed' = Doomed \ {c}
    BY <2>2, ChargeEnds, ChargeReturns DEF HandsBack
  <2>4. \/ recordMetricsAndIncrementBudget(c)
        \/ \E ok \in BOOLEAN : Works(c, ok) /\ IncrementAIBudgetUsage(ResponseCost(c))
        \/ Works(c, FALSE) /\ UNCHANGED usage
    BY <1>8 DEF Accepts, AcceptsRepair, Embed, RecordAIActivity
  <2> QED
    BY <2>1, <2>3, <2>4, CountingMoves DEF OneMoves
<1>9. CASE Expire(c)
  <2> DEFINE r == [call[c] EXCEPT !.ctx = "ended"]
  <2>1. r \in Request /\ r.at = call[c].at /\ r.cost = call[c].cost /\ r.again = call[c].again
    BY <1>1 DEF Request, Contexts
  <2>2. Moves(c, r) /\ UNCHANGED <<usage, spent>> /\ faults' = faults + 1
    BY <1>9 DEF Expire
  <2> HIDE DEF r
  <2>3. /\ \A d \in Callers \ {c} : call'[d] = call[d]
        /\ call'[c] = r /\ Doomed' \subseteq Doomed \cup {c}
    BY <2>1, <2>2, ChargeMoves
  <2>4. Uncounted(c)' = Uncounted(c)
    BY <2>1, <2>3 DEF Uncounted
  <2> QED
    BY <2>2, <2>3, <2>4 DEF OneMoves, Expires
<1>10. CASE Call(c)
  <2>1. call[c].at = "returned" /\ UNCHANGED <<usage, spent, faults>>
    BY <1>10 DEF Call, Works
  <2>2. CASE Ends(c)
    <3>1. Idle.at = "idle"
      BY DEF Idle, NewRequest
    <3> QED
      BY <2>1, <2>2, <3>1, IdleIsRequest, WaitingCharges DEF Ends
  <2>3. CASE ~Ends(c)
    <3> DEFINE r == NewRequest("insights", "called", call[c].step + 1, "live")
    <3>1. call[c].step + 1 < MaxSteps /\ Moves(c, r)
      BY <1>10, <2>3 DEF Call, NextStep
    <3>2. /\ call[c].step + 1 \in 0..MaxSteps /\ "insights" \in Tasks
          /\ "called" \in Steps /\ "live" \in Contexts
      BY <1>1, <3>1 DEF Tasks, Steps, Contexts
    <3>3. r \in Request
      BY <3>2, NewRequestType
    <3>4. r.at = "called"
      BY DEF NewRequest
    <3> HIDE DEF r
    <3> QED
      BY <2>1, <3>1, <3>3, <3>4, WaitingCharges
  <2> QED
    BY <2>2, <2>3
<1> QED
  BY <1>2, <1>3, <1>4, <1>5, <1>6, <1>7, <1>8, <1>9, <1>10 DEF Proceed

\* A doomed response holds one fault, which its end gives back.
LEMMA DoomedCount ==
  ASSUME NEW S \in SUBSET Callers, NEW T \in SUBSET Callers
  PROVE  /\ T \subseteq S => MaxCost * Cardinality(T) <= MaxCost * Cardinality(S)
         /\ \A c \in Callers : T \subseteq S \cup {c} =>
                MaxCost * Cardinality(T) <= MaxCost + MaxCost * Cardinality(S)
         /\ \A c \in S : T \subseteq S \ {c} =>
                MaxCost + MaxCost * Cardinality(T) <= MaxCost * Cardinality(S)
<1>1. ASSUME T \subseteq S
      PROVE  MaxCost * Cardinality(T) <= MaxCost * Cardinality(S)
  BY <1>1, FlightCount
<1>2. ASSUME NEW c \in Callers, T \subseteq S \cup {c}
      PROVE  MaxCost * Cardinality(T) <= MaxCost + MaxCost * Cardinality(S)
  <2>1. IsFiniteSet(S) /\ Cardinality(S) \in Nat
    BY CallersAssumption, FS_Subset, FS_CardinalityType
  <2>2. IsFiniteSet(S \cup {c}) /\ Cardinality(S \cup {c}) <= Cardinality(S) + 1
    BY <2>1, FS_AddElement
  <2>3. Cardinality(T) <= Cardinality(S \cup {c}) /\ IsFiniteSet(T)
    BY <1>2, <2>2, FS_Subset
  <2>4. Cardinality(T) \in Nat /\ Cardinality(S \cup {c}) \in Nat
    BY <2>2, <2>3, FS_CardinalityType
  <2>5. Cardinality(T) <= Cardinality(S) + 1
    BY <2>1, <2>2, <2>3, <2>4
  <2>6. \A a, b \in Nat : a <= b => MaxCost * a <= MaxCost * b
    OBVIOUS
  <2>7. MaxCost * Cardinality(T) <= MaxCost * (Cardinality(S) + 1)
    BY <2>1, <2>4, <2>5, <2>6
  <2>8. MaxCost * (Cardinality(S) + 1) = MaxCost + MaxCost * Cardinality(S)
    BY <2>1
  <2> QED
    BY <2>7, <2>8
<1>3. ASSUME NEW c \in S, T \subseteq S \ {c}
      PROVE  MaxCost + MaxCost * Cardinality(T) <= MaxCost * Cardinality(S)
  BY <1>3, FlightCount
<1> QED
  BY <1>1, <1>2, <1>3

\* The books stay right whichever way one caller moves.
LEMMA OneMovesKeeps ==
  ASSUME TypeOK, TypeOK', ChargesInv, NEW c \in Callers, OneMoves(c)
  PROVE  ChargesInv'
<1> DEFINE P == Cardinality(Pending)
           Q == Cardinality(Pending')
           u == Uncounted(c)
           v == Uncounted(c)'
           D == MaxCost * Cardinality(Doomed)
           E == MaxCost * Cardinality(Doomed')
           F == MaxCost * faults
           G == MaxCost * faults'
<1>1. P \in Nat /\ Q \in Nat /\ u \in 0..MaxCost /\ v \in 0..MaxCost /\ Q + u = P + v
  BY PendingMoves DEF OneMoves
<1>2. Doomed \in SUBSET Callers /\ Doomed' \in SUBSET Callers
  BY DEF Doomed
<1>3. Cardinality(Doomed) \in Nat /\ Cardinality(Doomed') \in Nat
  BY <1>2, CallersAssumption, FS_Subset, FS_CardinalityType
<1>4. D \in Nat /\ E \in Nat
  BY <1>3
<1>5. usage \in Nat /\ spent \in Nat /\ faults \in Nat /\ usage' \in Nat /\ spent' \in Nat /\ faults' \in Nat
  BY DEF TypeOK
<1>6. /\ F \in Nat /\ G \in Nat
      /\ faults' = faults => G = F
      /\ faults' = faults + 1 => G = F + MaxCost
  <2>1. \A a \in Nat : MaxCost * a \in Nat /\ MaxCost * (a + 1) = MaxCost * a + MaxCost
    OBVIOUS
  <2> QED
    BY <1>5, <2>1
<1>7. usage + P <= spent /\ spent + D <= usage + P + F
  BY DEF ChargesInv
<1>8. usage' + Q <= spent' /\ spent' + E <= usage' + Q + G
  <2>1. CASE Balances(c)
    <3>1. E <= D
      BY <1>2, <2>1, DoomedCount DEF Balances
    <3>2. /\ \/ u = 0 /\ usage' = usage /\ spent' = spent + v
             \/ v = 0 /\ spent' = spent /\ usage' = usage + u
          /\ faults' \in {faults, faults + 1}
      BY <2>1 DEF Balances
    <3> HIDE DEF P, Q, u, v, D, E, F, G
    <3>3. F <= G /\ u \in Nat /\ v \in Nat /\ F \in Nat /\ G \in Nat
      BY <1>1, <1>6, <3>2
    <3>4. CASE u = 0 /\ usage' = usage /\ spent' = spent + v
      <4>1. Q = P + v
        BY <1>1, <3>3, <3>4
      <4> QED
        BY <1>1, <1>4, <1>5, <1>7, <3>1, <3>3, <3>4, <4>1
    <3>5. CASE v = 0 /\ spent' = spent /\ usage' = usage + u
      <4>1. P = Q + u
        BY <1>1, <3>3, <3>5
      <4> QED
        BY <1>1, <1>4, <1>5, <1>7, <3>1, <3>3, <3>5, <4>1
    <3> QED
      BY <3>2, <3>4, <3>5
  <2>2. CASE Expires(c)
    <3>1. E <= MaxCost + D
      BY <1>2, <2>2, DoomedCount DEF Expires
    <3>2. usage' = usage /\ spent' = spent /\ v = u /\ faults' = faults + 1
      BY <2>2 DEF Expires
    <3> HIDE DEF P, Q, u, v, D, E, F, G
    <3> QED
      BY <1>1, <1>4, <1>5, <1>6, <1>7, <3>1, <3>2
  <2>3. CASE Loses(c)
    <3>1. usage' = usage /\ spent' = spent /\ v = 0
      BY <2>3 DEF Loses
    <3>2. \/ faults' = faults + 1 /\ E <= D
          \/ faults' = faults /\ MaxCost + E <= D
      BY <1>2, <2>3, DoomedCount DEF Loses
    <3> HIDE DEF P, Q, u, v, D, E, F, G
    <3> QED
      BY <1>1, <1>4, <1>5, <1>6, <1>7, <3>1, <3>2
  <2> QED
    BY <2>1, <2>2, <2>3 DEF OneMoves
<1> QED
  BY <1>8 DEF ChargesInv

\* The month's row follows what the provider charged, for any number of
\* callers, costs and faults: no response is counted twice, and what is
\* missing was lost to a context that ended or a store call that failed, one
\* response for each (recordMetricsAndIncrementBudget, which drops the error of
\* the increment).
THEOREM EveryChargeIsCounted == Spec => []ChargesAreCounted
<1>1. Init => ChargesInv
  <2> SUFFICES ASSUME Init PROVE ChargesInv
    OBVIOUS
  <2>1. \A c \in Callers : call[c].at = "idle" /\ call[c].ctx = "live"
    BY DEF Init, Idle, NewRequest
  <2>2. \A c \in Callers : Uncounted(c) = 0
    BY <2>1 DEF Uncounted
  <2>3. 1..0 = {}
    OBVIOUS
  <2>4. Pending = {}
    BY <2>2, <2>3 DEF Pending
  <2>5. Doomed = {}
    BY <2>1 DEF Doomed
  <2>6. Cardinality(Pending) = 0 /\ Cardinality(Doomed) = 0
    BY <2>4, <2>5, FS_EmptySet, Zenon
  <2>7. usage = 0 /\ spent = 0 /\ faults = 0
    BY DEF Init
  <2> QED
    BY <2>6, <2>7 DEF ChargesInv
<1>2. TypeOK /\ TypeOK' /\ ChargesInv /\ [Next]_vars => ChargesInv'
  <2> SUFFICES ASSUME TypeOK, TypeOK', ChargesInv, [Next]_vars PROVE ChargesInv'
    OBVIOUS
  <2>1. CASE UNCHANGED <<usage, spent, faults, call>>
    <3>1. Pending' = Pending /\ Doomed' = Doomed
      BY <2>1 DEF Pending, Uncounted, Doomed, Ended
    <3> QED
      BY <2>1, <3>1 DEF ChargesInv
  <2>2. CASE UNCHANGED vars
    BY <2>1, <2>2 DEF vars
  <2>3. CASE Administer
    BY <2>1, <2>3 DEF Administer, CreateAIProviderConfig, UpdateAIProviderConfig, DeleteAIProviderConfig,
                      MakeDefault
  <2> QED
    BY <2>2, <2>3, HandleCharges, ProceedCharges, OneMovesKeeps DEF Next
<1>3. TypeOK /\ ChargesInv => ChargesAreCounted
  <2> SUFFICES ASSUME TypeOK, ChargesInv PROVE ChargesAreCounted
    OBVIOUS
  <2>1. IsFiniteSet(Doomed) /\ Cardinality(Doomed) \in Nat
    <3>1. Doomed \in SUBSET Callers
      BY DEF Doomed
    <3> QED
      BY <3>1, CallersAssumption, FS_Subset, FS_CardinalityType
  <2>2. MaxCost * Cardinality(Doomed) \in Nat
    BY <2>1
  <2>3. Cardinality(Pending) \in Nat
    <3> DEFINE f == [d \in Callers |-> Uncounted(d)]
    <3>1. f \in [Callers -> 0..MaxCost]
      BY UncountedType
    <3>2. Pending = Cents(f, Callers)
      BY DEF Pending, Cents
    <3> HIDE DEF f
    <3> QED
      BY <3>1, <3>2, CentsAreFinite
  <2>4. usage \in Nat /\ spent \in Nat /\ faults \in Nat /\ MaxCost * faults \in Nat
    BY DEF TypeOK
  <2> QED
    BY <2>2, <2>3, <2>4 DEF ChargesInv, ChargesAreCounted
<1> QED
  BY <1>1, <1>2, <1>3, GatewayTypeCorrect, PTL DEF Spec
=============================================================================
