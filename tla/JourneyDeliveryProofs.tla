----------------------- MODULE JourneyDeliveryProofs ------------------------
(***************************************************************************)
(* Proofs about JourneyDelivery, for any number of intents and workers,    *)
(* any cap, any failures and any number of faults and replays.             *)
(***************************************************************************)
EXTENDS JourneyDelivery, FiniteSetTheorems, TLAPS

\* What a worker carries is as true as what the tables say: its copy of the
\* row is backed by the provider and the event log, and it announces a
\* message only after the provider took it.
CopiesAreTrue ==
    \A w \in Worker : workers[w].pc \in Holding =>
        /\ workers[w].row.decision = "sent" => workers[w].intent \in events
        /\ workers[w].row.decision = "provider_sent" =>
             sends[workers[w].intent] > 0
        /\ workers[w].pc \in {"saving", "emitting"} =>
             sends[workers[w].intent] > 0

SentInv == TypeOK /\ SentIsTrue /\ CopiesAreTrue

-----------------------------------------------------------------------------
\* What a typed worker state is at each pc.
LEMMA HoldingType ==
    ASSUME TypeOK, NEW w \in Worker, workers[w].pc \in Holding
    PROVE  workers[w] \in WorkerState
BY DEF TypeOK, Holding, PC, ClaimingState, IdleWorker, WorkerState

\* Goes keeps the worker's intent, its lease and the other workers.
LEMMA GoesType ==
    ASSUME TypeOK, NEW w \in Worker, workers[w].pc \in Holding,
           NEW pc \in Holding, NEW st \in Status, NEW d \in Decision,
           Goes(w, pc, st, d)
    PROVE  /\ workers' \in
                [Worker -> WorkerState \cup ClaimingState \cup {IdleWorker}]
           /\ workers'[w].pc = pc
           /\ workers'[w].row.status = st
           /\ workers'[w].row.decision = d
           /\ workers'[w].intent = workers[w].intent
           /\ \A v \in Worker : v # w => workers'[v] = workers[v]
<1>1. workers[w] \in WorkerState
  BY HoldingType
<1>2. workers \in [Worker -> WorkerState \cup ClaimingState \cup {IdleWorker}]
  BY DEF TypeOK
<1> DEFINE new == [[[workers[w] EXCEPT !.pc = pc] EXCEPT !.row.status = st]
                       EXCEPT !.row.decision = d]
<1>3. workers' = [workers EXCEPT ![w] = new]
  BY <1>1, <1>2 DEF Goes
<1>4. new \in WorkerState /\ new.pc = pc /\ new.row.decision = d
      /\ new.row.status = st /\ new.intent = workers[w].intent
  BY <1>1 DEF WorkerState, Row
<1> HIDE DEF new
<1>5. QED
  BY <1>2, <1>3, <1>4

\* A step of DeliverNext that changes only the worker's copy keeps the
\* invariant when the new decision is backed.
LEMMA GoesKeeps ==
    ASSUME SentInv, NEW w \in Worker, workers[w].pc \in Holding,
           NEW pc \in Holding, NEW st \in Status, NEW d \in Decision,
           Goes(w, pc, st, d), UNCHANGED Reads,
           d = "sent" => workers[w].intent \in events,
           d = "provider_sent" \/ pc \in {"saving", "emitting"} =>
               sends[workers[w].intent] > 0
    PROVE  SentInv'
<1>1. TypeOK /\ SentIsTrue /\ CopiesAreTrue
  BY DEF SentInv
<1>2. /\ workers' \in
             [Worker -> WorkerState \cup ClaimingState \cup {IdleWorker}]
      /\ workers'[w].pc = pc
      /\ workers'[w].row.decision = d
      /\ workers'[w].intent = workers[w].intent
      /\ \A v \in Worker : v # w => workers'[v] = workers[v]
  BY <1>1, GoesType
<1>3. TypeOK'
  BY <1>1, <1>2 DEF TypeOK, Reads
<1>4. SentIsTrue'
  BY <1>1 DEF SentIsTrue, Reads
<1>5. CopiesAreTrue'
  <2> SUFFICES ASSUME NEW v \in Worker, workers'[v].pc \in Holding
               PROVE  /\ workers'[v].row.decision = "sent" =>
                           workers'[v].intent \in events'
                      /\ workers'[v].row.decision = "provider_sent" =>
                           sends'[workers'[v].intent] > 0
                      /\ workers'[v].pc \in {"saving", "emitting"} =>
                           sends'[workers'[v].intent] > 0
    BY DEF CopiesAreTrue
  <2>1. CASE v = w
    BY <2>1, <1>2 DEF Reads
  <2>2. CASE v # w
    BY <2>2, <1>1, <1>2 DEF CopiesAreTrue, Reads
  <2>3. QED
    BY <2>1, <2>2
<1>6. QED
  BY <1>3, <1>4, <1>5 DEF SentInv

\* The rows may change as long as each keeps its decision or takes over the
\* decision of a worker's copy.
LEMMA RowsKeep ==
    ASSUME SentInv, rows' \in [Intent -> Row],
           UNCHANGED <<sends, events>>,
           workers' \in
               [Worker -> WorkerState \cup ClaimingState \cup {IdleWorker}],
           \A v \in Worker : workers'[v].pc \in Holding =>
               \/ /\ workers[v].pc \in Holding
                  /\ workers'[v].intent = workers[v].intent
                  /\ workers'[v].row.decision = workers[v].row.decision
                  /\ workers'[v].pc = workers[v].pc
                       \/ workers[v].pc = "saving"
               \/ /\ workers'[v].row.decision =
                       rows[workers'[v].intent].decision
                  /\ workers'[v].intent \in Intent
                  /\ workers'[v].pc = "claimed",
           \A i \in Intent :
               \/ rows'[i].decision \in {rows[i].decision, "none", "holdout"}
               \/ \E v \in Worker : /\ workers[v].pc \in Holding
                                    /\ workers[v].intent = i
                                    /\ rows'[i].decision =
                                         workers[v].row.decision,
           versionActive' \in BOOLEAN, quiet' \in BOOLEAN, faults' \in Nat,
           retries' \in Replays
    PROVE  SentInv'
<1>1. TypeOK /\ SentIsTrue /\ CopiesAreTrue
  BY DEF SentInv
<1>2. TypeOK'
  BY <1>1 DEF TypeOK
<1>3. SentIsTrue'
  <2> SUFFICES ASSUME NEW i \in Intent
               PROVE  /\ rows'[i].decision = "sent" => i \in events
                      /\ rows'[i].decision = "provider_sent" => sends[i] > 0
                      /\ i \in events => sends[i] > 0
    BY DEF SentIsTrue
  <2>1. CASE rows'[i].decision \in {rows[i].decision, "none", "holdout"}
    BY <2>1, <1>1 DEF SentIsTrue
  <2>2. CASE \E v \in Worker : /\ workers[v].pc \in Holding
                               /\ workers[v].intent = i
                               /\ rows'[i].decision = workers[v].row.decision
    BY <2>2, <1>1 DEF SentIsTrue, CopiesAreTrue
  <2>3. QED
    BY <2>1, <2>2
<1>4. CopiesAreTrue'
  <2> SUFFICES ASSUME NEW v \in Worker, workers'[v].pc \in Holding
               PROVE  /\ workers'[v].row.decision = "sent" =>
                           workers'[v].intent \in events
                      /\ workers'[v].row.decision = "provider_sent" =>
                           sends[workers'[v].intent] > 0
                      /\ workers'[v].pc \in {"saving", "emitting"} =>
                           sends[workers'[v].intent] > 0
    BY DEF CopiesAreTrue
  <2>1. CASE /\ workers[v].pc \in Holding
             /\ workers'[v].intent = workers[v].intent
             /\ workers'[v].row.decision = workers[v].row.decision
             /\ workers'[v].pc = workers[v].pc \/ workers[v].pc = "saving"
    BY <2>1, <1>1 DEF CopiesAreTrue
  <2>2. CASE /\ workers'[v].row.decision = rows[workers'[v].intent].decision
             /\ workers'[v].intent \in Intent
             /\ workers'[v].pc = "claimed"
    BY <2>2, <1>1 DEF SentIsTrue
  <2>3. QED
    BY <2>1, <2>2
<1>5. QED
  BY <1>2, <1>3, <1>4 DEF SentInv

-----------------------------------------------------------------------------
\* The rows the actions write are rows.
LEMMA RowTypes ==
    ASSUME TypeOK
    PROVE  /\ NoRow \in Row
           /\ \A w \in Worker, i \in Intent : ClaimedRow(w, rows[i]) \in Row
           /\ \A w \in Worker : workers[w].pc \in Holding =>
                /\ WrittenRow(w) \in Row
                /\ WrittenRow(w).decision = workers[w].row.decision
                /\ workers[w].intent \in Intent
<1>1. NoRow \in Row
  BY DEF NoRow, Row, Status, Decision
<1>2. ASSUME NEW w \in Worker, NEW i \in Intent
      PROVE  ClaimedRow(w, rows[i]) \in Row
  <2>1. rows[i] \in Row
    BY DEF TypeOK
  <2>2. rows[i].attempts + 1 \in Nat
    BY <2>1 DEF Row
  <2>3. QED
    BY <2>1, <2>2 DEF ClaimedRow, Row, Status
<1>3. ASSUME NEW w \in Worker, workers[w].pc \in Holding
      PROVE  /\ WrittenRow(w) \in Row
             /\ WrittenRow(w).decision = workers[w].row.decision
             /\ workers[w].intent \in Intent
  <2>1. workers[w] \in WorkerState
    BY <1>3, HoldingType
  <2>2. workers[w].row \in Row /\ workers[w].intent \in Intent
    BY <2>1 DEF WorkerState
  <2> DEFINE l == IF workers[w].fresh /\ Held(w).status = "processing"
                  THEN w ELSE NoWorker
  <2>3. l \in Worker \cup {NoWorker}
    OBVIOUS
  <2>4. WrittenRow(w) = [workers[w].row EXCEPT !.lease = l]
    BY DEF WrittenRow, Held
  <2> HIDE DEF l
  <2>5. QED
    BY <2>2, <2>3, <2>4 DEF Row
<1>4. QED
  BY <1>1, <1>2, <1>3

LEMMA InitSent == Init => SentInv
<1> SUFFICES ASSUME Init PROVE SentInv
  OBVIOUS
<1>1. NoRow \in Row
  BY DEF NoRow, Row, Status, Decision
<1>2. TypeOK
  BY <1>1 DEF Init, TypeOK, Replays
<1>3. SentIsTrue
  BY DEF Init, SentIsTrue, NoRow
<1>4. CopiesAreTrue
  BY DEF Init, CopiesAreTrue, IdleWorker, Holding
<1>5. QED
  BY <1>2, <1>3, <1>4 DEF SentInv

\* The steps of a worker that only look and decide.
LEMMA DecideKeeps ==
    ASSUME SentInv, NEW w \in Worker,
           \/ Decide(w) \/ LoadFails(w) \/ TokenInactive(w)
           \/ SendRejected(w) \/ EmitRefused(w) \/ Panic(w)
    PROVE  SentInv'
<1>1. TypeOK /\ SentIsTrue /\ CopiesAreTrue
  BY DEF SentInv
<1>2. {"claimed", "sending", "saving", "emitting", "writing"} = Holding
  BY DEF Holding, PC
<1>3. ASSUME workers[w].pc \in Holding
      PROVE  /\ Held(w).status \in Status /\ Held(w).decision \in Decision
             /\ Held(w).decision = "sent" => workers[w].intent \in events
             /\ Held(w).decision = "provider_sent" =>
                  sends[workers[w].intent] > 0
             /\ workers[w].pc \in {"saving", "emitting"} =>
                  sends[workers[w].intent] > 0
  <2>1. workers[w] \in WorkerState
    BY <1>1, <1>3, HoldingType
  <2>2. QED
    BY <1>1, <1>3, <2>1 DEF WorkerState, Row, Held, CopiesAreTrue
<1>4. FailedOr(w, "failed") \in Status /\ FailedOr(w, "pending") \in Status
  BY DEF FailedOr, Status
<1>5. CASE Drain(w)
  BY <1>2, <1>3, <1>5, GoesKeeps DEF Drain, Drained, Status
<1>6. CASE Reconcile(w)
  BY <1>2, <1>3, <1>6, GoesKeeps DEF Reconcile
<1>7. CASE Reject(w)
  <2>1. PICK d \in Verdicts(w) \ {"sent"} : Goes(w, "writing", "completed", d)
    BY <1>7 DEF Reject
  <2>2. d \in {"suppressed", "send_failed", "no_consent", "fatigued"}
    BY <2>1 DEF Verdicts
  <2>3. workers[w].pc = "claimed" /\ UNCHANGED Reads
    BY <1>7 DEF Reject, PastQuietHours, Undecided
  <2>4. QED
    BY <1>2, <2>1, <2>2, <2>3, GoesKeeps DEF Status, Decision
<1>8. CASE RenderFails(w)
  BY <1>2, <1>8, GoesKeeps
  DEF RenderFails, PastQuietHours, Undecided, Status, Decision
<1>9. CASE Eligible(w)
  BY <1>2, <1>3, <1>9, GoesKeeps
  DEF Eligible, PastQuietHours, Undecided, Drained
<1>10. CASE LoadFails(w)
  BY <1>2, <1>10, GoesKeeps DEF LoadFails, Status, Decision
<1>11. CASE TokenInactive(w)
  BY <1>2, <1>11, GoesKeeps DEF TokenInactive, Status, Decision
<1>12. CASE SendRejected(w)
  BY <1>2, <1>12, GoesKeeps DEF SendRejected, Status, Decision
<1>13. CASE Panic(w)
  BY <1>2, <1>4, <1>13, GoesKeeps DEF Panic, Decision
<1>14. CASE DeferQuiet(w)
  <2>1. workers[w].pc = "claimed" /\ UNCHANGED Reads
    BY <1>14 DEF DeferQuiet, Undecided
  <2>2. workers[w] \in WorkerState
    BY <1>1, <1>2, <2>1, HoldingType
  <2> DEFINE a == IF workers[w].row.attempts > 0
                  THEN workers[w].row.attempts - 1 ELSE workers[w].row.attempts
  <2>3. a \in Nat
    BY <2>2 DEF WorkerState, Row
  <2> DEFINE new == [workers[w] EXCEPT !.pc = "writing",
                       !.row = [workers[w].row EXCEPT !.status = "pending",
                                  !.due = FALSE, !.attempts = a]]
  <2>4. workers \in
          [Worker -> WorkerState \cup ClaimingState \cup {IdleWorker}]
    BY <1>1 DEF TypeOK
  <2>5. workers' = [workers EXCEPT ![w] = new]
    BY <1>14, <2>2, <2>4, ZenonT(60) DEF DeferQuiet, WorkerState, Row
  <2> HIDE DEF a
  <2>6. /\ new \in WorkerState /\ new.pc = "writing"
        /\ new.intent = workers[w].intent
        /\ new.row.decision = workers[w].row.decision
    BY <1>2, <2>2, <2>3 DEF WorkerState, Row, Status
  <2> HIDE DEF new
  <2>7. workers' \in
          [Worker -> WorkerState \cup ClaimingState \cup {IdleWorker}]
    BY <2>4, <2>5, <2>6
  <2>8. TypeOK'
    BY <1>1, <2>1, <2>7 DEF TypeOK, Reads
  <2>9. SentIsTrue'
    BY <1>1, <2>1 DEF SentIsTrue, Reads
  <2>10. CopiesAreTrue'
    <3> SUFFICES ASSUME NEW v \in Worker, workers'[v].pc \in Holding
                 PROVE  /\ workers'[v].row.decision = "sent" =>
                             workers'[v].intent \in events'
                        /\ workers'[v].row.decision = "provider_sent" =>
                             sends'[workers'[v].intent] > 0
                        /\ workers'[v].pc \in {"saving", "emitting"} =>
                             sends'[workers'[v].intent] > 0
      BY DEF CopiesAreTrue
    <3>1. CASE v = w
      BY <3>1, <1>1, <1>2, <2>1, <2>4, <2>5, <2>6 DEF CopiesAreTrue, Reads
    <3>2. CASE v # w
      BY <3>2, <1>1, <2>1, <2>4, <2>5 DEF CopiesAreTrue, Reads
    <3>3. QED
      BY <3>1, <3>2
  <2>11. QED
    BY <2>8, <2>9, <2>10 DEF SentInv
<1>15. CASE EmitRefused(w)
  BY <1>2, <1>3, <1>4, <1>15, GoesKeeps DEF EmitRefused, Decision
<1>16. QED
  BY <1>5, <1>6, <1>7, <1>8, <1>9, <1>10, <1>11, <1>12, <1>13, <1>14, <1>15
  DEF Decide

\* A step after which the provider or the event log knows more.
LEMMA GrowKeeps ==
    ASSUME SentInv, NEW w \in Worker, workers[w].pc \in Holding,
           NEW pc \in Holding, NEW st \in Status, NEW d \in Decision,
           Goes(w, pc, st, d),
           UNCHANGED <<rows, versionActive, quiet, retries>>,
           sends' \in [Intent -> Nat],
           \A i \in Intent : sends[i] > 0 => sends'[i] > 0,
           faults' \in Nat,
           events \subseteq events', events' \subseteq Intent,
           \A i \in events' : sends'[i] > 0,
           d = "sent" => workers[w].intent \in events',
           d = "provider_sent" \/ pc \in {"saving", "emitting"} =>
               sends'[workers[w].intent] > 0
    PROVE  SentInv'
<1>1. TypeOK /\ SentIsTrue /\ CopiesAreTrue
  BY DEF SentInv
<1>2. /\ workers' \in
             [Worker -> WorkerState \cup ClaimingState \cup {IdleWorker}]
      /\ workers'[w].pc = pc
      /\ workers'[w].row.decision = d
      /\ workers'[w].intent = workers[w].intent
      /\ \A v \in Worker : v # w => workers'[v] = workers[v]
  BY <1>1, GoesType
<1>3. TypeOK'
  BY <1>1, <1>2 DEF TypeOK
<1>4. SentIsTrue'
  BY <1>1 DEF SentIsTrue
<1>5. CopiesAreTrue'
  <2> SUFFICES ASSUME NEW v \in Worker, workers'[v].pc \in Holding
               PROVE  /\ workers'[v].row.decision = "sent" =>
                           workers'[v].intent \in events'
                      /\ workers'[v].row.decision = "provider_sent" =>
                           sends'[workers'[v].intent] > 0
                      /\ workers'[v].pc \in {"saving", "emitting"} =>
                           sends'[workers'[v].intent] > 0
    BY DEF CopiesAreTrue
  <2>1. CASE v = w
    BY <2>1, <1>2
  <2>2. CASE v # w
    <3>1. workers'[v] = workers[v]
      BY <2>2, <1>2
    <3>2. workers[v].intent \in Intent
      BY <3>1, <1>1, HoldingType DEF WorkerState
    <3>3. QED
      BY <3>1, <3>2, <1>1 DEF CopiesAreTrue
  <2>3. QED
    BY <2>1, <2>2
<1>6. QED
  BY <1>3, <1>4, <1>5 DEF SentInv

\* The steps of a worker that call the provider or the event log.
LEMMA CallsKeep ==
    ASSUME SentInv, NEW w \in Worker,
           \/ SendAccepted(w) \/ \E lost \in BOOLEAN : SendRetryable(w, lost)
           \/ AcceptEvent(w) \/ EmitFails(w)
    PROVE  SentInv'
<1>1. TypeOK /\ SentIsTrue /\ CopiesAreTrue
  BY DEF SentInv
<1>2. {"claimed", "sending", "saving", "emitting", "writing"} = Holding
  BY DEF Holding, PC
<1>3. workers[w].pc \in {"sending", "emitting"}
  BY DEF SendAccepted, SendRetryable, AcceptEvent, EmitFails
<1>4. workers[w] \in WorkerState
  BY <1>1, <1>2, <1>3, HoldingType
<1> DEFINE i == workers[w].intent
<1>5. i \in Intent /\ Held(w).status \in Status
  BY <1>4 DEF WorkerState, Row, Held
<1>6. sends \in [Intent -> Nat] /\ sends[i] \in Nat /\ faults \in Nat
  BY <1>1, <1>5 DEF TypeOK
<1>7. ASSUME sends' = [sends EXCEPT ![i] = @ + 1]
      PROVE  /\ sends' \in [Intent -> Nat]
             /\ sends'[i] > 0
             /\ \A j \in Intent : sends[j] > 0 => sends'[j] > 0
  BY <1>5, <1>6, <1>7
<1>8. events \subseteq Intent /\ \A j \in events : sends[j] > 0
  BY <1>1 DEF TypeOK, SentIsTrue
<1>9. CASE SendAccepted(w)
  BY <1>2, <1>3, <1>5, <1>6, <1>7, <1>8, <1>9, GrowKeeps
  DEF SendAccepted, Decision
<1>10. CASE \E lost \in BOOLEAN : SendRetryable(w, lost)
  <2>1. PICK lost \in BOOLEAN : SendRetryable(w, lost)
    BY <1>10
  <2>2. PICK st \in Status, d \in {"send_failed", "retryable_failed"} :
          Goes(w, "writing", st, d)
    BY <2>1 DEF SendRetryable, FailedOr, Status
  <2>3. /\ UNCHANGED <<rows, events, versionActive, quiet, retries>>
        /\ sends' \in [Intent -> Nat]
        /\ \A j \in Intent : sends[j] > 0 => sends'[j] > 0
        /\ faults' \in Nat
    BY <2>1, <1>6, <1>7 DEF SendRetryable
  <2>4. \A j \in events' : sends'[j] > 0
    BY <2>3, <1>8
  <2>5. QED
    BY <1>2, <1>3, <1>8, <2>2, <2>3, <2>4, GrowKeeps DEF Decision
<1>11. ASSUME workers[w].pc = "emitting"
       PROVE  sends[i] > 0
  BY <1>1, <1>2, <1>11 DEF CopiesAreTrue
<1>12. CASE AcceptEvent(w)
  BY <1>2, <1>3, <1>5, <1>6, <1>8, <1>11, <1>12, GrowKeeps
  DEF AcceptEvent, Status, Decision
<1>13. CASE EmitFails(w)
  <2>1. FailedOr(w, "pending") \in Status
    BY DEF FailedOr, Status
  <2>2. /\ events \subseteq events' /\ events' \subseteq Intent
        /\ \A j \in events' : sends[j] > 0
    BY <1>5, <1>8, <1>11, <1>13 DEF EmitFails
  <2>3. QED
    BY <1>2, <1>3, <1>6, <1>11, <1>13, <2>1, <2>2, GrowKeeps
    DEF EmitFails, Decision
<1>14. QED
  BY <1>9, <1>10, <1>12, <1>13

\* The steps that rewrite rows: the claim, the worker's updates, faults.
LEMMA RowStepsKeep ==
    ASSUME SentInv, NEW w \in Worker,
           \/ ReadQueue(w) \/ ClaimNothing(w)
           \/ \E i \in Intent : ClaimJourneyMessageIntent(w, i)
           \/ SaveProviderSent(w) \/ UpdateJourneyMessageIntent(w)
           \/ Crash(w) \/ Overrun(w)
    PROVE  SentInv'
<1>1. TypeOK /\ SentIsTrue /\ CopiesAreTrue
  BY DEF SentInv
<1>2. {"claimed", "sending", "saving", "emitting", "writing"} = Holding
  BY DEF Holding, PC
<1> DEFINE AllStates == WorkerState \cup ClaimingState \cup {IdleWorker}
<1>3. /\ rows \in [Intent -> Row] /\ workers \in [Worker -> AllStates]
      /\ versionActive \in BOOLEAN /\ quiet \in BOOLEAN
      /\ faults \in Nat /\ retries \in Replays
  BY <1>1 DEF TypeOK
<1>4. faults + 1 \in Nat
  BY <1>3
<1>5. ASSUME NEW st \in AllStates, workers' = [workers EXCEPT ![w] = st]
      PROVE  /\ workers' \in [Worker -> AllStates]
             /\ workers'[w] = st
             /\ \A v \in Worker : v # w => workers'[v] = workers[v]
  BY <1>3, <1>5
<1>6. IdleWorker \in AllStates /\ IdleWorker.pc \notin Holding
  BY <1>2 DEF IdleWorker
<1>7. CASE ReadQueue(w)
  <2> DEFINE st == [pc |-> "claiming", seen |-> {i \in Intent : Claimable(i)}]
  <2>1. st \in AllStates /\ st.pc \notin Holding
    BY <1>2 DEF ClaimingState
  <2>2. workers' = [workers EXCEPT ![w] = st]
    BY <1>7 DEF ReadQueue
  <2> HIDE DEF st
  <2>3. QED
    BY <1>3, <1>5, <1>7, <2>1, <2>2, RowsKeep DEF ReadQueue
<1>8. CASE ClaimNothing(w)
  BY <1>3, <1>5, <1>6, <1>8, RowsKeep DEF ClaimNothing
<1>9. CASE \E i \in Intent : ClaimJourneyMessageIntent(w, i)
  <2>1. PICK i \in Intent : ClaimJourneyMessageIntent(w, i)
    BY <1>9
  <2> DEFINE c == ClaimedRow(w, rows[i])
             st == [pc |-> "claimed", intent |-> i, row |-> c, fresh |-> TRUE]
  <2>2. c \in Row /\ c.decision = rows[i].decision
    BY <1>1, <1>3, RowTypes DEF ClaimedRow, Row
  <2>3. rows' = [rows EXCEPT ![i] = c] /\ workers' = [workers EXCEPT ![w] = st]
    BY <2>1 DEF ClaimJourneyMessageIntent
  <2> HIDE DEF c
  <2>4. /\ st \in AllStates /\ st.pc = "claimed" /\ st.intent = i
        /\ st.row.decision = rows[i].decision
    BY <1>2, <2>2 DEF WorkerState
  <2> HIDE DEF st
  <2>5. UNCHANGED <<sends, events, versionActive, quiet, faults, retries>>
    BY <2>1 DEF ClaimJourneyMessageIntent
  <2>6. /\ rows' \in [Intent -> Row]
        /\ \A j \in Intent : rows'[j].decision = rows[j].decision
    BY <1>3, <2>2, <2>3
  <2>7. /\ workers' \in [Worker -> AllStates] /\ workers'[w] = st
        /\ \A v \in Worker : v # w => workers'[v] = workers[v]
    BY <1>5, <2>3, <2>4
  <2>8. QED
    BY <1>3, <2>4, <2>5, <2>6, <2>7, RowsKeep
<1>10. ASSUME workers[w].pc \in Holding,
              rows' = [rows EXCEPT ![workers[w].intent] = WrittenRow(w)]
       PROVE  /\ rows' \in [Intent -> Row]
              /\ \A i \in Intent :
                    \/ rows'[i].decision = rows[i].decision
                    \/ /\ workers[w].intent = i
                       /\ rows'[i].decision = workers[w].row.decision
  BY <1>1, <1>3, <1>10, RowTypes
<1>11. CASE SaveProviderSent(w)
  <2>1. workers[w].pc = "saving" /\ workers[w] \in WorkerState
    BY <1>1, <1>2, <1>11, HoldingType DEF SaveProviderSent
  <2> DEFINE st == [workers[w] EXCEPT !.pc = "emitting"]
  <2>2. /\ st \in AllStates /\ st.pc = "emitting"
        /\ st.intent = workers[w].intent /\ st.row = workers[w].row
    BY <1>2, <2>1 DEF WorkerState
  <2>3. workers' = [workers EXCEPT ![w] = st]
    BY <1>11, <1>3 DEF SaveProviderSent
  <2> HIDE DEF st
  <2>4. QED
    BY <1>2, <1>3, <1>5, <1>10, <1>11, <2>1, <2>2, <2>3, RowsKeep
    DEF SaveProviderSent
<1>12. CASE UpdateJourneyMessageIntent(w)
  BY <1>2, <1>3, <1>5, <1>6, <1>10, <1>12, RowsKeep
  DEF UpdateJourneyMessageIntent
<1>13. CASE Crash(w)
  BY <1>3, <1>4, <1>5, <1>6, <1>13, RowsKeep DEF Crash
<1>14. CASE Overrun(w)
  <2>1. workers[w].pc \in Holding /\ workers[w] \in WorkerState
    BY <1>1, <1>14, HoldingType DEF Overrun
  <2> DEFINE st == [workers[w] EXCEPT !.fresh = FALSE]
             i == workers[w].intent
             l == IF rows[i].lease = w THEN NoWorker ELSE rows[i].lease
             new == [rows[i] EXCEPT !.lease = l]
  <2>2. /\ st \in AllStates /\ st.pc = workers[w].pc
        /\ st.intent = workers[w].intent /\ st.row = workers[w].row
    BY <2>1 DEF WorkerState
  <2>3. i \in Intent /\ rows[i] \in Row
    BY <1>3, <2>1 DEF WorkerState
  <2>4. new \in Row /\ new.decision = rows[i].decision
    BY <2>3 DEF Row
  <2>5. workers' = [workers EXCEPT ![w] = st] /\ rows' = [rows EXCEPT ![i] = new]
    BY <1>14, <1>3, <2>3 DEF Overrun
  <2> HIDE DEF st, new
  <2>6. /\ rows' \in [Intent -> Row]
        /\ \A j \in Intent : rows'[j].decision = rows[j].decision
    BY <1>3, <2>3, <2>4, <2>5
  <2>7. /\ workers' \in [Worker -> AllStates] /\ workers'[w] = st
        /\ \A v \in Worker : v # w => workers'[v] = workers[v]
    BY <1>5, <2>2, <2>5
  <2>8. QED
    BY <1>3, <1>4, <1>14, <2>1, <2>2, <2>6, <2>7, RowsKeep DEF Overrun
<1>15. QED
  BY <1>7, <1>8, <1>9, <1>11, <1>12, <1>13, <1>14

\* The steps of the orchestrator, the operators and the clock.
LEMMA OthersKeep ==
    ASSUME SentInv,
           \/ \E i \in Intent : \/ \E holdout \in BOOLEAN :
                                      CreateIntent(i, holdout)
                                \/ Clock(i) \/ RetryJourneyMessageIntent(i)
           \/ SetJourneyVersionStatus \/ QuietHours
    PROVE  SentInv'
<1>1. TypeOK
  BY DEF SentInv
<1>2. /\ rows \in [Intent -> Row]
      /\ workers \in [Worker -> WorkerState \cup ClaimingState \cup {IdleWorker}]
      /\ versionActive \in BOOLEAN /\ quiet \in BOOLEAN
      /\ faults \in Nat /\ retries \in Replays
  BY <1>1 DEF TypeOK
<1>3. ASSUME NEW i \in Intent, NEW new \in Row, rows' = [rows EXCEPT ![i] = new],
             new.decision \in {rows[i].decision, "none", "holdout"},
             UNCHANGED <<sends, events, workers, versionActive, quiet, faults>>,
             retries' \in Replays
      PROVE  SentInv'
  <2>1. rows' \in [Intent -> Row]
    BY <1>2, <1>3
  <2>2. \A j \in Intent :
          rows'[j].decision \in {rows[j].decision, "none", "holdout"}
    BY <1>2, <1>3
  <2>3. QED
    BY <1>2, <1>3, <2>1, <2>2, RowsKeep
<1>4. ASSUME NEW i \in Intent, NEW holdout \in BOOLEAN, CreateIntent(i, holdout)
      PROVE  SentInv'
  <2> DEFINE new == IF holdout
                    THEN [NoRow EXCEPT !.status = "completed",
                                       !.decision = "holdout"]
                    ELSE [NoRow EXCEPT !.status = "pending", !.due = TRUE]
  <2>1. new \in Row /\ new.decision \in {"none", "holdout"}
    BY DEF NoRow, Row, Status, Decision
  <2>2. rows' = [rows EXCEPT ![i] = new]
    BY <1>4 DEF CreateIntent
  <2> HIDE DEF new
  <2>3. QED
    BY <1>2, <1>3, <1>4, <2>1, <2>2 DEF CreateIntent
<1>5. ASSUME NEW i \in Intent, LeaseExpires(i)
      PROVE  SentInv'
  <2> DEFINE new == [rows[i] EXCEPT !.lease = NoWorker]
  <2>1. new \in Row /\ new.decision = rows[i].decision
    BY <1>2 DEF Row
  <2>2. rows' = [rows EXCEPT ![i] = new]
    BY <1>2, <1>5 DEF LeaseExpires
  <2> HIDE DEF new
  <2>3. QED
    BY <1>2, <1>3, <1>5, <2>1, <2>2 DEF LeaseExpires
<1>6. ASSUME NEW i \in Intent, WindowOpens(i)
      PROVE  SentInv'
  <2> DEFINE new == [rows[i] EXCEPT !.due = TRUE]
  <2>1. new \in Row /\ new.decision = rows[i].decision
    BY <1>2 DEF Row
  <2>2. rows' = [rows EXCEPT ![i] = new]
    BY <1>2, <1>6 DEF WindowOpens
  <2> HIDE DEF new
  <2>3. QED
    BY <1>2, <1>3, <1>6, <2>1, <2>2 DEF WindowOpens
<1>7. ASSUME NEW i \in Intent, RetryJourneyMessageIntent(i)
      PROVE  SentInv'
  <2> DEFINE new == [rows[i] EXCEPT !.status = "pending", !.attempts = 0,
                                    !.due = TRUE, !.lease = NoWorker]
  <2>1. new \in Row /\ new.decision = rows[i].decision
    BY <1>2 DEF Row, Status
  <2>2. rows' = [rows EXCEPT ![i] = new]
    BY <1>2, <1>7 DEF RetryJourneyMessageIntent, Row
  <2> HIDE DEF new
  <2>3. retries' \in Replays
    <3>1. retries.leased + 1 \in Nat /\ retries.others + 1 \in Nat
      BY <1>2 DEF Replays
    <3>2. \/ retries' = [retries EXCEPT !.leased = retries.leased + 1]
          \/ retries' = [retries EXCEPT !.others = retries.others + 1]
      BY <1>7 DEF RetryJourneyMessageIntent
    <3> QED
      BY <1>2, <3>1, <3>2 DEF Replays
  <2>4. QED
    BY <1>2, <1>3, <1>7, <2>1, <2>2, <2>3 DEF RetryJourneyMessageIntent
<1>8. CASE SetJourneyVersionStatus
  BY <1>2, <1>8, RowsKeep DEF SetJourneyVersionStatus
<1>9. CASE QuietHours
  BY <1>2, <1>9, RowsKeep DEF QuietHours
<1>10. QED
  BY <1>4, <1>5, <1>6, <1>7, <1>8, <1>9 DEF Clock

\* Every step keeps the invariant.
LEMMA SentStep == SentInv /\ [Next]_vars => SentInv'
<1> SUFFICES ASSUME SentInv, [Next]_vars PROVE SentInv'
  OBVIOUS
<1>1. CASE UNCHANGED vars
  BY <1>1 DEF vars, SentInv, TypeOK, SentIsTrue, CopiesAreTrue
<1>2. ASSUME NEW w \in Worker, WorkerStep(w) \/ Failure(w)
      PROVE  SentInv'
  <2>1. CASE WorkerStep(w)
    BY <2>1, DecideKeeps, CallsKeep, RowStepsKeep DEF WorkerStep, Deliver
  <2>2. CASE LoadFails(w) \/ TokenInactive(w) \/ Panic(w)
    BY <2>2, DecideKeeps
  <2>3. CASE SendRetryable(w, TRUE) \/ EmitFails(w)
    BY <2>3, CallsKeep
  <2>4. CASE Crash(w) \/ Overrun(w)
    BY <2>4, RowStepsKeep
  <2>5. QED
    BY <1>2, <2>1, <2>2, <2>3, <2>4 DEF Failure
<1>3. QED
  BY <1>1, <1>2, OthersKeep DEF Next

-----------------------------------------------------------------------------
\* The tables and the local state of the workers are well typed, and what
\* the delivery records claim is true, in every reachable state.
THEOREM DeliveryTypeCorrect == Spec => []TypeOK
<1>1. SentInv => TypeOK
  BY DEF SentInv
<1>2. QED
  BY InitSent, SentStep, <1>1, PTL DEF Spec

\* An intent recorded as sent was taken by the provider and announced; no
\* event announces a message the provider never took: for any number of
\* workers, crashes, overrun leases and whole-row writes of stale copies.
THEOREM RecordsAreTrue == Spec => []SentIsTrue
<1>1. SentInv => SentIsTrue
  BY DEF SentInv
<1>2. QED
  BY InitSent, SentStep, <1>1, PTL DEF Spec
-----------------------------------------------------------------------------
(***************************************************************************)
(* Duplicates.  A chance to send message i is a worker that may still send *)
(* it, or NoWorker for the row itself: one that a worker may claim and send*)
(* although no holder of its lease answers for it.  The claim turns the    *)
(* chance of the row into one of the worker, the write of a copy that asks *)
(* for another try turns it back, whoever has the row by then, and a send  *)
(* spends it.  Only faults, and replays of rows under lease, make new ones. *)
(***************************************************************************)

Sendable == Decision \ (Drained \cup {"provider_sent"})
Holds(w, i) == workers[w].pc \in Holding /\ workers[w].intent = i
Answered(i) == /\ rows[i].status = "processing"
               /\ \E w \in Worker : rows[i].lease = w /\ Holds(w, i)
MaySend(w, i) == Holds(w, i) /\ workers[w].row.decision \in Sendable
Free(i) == /\ rows[i].status = "none" \/ rows[i].decision \in Sendable
           /\ ~Answered(i)
Chances(i) == {w \in Worker : MaySend(w, i)} \cup {w \in {NoWorker} : Free(i)}

Budget == faults + retries.leased
Paid(i) == /\ IsFiniteSet(Chances(i))
           /\ sends[i] + Cardinality(Chances(i)) <= 1 + Budget
Resolved(w) ==
    /\ workers[w].pc \in Holding => workers[w].row.status # "none"
    /\ workers[w].pc = "sending" => workers[w].row.decision \in Sendable
    /\ workers[w].pc = "saving" => workers[w].row.decision \notin Sendable
PaidInv == /\ \A w \in Worker : Resolved(w)
           /\ \A i \in Intent : Paid(i)

\* What a step may do to the chances of message i.
Keeps(i) == /\ Chances(i)' \subseteq Chances(i)
            /\ \/ sends'[i] = sends[i]
               \/ sends'[i] = sends[i] + 1 /\ Budget' = Budget + 1
Moves(i) == /\ \E x \in Chances(i), y \in Worker \cup {NoWorker} :
                  Chances(i)' \subseteq (Chances(i) \ {x}) \cup {y}
            /\ sends'[i] = sends[i]
Buys(i) == /\ Chances(i)' \subseteq Chances(i) \cup {NoWorker}
           /\ sends'[i] = sends[i] /\ Budget' = Budget + 1
Spends(i) == /\ \E x \in Chances(i) : Chances(i)' \subseteq Chances(i) \ {x}
             /\ sends'[i] = sends[i] + 1
Pays(i) == Keeps(i) \/ Moves(i) \/ Buys(i) \/ Spends(i)

LEMMA OneMore ==
    ASSUME NEW S, NEW x, IsFiniteSet(S)
    PROVE  /\ IsFiniteSet(S \cup {x})
           /\ Cardinality(S \cup {x}) \in Nat
           /\ Cardinality(S \cup {x}) <= Cardinality(S) + 1
<1>1. IsFiniteSet(S \cup {x})
      /\ Cardinality(S \cup {x}) \in {Cardinality(S), Cardinality(S) + 1}
  BY FS_AddElement
<1>2. Cardinality(S) \in Nat
  BY FS_CardinalityType
<1> QED
  BY <1>1, <1>2

LEMMA BudgetType ==
    ASSUME TypeOK
    PROVE  /\ Budget \in Nat
           /\ UNCHANGED <<faults, retries>> => Budget' = Budget
           /\ faults' = faults + 1 /\ UNCHANGED retries => Budget' = Budget + 1
<1>1. faults \in Nat /\ retries.leased \in Nat
  BY DEF TypeOK, Replays
<1> QED
  BY <1>1 DEF Budget

LEMMA PaysKeeps ==
    ASSUME TypeOK, NEW i \in Intent, Paid(i), Pays(i), Budget' \in {Budget, Budget + 1}
    PROVE  Paid(i)'
<1>1. /\ IsFiniteSet(Chances(i)) /\ Cardinality(Chances(i)) \in Nat
      /\ sends[i] \in Nat /\ Budget \in Nat
      /\ sends[i] + Cardinality(Chances(i)) <= 1 + Budget
  BY BudgetType, FS_CardinalityType DEF TypeOK, Paid
<1>2. CASE Keeps(i)
  <2>1. /\ IsFiniteSet(Chances(i)')
        /\ Cardinality(Chances(i)') <= Cardinality(Chances(i))
        /\ Cardinality(Chances(i)') \in Nat
    BY <1>1, <1>2, FS_Subset, FS_CardinalityType DEF Keeps
  <2> QED
    BY <1>1, <1>2, <2>1 DEF Keeps, Paid
<1>3. CASE Moves(i)
  <2>1. PICK x \in Chances(i), y \in Worker \cup {NoWorker} :
               Chances(i)' \subseteq (Chances(i) \ {x}) \cup {y}
    BY <1>3 DEF Moves
  <2> DEFINE S == Chances(i) \ {x}
             T == S \cup {y}
  <2>2. IsFiniteSet(S) /\ Cardinality(S) = Cardinality(Chances(i)) - 1
    BY <1>1, FS_RemoveElement
  <2>3. IsFiniteSet(T) /\ Cardinality(T) <= Cardinality(S) + 1
        /\ Cardinality(T) \in Nat /\ Cardinality(S) \in Nat
    BY <2>2, OneMore, FS_CardinalityType
  <2>4. /\ IsFiniteSet(Chances(i)') /\ Cardinality(Chances(i)') \in Nat
        /\ Cardinality(Chances(i)') <= Cardinality(T)
    BY <2>1, <2>3, FS_Subset, FS_CardinalityType
  <2> QED
    BY <1>1, <1>3, <2>2, <2>3, <2>4 DEF Moves, Paid
<1>4. CASE Buys(i)
  <2> DEFINE T == Chances(i) \cup {NoWorker}
  <2>1. IsFiniteSet(T) /\ Cardinality(T) <= Cardinality(Chances(i)) + 1
        /\ Cardinality(T) \in Nat
    BY <1>1, OneMore
  <2>2. /\ IsFiniteSet(Chances(i)') /\ Cardinality(Chances(i)') \in Nat
        /\ Cardinality(Chances(i)') <= Cardinality(T)
    BY <1>4, <2>1, FS_Subset, FS_CardinalityType DEF Buys
  <2> QED
    BY <1>1, <1>4, <2>1, <2>2 DEF Buys, Paid
<1>5. CASE Spends(i)
  <2>1. PICK x \in Chances(i) : Chances(i)' \subseteq Chances(i) \ {x}
    BY <1>5 DEF Spends
  <2> DEFINE S == Chances(i) \ {x}
  <2>2. IsFiniteSet(S) /\ Cardinality(S) = Cardinality(Chances(i)) - 1
        /\ Cardinality(S) \in Nat
    BY <1>1, FS_RemoveElement, FS_CardinalityType
  <2>3. /\ IsFiniteSet(Chances(i)') /\ Cardinality(Chances(i)') \in Nat
        /\ Cardinality(Chances(i)') <= Cardinality(S)
    BY <2>1, <2>2, FS_Subset, FS_CardinalityType
  <2> QED
    BY <1>1, <1>5, <2>2, <2>3 DEF Spends, Paid
<1> QED
  BY <1>2, <1>3, <1>4, <1>5 DEF Pays

\* A worker that goes on with its copy of the row.
Copies(w) ==
    /\ workers[w].pc \in Holding /\ workers'[w].pc \in Holding
    /\ workers[w].intent \in Intent /\ workers'[w].intent = workers[w].intent
    /\ \A v \in Worker \ {w} : workers'[v] = workers[v]
    /\ rows' = rows
    /\ Resolved(w)'

LEMMA CopyChances ==
    ASSUME NEW w \in Worker, Copies(w), NEW i \in Intent
    PROVE  /\ \A v \in Worker \ {w} : MaySend(v, i)' <=> MaySend(v, i)
           /\ Free(i)' <=> Free(i)
           /\ i # workers[w].intent => ~MaySend(w, i) /\ ~MaySend(w, i)'
           /\ MaySend(w, i)' <=> /\ i = workers[w].intent
                                 /\ workers'[w].row.decision \in Sendable
           /\ MaySend(w, i) <=> /\ i = workers[w].intent
                                /\ workers[w].row.decision \in Sendable
<1>1. \A v \in Worker : Holds(v, i)' <=> Holds(v, i)
  BY DEF Copies, Holds
<1> QED
  BY <1>1 DEF Copies, MaySend, Holds, Free, Answered

LEMMA CopyKeeps ==
    ASSUME TypeOK, PaidInv, NEW w \in Worker, Copies(w),
           workers'[w].row.decision \in Sendable => workers[w].row.decision \in Sendable,
           UNCHANGED <<sends, faults, retries>>
    PROVE  PaidInv'
<1>1. ASSUME NEW i \in Intent PROVE Keeps(i)
  BY CopyChances DEF Keeps, Chances
<1>2. \A v \in Worker : Resolved(v)'
  BY DEF Copies, PaidInv, Resolved
<1> QED
  BY <1>1, <1>2, BudgetType, PaysKeeps DEF PaidInv, Pays

LEMMA GoesCopies ==
    ASSUME TypeOK, NEW w \in Worker, workers[w].pc \in Holding,
           NEW pc \in Holding, NEW st \in Status, NEW d \in Decision,
           Goes(w, pc, st, d), rows' = rows,
           pc = "sending" => d \in Sendable, pc = "saving" => d \notin Sendable,
           st # "none"
    PROVE  Copies(w) /\ workers'[w].row.decision = d
<1>1. /\ workers'[w].pc = pc /\ workers'[w].row.status = st
      /\ workers'[w].row.decision = d
      /\ workers'[w].intent = workers[w].intent
      /\ \A v \in Worker : v # w => workers'[v] = workers[v]
  BY GoesType
<1>2. workers[w].intent \in Intent
  BY HoldingType DEF WorkerState
<1> QED
  BY <1>1, <1>2 DEF Copies, Resolved

\* The steps that look and decide neither send nor ask for another try.
LEMMA PaidDecide ==
    ASSUME TypeOK, PaidInv, NEW w \in Worker,
           \/ Decide(w) \/ LoadFails(w) \/ TokenInactive(w)
           \/ SendRejected(w) \/ EmitRefused(w) \/ Panic(w)
           \/ AcceptEvent(w) \/ EmitFails(w)
    PROVE  PaidInv'
<1>1. {"claimed", "sending", "saving", "emitting", "writing"} = Holding
  BY DEF Holding, PC
<1>2. workers[w].pc \in Holding /\ UNCHANGED <<rows, sends, faults, retries>>
  BY <1>1 DEF Decide, Drain, Reconcile, DeferQuiet, Reject, RenderFails, Eligible,
     PastQuietHours, Undecided, LoadFails, TokenInactive, SendRejected, EmitRefused,
     Panic, AcceptEvent, EmitFails, Reads
<1>3. workers[w] \in WorkerState
  BY <1>2, HoldingType
<1>4. Held(w).status \in Status \ {"none"} /\ Held(w).decision \in Decision
  BY <1>2, <1>3 DEF WorkerState, Row, Held, PaidInv, Resolved
<1>5. CASE DeferQuiet(w)
  <2>1. /\ workers'[w].pc = "writing" /\ workers'[w].intent = workers[w].intent
        /\ workers'[w].row.status = "pending"
        /\ workers'[w].row.decision = workers[w].row.decision
        /\ \A v \in Worker \ {w} : workers'[v] = workers[v]
    <3>1. workers \in [Worker -> WorkerState \cup ClaimingState \cup {IdleWorker}]
      BY DEF TypeOK
    <3> QED
      BY <1>3, <1>5, <3>1 DEF DeferQuiet, WorkerState, Row
  <2>2. Copies(w)
    BY <1>1, <1>2, <1>3, <2>1 DEF Copies, Resolved, WorkerState
  <2> QED
    BY <1>2, <2>1, <2>2, CopyKeeps
<1>6. CASE ~DeferQuiet(w)
  <2>1. \E pc \in Holding \ {"saving"}, st \in Status \ {"none"}, d \in Decision :
           /\ Goes(w, pc, st, d)
           /\ d \in Sendable => d = Held(w).decision
           /\ pc = "sending" => d \in Sendable
    <3>1. CASE Drain(w)
      BY <1>1, <1>4, <3>1 DEF Drain, Sendable, Status
    <3>2. CASE Reconcile(w)
      BY <1>1, <1>4, <3>2 DEF Reconcile, Sendable
    <3>3. CASE Reject(w)
      <4>1. PICK d \in Verdicts(w) \ {"sent"} : Goes(w, "writing", "completed", d)
        BY <3>3 DEF Reject
      <4>2. d \in {"suppressed", "send_failed", "no_consent", "fatigued"}
        BY <4>1 DEF Verdicts
      <4> QED
        BY <1>1, <4>1, <4>2 DEF Sendable, Drained, Decision, Status
    <3>4. CASE RenderFails(w)
      BY <1>1, <3>4 DEF RenderFails, Sendable, Drained, Decision, Status
    <3>5. CASE Eligible(w)
      BY <1>1, <1>4, <3>5 DEF Eligible, PastQuietHours, Undecided, Sendable
    <3>6. CASE LoadFails(w)
      BY <1>1, <3>6 DEF LoadFails, Sendable, Drained, Decision, Status
    <3>7. CASE TokenInactive(w)
      BY <1>1, <3>7 DEF TokenInactive, Sendable, Drained, Decision, Status
    <3>8. CASE SendRejected(w)
      BY <1>1, <3>8 DEF SendRejected, Sendable, Drained, Decision, Status
    <3>9. CASE EmitRefused(w) \/ EmitFails(w) \/ Panic(w)
      <4>1. /\ FailedOr(w, "failed") \in Status \ {"none"}
            /\ FailedOr(w, "pending") \in Status \ {"none"}
        BY DEF FailedOr, Status
      <4> QED
        BY <1>1, <3>9, <4>1 DEF EmitRefused, EmitFails, Panic, Sendable, Drained, Decision
    <3>10. CASE AcceptEvent(w)
      BY <1>1, <3>10 DEF AcceptEvent, Sendable, Drained, Decision, Status
    <3> QED
      BY <1>6, <3>1, <3>2, <3>3, <3>4, <3>5, <3>6, <3>7, <3>8, <3>9, <3>10 DEF Decide
  <2>2. PICK pc \in Holding \ {"saving"}, st \in Status \ {"none"}, d \in Decision :
           /\ Goes(w, pc, st, d)
           /\ d \in Sendable => d = Held(w).decision
           /\ pc = "sending" => d \in Sendable
    BY <2>1
  <2>3. Copies(w) /\ workers'[w].row.decision = d
    BY <1>2, <2>2, GoesCopies
  <2> QED
    BY <1>2, <2>2, <2>3, CopyKeeps DEF Held
<1> QED
  BY <1>5, <1>6

LEMMA PaidSend ==
    ASSUME TypeOK, PaidInv, NEW w \in Worker,
           SendAccepted(w) \/ \E lost \in BOOLEAN : SendRetryable(w, lost)
    PROVE  PaidInv'
<1>1. {"claimed", "sending", "saving", "emitting", "writing"} = Holding
  BY DEF Holding, PC
<1>2. workers[w].pc = "sending" /\ workers[w].row.decision \in Sendable
  BY DEF SendAccepted, SendRetryable, PaidInv, Resolved
<1>3. workers[w] \in WorkerState
  BY <1>1, <1>2, HoldingType
<1>4. PICK k \in Intent : k = workers[w].intent
  BY <1>3 DEF WorkerState
<1>5. Held(w).status \in Status \ {"none"} /\ faults \in Nat /\ sends \in [Intent -> Nat]
  BY <1>1, <1>2, <1>3 DEF WorkerState, Row, Held, TypeOK, PaidInv, Resolved
<1>6. Copies(w) => \A v \in Worker : Resolved(v)'
  BY DEF Copies, PaidInv, Resolved
<1>7. w # NoWorker
  BY DeliveryAssumption
<1>8. CASE SendAccepted(w)
  <2>1. /\ Copies(w) /\ workers'[w].row.decision = "provider_sent"
    BY <1>1, <1>2, <1>5, <1>8, GoesCopies DEF SendAccepted, Decision, Sendable
  <2>2. /\ sends'[k] = sends[k] + 1 /\ \A i \in Intent \ {k} : sends'[i] = sends[i]
        /\ Budget' = Budget
    BY <1>4, <1>5, <1>8, BudgetType DEF SendAccepted
  <2>3. Spends(k)
    <3>1. w \in Chances(k) /\ ~MaySend(w, k)'
      BY <1>2, <1>4, <2>1, CopyChances DEF Chances, Sendable
    <3>2. Chances(k)' \subseteq Chances(k) \ {w}
      BY <1>7, <2>1, <3>1, CopyChances DEF Chances
    <3> QED
      BY <2>2, <3>1, <3>2 DEF Spends
  <2>4. ASSUME NEW i \in Intent \ {k} PROVE Keeps(i)
    BY <1>4, <2>1, <2>2, CopyChances DEF Keeps, Chances
  <2> QED
    BY <1>6, <2>1, <2>2, <2>3, <2>4, PaysKeeps DEF PaidInv, Pays
<1>9. ASSUME NEW lost \in BOOLEAN, SendRetryable(w, lost) PROVE PaidInv'
  <2>1. PICK st \in Status \ {"none"}, d \in {"send_failed", "retryable_failed"} :
          Goes(w, "writing", st, d)
    BY <1>9 DEF SendRetryable, FailedOr, Status
  <2>2. Copies(w)
    BY <1>1, <1>2, <1>9, <2>1, GoesCopies DEF SendRetryable, Decision
  <2>3. /\ sends'[k] \in {sends[k], sends[k] + 1}
        /\ sends'[k] # sends[k] => Budget' = Budget + 1
        /\ \A i \in Intent \ {k} : sends'[i] = sends[i]
        /\ Budget' \in {Budget, Budget + 1}
    BY <1>4, <1>5, <1>9, BudgetType DEF SendRetryable
  <2>4. ASSUME NEW i \in Intent PROVE Keeps(i)
    <3>1. Chances(i)' \subseteq Chances(i)
      BY <1>2, <1>4, <2>2, CopyChances DEF Chances
    <3> QED
      BY <2>3, <3>1 DEF Keeps
  <2> QED
    BY <1>6, <2>2, <2>3, <2>4, PaysKeeps DEF PaidInv, Pays
<1> QED
  BY <1>8, <1>9

\* The steps that take no row and write none.
LEMMA PaidIdle ==
    ASSUME TypeOK, PaidInv, UNCHANGED <<rows, sends, faults, retries>>,
           \A v \in Worker : \/ workers'[v] = workers[v]
                             \/ /\ workers[v].pc \notin Holding
                                /\ workers'[v].pc \notin Holding
    PROVE  PaidInv'
<1>1. {"claimed", "sending", "saving", "emitting", "writing"} = Holding
  BY DEF Holding, PC
<1>2. ASSUME NEW i \in Intent PROVE Keeps(i)
  <2>1. \A v \in Worker : /\ Holds(v, i)' <=> Holds(v, i)
                          /\ MaySend(v, i)' <=> MaySend(v, i)
    BY DEF Holds, MaySend
  <2> QED
    BY <2>1 DEF Keeps, Chances, Free, Answered
<1>3. \A v \in Worker : Resolved(v)'
  BY <1>1 DEF PaidInv, Resolved
<1> QED
  BY <1>2, <1>3, BudgetType, PaysKeeps DEF PaidInv, Pays

\* The claim turns the chance of the row into one of the worker.
LEMMA PaidClaim ==
    ASSUME TypeOK, PaidInv, NEW w \in Worker, NEW k \in Intent,
           ClaimJourneyMessageIntent(w, k)
    PROVE  PaidInv'
<1>1. {"claimed", "sending", "saving", "emitting", "writing"} = Holding
  BY DEF Holding, PC
<1>2. /\ rows \in [Intent -> Row] /\ rows[k] \in Row
      /\ workers \in [Worker -> WorkerState \cup ClaimingState \cup {IdleWorker}]
  BY DEF TypeOK
<1>3. /\ rows'[k].status = "processing" /\ rows'[k].lease = w
      /\ rows'[k].decision = rows[k].decision
      /\ \A i \in Intent \ {k} : rows'[i] = rows[i]
  BY <1>2 DEF ClaimJourneyMessageIntent, ClaimedRow, Row
<1>4. /\ workers'[w].pc = "claimed" /\ workers'[w].intent = k
      /\ workers'[w].row.decision = rows[k].decision
      /\ workers'[w].row.status = "processing"
      /\ workers[w].pc = "claiming"
      /\ \A v \in Worker \ {w} : workers'[v] = workers[v]
      /\ UNCHANGED <<sends, faults, retries>>
  BY <1>2 DEF ClaimJourneyMessageIntent, ClaimedRow, Row
<1>5. ASSUME NEW i \in Intent
      PROVE  /\ \A v \in Worker \ {w} : /\ Holds(v, i)' <=> Holds(v, i)
                                        /\ MaySend(v, i)' <=> MaySend(v, i)
             /\ ~Holds(w, i) /\ ~MaySend(w, i)
             /\ Holds(w, i)' <=> i = k
  BY <1>1, <1>4 DEF Holds, MaySend
<1>6. ASSUME NEW i \in Intent \ {k} PROVE Keeps(i)
  <2>1. Answered(i)' <=> Answered(i)
    BY <1>3, <1>5 DEF Answered
  <2>2. ~MaySend(w, i)'
    BY <1>5 DEF MaySend
  <2> QED
    BY <1>3, <1>4, <1>5, <2>1, <2>2 DEF Keeps, Chances, Free
<1>7. Keeps(k) \/ Moves(k)
  <2>1. ~Free(k)'
    BY <1>3, <1>5 DEF Free, Answered
  <2>2. CASE rows[k].decision \in Sendable
    <3>1. ~Answered(k)
      BY DeliveryAssumption DEF ClaimJourneyMessageIntent, Claimable, Answered
    <3>2. NoWorker \in Chances(k)
      BY <2>2, <3>1 DEF Chances, Free
    <3>3. Chances(k)' \subseteq (Chances(k) \ {NoWorker}) \cup {w}
      BY <1>5, <2>1, DeliveryAssumption DEF Chances
    <3> QED
      BY <1>4, <3>2, <3>3 DEF Moves
  <2>3. CASE rows[k].decision \notin Sendable
    <3>1. ~MaySend(w, k)'
      BY <1>4, <2>3 DEF MaySend
    <3> QED
      BY <1>4, <1>5, <2>1, <3>1 DEF Keeps, Chances
  <2> QED
    BY <2>2, <2>3
<1>8. \A v \in Worker : Resolved(v)'
  BY <1>4 DEF PaidInv, Resolved
<1> QED
  BY <1>4, <1>6, <1>7, <1>8, BudgetType, PaysKeeps DEF PaidInv, Pays

\* The row a worker writes takes the chance of its copy, if it has one.
LEMMA PaidWrite ==
    ASSUME TypeOK, PaidInv, NEW w \in Worker,
           SaveProviderSent(w) \/ UpdateJourneyMessageIntent(w)
    PROVE  PaidInv'
<1>1. {"claimed", "sending", "saving", "emitting", "writing"} = Holding
  BY DEF Holding, PC
<1>2. workers[w].pc \in {"saving", "writing"}
  BY DEF SaveProviderSent, UpdateJourneyMessageIntent
<1>3. workers[w] \in WorkerState
  BY <1>1, <1>2, HoldingType
<1>4. PICK k \in Intent : k = workers[w].intent
  BY <1>3 DEF WorkerState
<1>5. /\ rows \in [Intent -> Row]
      /\ workers \in [Worker -> WorkerState \cup ClaimingState \cup {IdleWorker}]
      /\ WrittenRow(w).decision = workers[w].row.decision
      /\ WrittenRow(w).status # "none"
  <2>1. workers[w].row.status # "none"
    BY <1>1, <1>2 DEF PaidInv, Resolved
  <2>2. WrittenRow(w).status = workers[w].row.status
    BY <1>3 DEF WrittenRow, Held, WorkerState, Row
  <2> QED
    BY <1>1, <1>2, <2>1, <2>2, RowTypes DEF TypeOK
<1>6. /\ rows'[k].decision = workers[w].row.decision /\ rows'[k].status # "none"
      /\ \A i \in Intent \ {k} : rows'[i] = rows[i]
      /\ UNCHANGED <<sends, faults, retries>>
  BY <1>4, <1>5 DEF SaveProviderSent, UpdateJourneyMessageIntent
<1>7. /\ \A v \in Worker \ {w} : workers'[v] = workers[v]
      /\ \/ workers'[w].pc \notin Holding
         \/ /\ workers[w].pc = "saving" /\ workers'[w].pc = "emitting"
            /\ workers'[w].intent = k /\ workers'[w].row = workers[w].row
  BY <1>1, <1>3, <1>4, <1>5
     DEF SaveProviderSent, UpdateJourneyMessageIntent, IdleWorker, WorkerState
<1>8. workers[w].pc = "saving" => workers[w].row.decision \notin Sendable
  BY DEF PaidInv, Resolved
<1>9. ASSUME NEW i \in Intent
      PROVE  /\ \A v \in Worker \ {w} : /\ Holds(v, i)' <=> Holds(v, i)
                                        /\ MaySend(v, i)' <=> MaySend(v, i)
             /\ ~MaySend(w, i)'
             /\ i # k => ~Holds(w, i) /\ ~Holds(w, i)'
  BY <1>1, <1>4, <1>7, <1>8 DEF Holds, MaySend
<1>10. ASSUME NEW i \in Intent \ {k} PROVE Keeps(i)
  <2>1. Answered(i)' <=> Answered(i)
    BY <1>6, <1>9 DEF Answered
  <2> QED
    BY <1>6, <1>9, <2>1 DEF Keeps, Chances, Free
<1>11. Keeps(k) \/ Moves(k)
  <2>1. CASE workers[w].row.decision \in Sendable
    <3>1. w \in Chances(k)
      BY <1>1, <1>2, <1>4, <2>1 DEF Chances, MaySend, Holds
    <3>2. Chances(k)' \subseteq (Chances(k) \ {w}) \cup {NoWorker}
      BY <1>9 DEF Chances
    <3> QED
      BY <1>6, <3>1, <3>2 DEF Moves
  <2>2. CASE workers[w].row.decision \notin Sendable
    <3>1. ~Free(k)'
      BY <1>6, <2>2 DEF Free
    <3> QED
      BY <1>6, <1>9, <3>1 DEF Keeps, Chances
  <2> QED
    BY <2>1, <2>2
<1>12. \A v \in Worker : Resolved(v)'
  BY <1>1, <1>7 DEF PaidInv, Resolved
<1> QED
  BY <1>6, <1>10, <1>11, <1>12, BudgetType, PaysKeeps DEF PaidInv, Pays

\* A worker that dies or outlives its lease leaves the row to another one.
LEMMA PaidFault ==
    ASSUME TypeOK, PaidInv, NEW w \in Worker, Crash(w) \/ Overrun(w)
    PROVE  PaidInv'
<1>1. {"claimed", "sending", "saving", "emitting", "writing"} = Holding
  BY DEF Holding, PC
<1>2. workers[w].pc \in Holding
  BY DEF Crash, Overrun
<1>3. workers[w] \in WorkerState
  BY <1>2, HoldingType
<1>4. PICK k \in Intent : k = workers[w].intent
  BY <1>3 DEF WorkerState
<1>5. /\ rows \in [Intent -> Row]
      /\ workers \in [Worker -> WorkerState \cup ClaimingState \cup {IdleWorker}]
  BY DEF TypeOK
<1>6. /\ \A v \in Worker \ {w} : workers'[v] = workers[v]
      /\ \/ workers'[w].pc \notin Holding
         \/ /\ workers'[w].pc = workers[w].pc
            /\ workers'[w].intent = k /\ workers'[w].row = workers[w].row
  BY <1>1, <1>3, <1>4, <1>5 DEF Crash, Overrun, IdleWorker, WorkerState
<1>7. sends' = sends /\ Budget' = Budget + 1
  BY BudgetType DEF Crash, Overrun
<1>8. ASSUME NEW i \in Intent PROVE Buys(i)
  <2>1. \A v \in Worker : MaySend(v, i)' => MaySend(v, i)
    BY <1>2, <1>4, <1>6 DEF MaySend, Holds
  <2> QED
    BY <1>7, <2>1 DEF Buys, Chances
<1>9. \A v \in Worker : Resolved(v)'
  BY <1>1, <1>6 DEF PaidInv, Resolved
<1> QED
  BY <1>7, <1>8, <1>9, PaysKeeps DEF PaidInv, Pays

\* The others change rows that no worker answers for, or pay for it.
LEMMA PaidRow ==
    ASSUME TypeOK, PaidInv, UNCHANGED <<sends, workers>>,
           Budget' \in {Budget, Budget + 1},
           \A i \in Intent : Free(i)' /\ Budget' = Budget => Free(i)
    PROVE  PaidInv'
<1>1. ASSUME NEW i \in Intent PROVE Keeps(i) \/ Buys(i)
  BY <1>1 DEF Keeps, Buys, Chances, MaySend, Holds
<1>2. \A v \in Worker : Resolved(v)'
  BY DEF PaidInv, Resolved
<1> QED
  BY <1>1, <1>2, PaysKeeps DEF PaidInv, Pays

LEMMA PaidOthers ==
    ASSUME TypeOK, PaidInv, NEW i \in Intent,
           \/ \E holdout \in BOOLEAN : CreateIntent(i, holdout)
           \/ Clock(i) \/ RetryJourneyMessageIntent(i)
    PROVE  PaidInv'
<1>1. rows \in [Intent -> Row] /\ rows[i] \in Row
  BY DEF TypeOK
<1>2. UNCHANGED <<sends, faults, workers>>
  BY DEF CreateIntent, Clock, LeaseExpires, WindowOpens, RetryJourneyMessageIntent
<1>3. /\ Budget' \in {Budget, Budget + 1}
      /\ RetryJourneyMessageIntent(i) /\ i \in InFlight => Budget' = Budget + 1
  <2>1. /\ faults \in Nat
        /\ retries.leased \in Nat
        /\ retries \in Replays
    BY DEF TypeOK, Replays
  <2>2. CASE RetryJourneyMessageIntent(i)
    <3>1. retries'.leased = IF i \in InFlight THEN retries.leased + 1
                                              ELSE retries.leased
      BY <2>1, <2>2 DEF RetryJourneyMessageIntent, Replays
    <3> QED
      BY <1>2, <2>1, <3>1 DEF Budget
  <2>3. CASE ~RetryJourneyMessageIntent(i)
    BY <2>3, BudgetType DEF CreateIntent, Clock, LeaseExpires, WindowOpens
  <2> QED
    BY <2>2, <2>3
<1>4. \A j \in Intent \ {i} : rows'[j] = rows[j]
  BY <1>1 DEF CreateIntent, Clock, LeaseExpires, WindowOpens, RetryJourneyMessageIntent
<1>5. \A j \in Intent \ {i} : Free(j)' <=> Free(j)
  BY <1>2, <1>4 DEF Free, Answered, Holds
<1>6. Free(i)' /\ Budget' = Budget => Free(i)
  <2>1. ASSUME NEW holdout \in BOOLEAN, CreateIntent(i, holdout) PROVE Free(i)
    BY <2>1 DEF CreateIntent, Free, Answered
  <2>2. CASE LeaseExpires(i)
    <3>1. /\ rows'[i].decision = rows[i].decision
          /\ rows'[i].status = rows[i].status
          /\ ~Answered(i)
      BY <1>1, <2>2 DEF LeaseExpires, Answered, Holds, Row
    <3> QED
      BY <3>1 DEF Free
  <2>3. CASE WindowOpens(i)
    BY <1>1, <2>3 DEF WindowOpens, Free, Answered, Row
  <2>4. CASE RetryJourneyMessageIntent(i)
    <3>1. /\ rows'[i].decision = rows[i].decision
          /\ rows'[i].status = "pending"
      BY <1>1, <2>4 DEF RetryJourneyMessageIntent, Row
    <3>2. Answered(i) => i \in InFlight
      BY DeliveryAssumption DEF Answered, InFlight
    <3>3. Budget \in Nat
      BY BudgetType
    <3> QED
      BY <1>3, <2>4, <3>1, <3>2, <3>3 DEF Free
  <2> QED
    BY <2>1, <2>2, <2>3, <2>4 DEF Clock
<1> QED
  BY <1>2, <1>3, <1>5, <1>6, PaidRow

LEMMA PaidInit == Init => PaidInv
<1> SUFFICES ASSUME Init PROVE PaidInv
  OBVIOUS
<1>1. /\ \A w \in Worker : workers[w].pc = "idle" /\ workers[w].pc \notin Holding
      /\ Budget = 0
  BY DEF Init, IdleWorker, Holding, Budget
<1>2. ASSUME NEW i \in Intent PROVE Paid(i)
  <2>1. Chances(i) \subseteq {NoWorker} /\ sends[i] = 0
    BY <1>1 DEF Chances, MaySend, Holds, Init
  <2>2. /\ IsFiniteSet({NoWorker}) /\ Cardinality({NoWorker}) = 1
    BY FS_Singleton
  <2>3. /\ IsFiniteSet(Chances(i)) /\ Cardinality(Chances(i)) <= 1
        /\ Cardinality(Chances(i)) \in Nat
    BY <2>1, <2>2, FS_Subset, FS_CardinalityType
  <2> QED
    BY <1>1, <2>1, <2>3 DEF Paid
<1> QED
  BY <1>1, <1>2 DEF PaidInv, Resolved

LEMMA PaidStep ==
    ASSUME TypeOK, PaidInv, [Next]_vars
    PROVE  PaidInv'
<1>1. ASSUME NEW w \in Worker, WorkerStep(w) \/ Failure(w) PROVE PaidInv'
  <2>1. CASE ReadQueue(w) \/ ClaimNothing(w)
    <3>1. workers \in [Worker -> WorkerState \cup ClaimingState \cup {IdleWorker}]
      BY DEF TypeOK
    <3>2. /\ workers[w].pc \notin Holding /\ workers'[w].pc \notin Holding
          /\ \A v \in Worker \ {w} : workers'[v] = workers[v]
          /\ UNCHANGED <<rows, sends, faults, retries>>
      BY <2>1, <3>1 DEF ReadQueue, ClaimNothing, IdleWorker, Holding
    <3> QED
      BY <3>2, PaidIdle
  <2> QED
    BY <1>1, <2>1, PaidDecide, PaidSend, PaidClaim, PaidWrite, PaidFault
       DEF WorkerStep, Deliver, Failure
<1>2. CASE SetJourneyVersionStatus \/ QuietHours \/ UNCHANGED vars
  <2>1. UNCHANGED <<rows, sends, faults, retries, workers>>
    BY <1>2 DEF SetJourneyVersionStatus, QuietHours, vars
  <2> QED
    BY <2>1, PaidIdle
<1> QED
  BY <1>1, <1>2, PaidOthers DEF Next

\* DeliverNext, UpdateJourneyMessageIntent, ClaimJourneyMessageIntent: every
\* extra copy of a message is paid for by a fault or by the replay of a row
\* under lease, which RetryJourneyMessageIntent does not look at, for any
\* number of workers, tries and replays, although nothing is fenced and
\* workers that have lost their leases write whole rows.
THEOREM DuplicatesCostFaults == Spec => []DuplicatesArePaidFor
<1>1. SentInv => TypeOK
  BY DEF SentInv
<1>2. SentInv /\ PaidInv => DuplicatesArePaidFor
  <2> SUFFICES ASSUME SentInv, PaidInv, NEW i \in Intent
               PROVE  sends[i] <= 1 + faults + retries.leased
    BY DEF DuplicatesArePaidFor
  <2>1. Paid(i) /\ Cardinality(Chances(i)) \in Nat
    BY FS_CardinalityType DEF PaidInv, Paid
  <2>2. sends[i] \in Nat /\ faults \in Nat /\ retries.leased \in Nat
    BY DEF SentInv, TypeOK, Replays
  <2> QED
    BY <2>1, <2>2 DEF Paid, Budget
<1>3. SentInv /\ PaidInv /\ [Next]_vars => (SentInv /\ PaidInv)'
  BY <1>1, SentStep, PaidStep
<1>4. QED
  BY <1>2, <1>3, InitSent, PaidInit, PTL DEF Spec
=============================================================================
