----------------------- MODULE EventProjectionProofs ------------------------
(***************************************************************************)
(* Proofs about EventProjection, for any events, ids, batches and number   *)
(* of projectors, any attempts limit and any number of faults and replays. *)
(***************************************************************************)
EXTENDS EventProjection, FiniteSetTheorems, TLAPS

InTx(e) == \E r \in Request : e \in txs[r].keys

\* Rows inserted and not committed belong to one transaction, and a closed
\* transaction has none.
TxInv ==
    /\ \A r \in Request : \A e \in txs[r].keys : ~Accepted(e)
    /\ \A r, q \in Request : r # q => txs[r].keys \cap txs[q].keys = {}
    /\ \A r \in Request : ~txs[r].open => txs[r].keys = {}

\* Sequence values handed out are below the next one.
SeqInv == \A e \in Key : Accepted(e) \/ InTx(e) => seq[e] < nextSeq

\* Acceptance before submission is order of sequence values.
BeforeInv == \A e, f \in Key : <<e, f>> \in before =>
                /\ Accepted(e)
                /\ seq[e] < seq[f]
                /\ Accepted(f) \/ InTx(f)

AcceptanceInv == TxInv /\ SeqInv /\ BeforeInv

\* What precedes f in its subject is out of the way.
Settled(f) == \A e \in Key : <<e, f>> \in before /\ Related(e, f) =>
                 e \in buried \/ IsApplied(e)

AppliedInv == \A i \in DOMAIN applied : Accepted(applied[i])

\* A worker holds an event only once what precedes it is out of the way.
HeldInv == \A p \in Projector : projectors[p].pc # "idle" =>
              Accepted(projectors[p].event) /\ Settled(projectors[p].event)

InlineInv == \A e \in Key : inline[e] # "no" =>
                /\ e \in Company
                /\ Accepted(e)
                /\ inline[e] = "projected" => IsApplied(e)

DeadInv == \A e \in Key : jobs[e].status = "dead" => e \in buried

IInv == /\ TypeOK
        /\ AcceptanceInv
        /\ AppliedInv
        /\ HeldInv
        /\ InlineInv
        /\ DeadInv
        /\ DoneIsApplied
        /\ FirstInOrder

-----------------------------------------------------------------------------
(***************************************************************************)
(* Facts about the operators.                                              *)
(***************************************************************************)
\* What the UPDATEs of projection_jobs make of a row.
LEMMA JobRows ==
    ASSUME NEW job \in Job
    PROVE  /\ NewJob \in Job /\ NewJob.status = "pending"
           /\ DoneJob(job) \in Job /\ DoneJob(job).status = "done"
           /\ \A p \in Projector : /\ ClaimedJob(p, job) \in Job
                                   /\ ClaimedJob(p, job).status = "processing"
           /\ FailedJob(job) \in Job
           /\ FailedJob(job).status \in {"pending", "dead"}
<1>1. NewJob \in Job /\ NewJob.status = "pending"
  BY DEF NewJob, NoJob, Job, Status
<1>2. DoneJob(job) \in Job /\ DoneJob(job).status = "done"
  BY DEF DoneJob, Job, Status
<1>3. job.attempts + 1 \in Nat
  BY DEF Job
<1>4. \A p \in Projector : /\ ClaimedJob(p, job) \in Job
                             /\ ClaimedJob(p, job).status = "processing"
  BY <1>3 DEF ClaimedJob, Job, Status
<1>5. FailedJob(job) \in Job /\ FailedJob(job).status \in {"pending", "dead"}
  BY DEF FailedJob, Job, Status
<1>6. QED
  BY <1>1, <1>2, <1>4, <1>5

\* A projector that is not idle holds an event.
LEMMA HoldsEvent ==
    ASSUME TypeOK, NEW p \in Projector, projectors[p].pc # "idle"
    PROVE  projectors[p] \in ProjectorState /\ projectors[p].event \in Key
BY DEF TypeOK, ProjectorState, IdleProjector

\* Writing one row of an accepted event accepts and forgets nothing.
LEMMA RowWrite ==
    ASSUME TypeOK, NEW k \in Key, NEW new \in Job, new.status # "none",
           Accepted(k), jobs' = [jobs EXCEPT ![k] = new]
    PROVE  /\ jobs' \in [Key -> Job]
           /\ jobs'[k] = new
           /\ \A e \in Key : e # k => jobs'[e] = jobs[e]
           /\ \A e \in Key : Accepted(e)' <=> Accepted(e)
BY DEF TypeOK, Accepted

\* Steps that only write rows of accepted events keep the acceptance facts.
LEMMA AcceptanceKept ==
    ASSUME AcceptanceInv, TypeOK, UNCHANGED acceptance,
           \A e \in Key : Accepted(e)' <=> Accepted(e)
    PROVE  AcceptanceInv'
<1>1. /\ seq' = seq /\ nextSeq' = nextSeq /\ txs' = txs /\ before' = before
      /\ \A r \in Request : txs[r].keys \subseteq Key
  BY DEF acceptance, TypeOK, Tx
<1>2. TxInv'
  BY <1>1 DEF AcceptanceInv, TxInv
<1>3. SeqInv'
  BY <1>1 DEF AcceptanceInv, SeqInv, InTx
<1>4. BeforeInv'
  BY <1>1 DEF AcceptanceInv, BeforeInv, InTx
<1>5. QED
  BY <1>2, <1>3, <1>4 DEF AcceptanceInv

\* Steps that project nothing keep the order of what was projected.
LEMMA OrderKept ==
    ASSUME TypeOK, AppliedInv, FirstInOrder, applied' = applied,
           before' = before, buried \subseteq buried',
           \A e \in Key : Accepted(e) => Accepted(e)'
    PROVE  /\ AppliedInv' /\ FirstInOrder'
           /\ \A e \in Key : IsApplied(e) => IsApplied(e)'
<1>1. \A i \in DOMAIN applied : applied[i] \in Key
  BY DEF TypeOK
<1>2. AppliedInv'
  BY <1>1 DEF AppliedInv
<1>3. FirstInOrder'
  BY DEF FirstInOrder
<1>4. \A e \in Key : IsApplied(e) => IsApplied(e)'
  BY DEF IsApplied
<1>5. QED
  BY <1>2, <1>3, <1>4

\* Projecting an event whose predecessors are out of the way, or a company
\* event, keeps the order.
LEMMA ApplyStep ==
    ASSUME TypeOK, AppliedInv, FirstInOrder, NEW f \in Key, Accepted(f),
           f \in Company \/ Settled(f), applied' = Append(applied, f),
           before' = before, buried' = buried,
           \A e \in Key : Accepted(e) => Accepted(e)'
    PROVE  /\ applied' \in Seq(Key)
           /\ AppliedInv' /\ FirstInOrder'
           /\ IsApplied(f)'
           /\ \A e \in Key : IsApplied(e) => IsApplied(e)'
<1> DEFINE n == Len(applied)
<1>1. /\ applied \in Seq(Key) /\ n \in Nat
      /\ DOMAIN applied = 1..n
      /\ \A i \in 1..n : applied[i] \in Key
  BY DEF TypeOK
<1>2. /\ applied' \in Seq(Key)
      /\ DOMAIN applied' = 1..(n + 1)
      /\ \A i \in 1..n : applied'[i] = applied[i]
      /\ applied'[n + 1] = f
  BY <1>1
<1> HIDE DEF n
<1>3. AppliedInv'
  BY <1>1, <1>2 DEF AppliedInv
<1>4. IsApplied(f)' /\ \A e \in Key : IsApplied(e) => IsApplied(e)'
  BY <1>1, <1>2 DEF IsApplied
<1>5. FirstInOrder'
  <2> SUFFICES ASSUME NEW j \in 1..(n + 1), NEW e \in Key,
                      applied'[j] \notin Company,
                      <<e, applied'[j]>> \in before,
                      Related(e, applied'[j])
               PROVE  e \in buried \/ \E i \in 1..(j - 1) : applied'[i] = e
    BY <1>2 DEF FirstInOrder, Related
  <2>1. ASSUME j \in 1..n
        PROVE  e \in buried \/ \E i \in 1..(j - 1) : applied'[i] = e
    <3>1. e \in buried \/ \E i \in 1..(j - 1) : applied[i] = e
      BY <1>1, <1>2, <2>1 DEF FirstInOrder
    <3>2. \A i \in 1..(j - 1) : applied'[i] = applied[i]
      BY <1>1, <1>2, <2>1
    <3>3. QED
      BY <3>1, <3>2
  <2>2. ASSUME j = n + 1
        PROVE  e \in buried \/ \E i \in 1..(j - 1) : applied'[i] = e
    <3>1. e \in buried \/ IsApplied(e)
      BY <1>2, <2>2 DEF Settled
    <3>2. IsApplied(e) => \E i \in 1..n : applied'[i] = e
      BY <1>1, <1>2 DEF IsApplied
    <3>3. QED
      BY <1>1, <2>2, <3>1, <3>2
  <2>3. QED
    BY <1>1, <2>1, <2>2
<1>6. QED
  BY <1>2, <1>3, <1>4, <1>5

\* What is out of the way stays so.
LEMMA SettledKept ==
    ASSUME NEW f \in Key, Settled(f), before' = before,
           buried \subseteq buried',
           \A e \in Key : IsApplied(e) => IsApplied(e)'
    PROVE  Settled(f)'
BY DEF Settled, Related

\* Steps that write rows of accepted events and leave the workers alone, or
\* make them idle, keep what the workers hold.
LEMMA HeldKept ==
    ASSUME TypeOK, HeldInv, before' = before, buried \subseteq buried',
           \A e \in Key : IsApplied(e) => IsApplied(e)',
           \A e \in Key : Accepted(e) => Accepted(e)',
           \A p \in Projector : \/ projectors'[p].pc = "idle"
                                \/ /\ projectors[p].pc # "idle"
                                   /\ projectors'[p].event =
                                        projectors[p].event
    PROVE  HeldInv'
<1> SUFFICES ASSUME NEW p \in Projector, projectors'[p].pc # "idle"
             PROVE  /\ Accepted(projectors[p].event)'
                    /\ Settled(projectors[p].event)'
  BY DEF HeldInv
<1>1. /\ projectors[p].pc # "idle"
      /\ projectors'[p].event = projectors[p].event
      /\ projectors[p].event \in Key
  BY HoldsEvent
<1>2. PICK f \in Key : f = projectors[p].event
  BY <1>1
<1>3. Accepted(f) /\ Settled(f)
  BY <1>1, <1>2 DEF HeldInv
<1>4. Accepted(f)' /\ Settled(f)'
  BY <1>3, SettledKept
<1>5. f = (projectors[p].event)'
  BY <1>1, <1>2
<1>6. QED
  BY <1>4, <1>5 DEF Accepted, Settled

\* Steps that leave applyCompanyEvent alone keep what is known of it.
LEMMA InlineKept ==
    ASSUME InlineInv, inline' = inline,
           \A e \in Key : IsApplied(e) => IsApplied(e)',
           \A e \in Key : Accepted(e) => Accepted(e)'
    PROVE  InlineInv'
BY DEF InlineInv

\* The facts about finished rows survive the write of one row, when they hold
\* of that row.
LEMMA FinishedKept ==
    ASSUME DeadInv, DoneIsApplied, NEW k \in Key, buried \subseteq buried',
           \A e \in Key : IsApplied(e) => IsApplied(e)',
           \A e \in Key : e # k => jobs'[e] = jobs[e],
           jobs'[k].status = "dead" => k \in buried',
           jobs'[k].status = "done" => IsApplied(k)' \/ k \in buried'
    PROVE  DeadInv' /\ DoneIsApplied'
<1>1. DeadInv'
  BY DEF DeadInv
<1>2. DoneIsApplied'
  BY DEF DoneIsApplied
<1>3. QED
  BY <1>1, <1>2

\* A step of a worker, of a company call, of an operator or of the clock that
\* writes the row of k and projects nothing.
LEMMA RowStep ==
    ASSUME IInv, UNCHANGED acceptance, NEW k \in Key, NEW new \in Job,
           new.status # "none", Accepted(k),
           jobs' = [jobs EXCEPT ![k] = new],
           new.status = "dead" => k \in buried',
           new.status = "done" => IsApplied(k) \/ k \in buried',
           applied' = applied, inline' = inline,
           buried \subseteq buried', buried' \subseteq Key,
           faults' \in Nat, retries' \in Nat,
           projectors' \in [Projector -> ProjectorState \cup {IdleProjector}],
           HeldInv'
    PROVE  IInv'
<1>1. /\ TypeOK /\ AcceptanceInv /\ AppliedInv /\ HeldInv /\ InlineInv
      /\ DeadInv /\ DoneIsApplied /\ FirstInOrder
  BY DEF IInv
<1>2. /\ jobs' \in [Key -> Job]
      /\ jobs'[k] = new
      /\ \A e \in Key : e # k => jobs'[e] = jobs[e]
      /\ \A e \in Key : Accepted(e)' <=> Accepted(e)
  BY <1>1, RowWrite
<1>3. before' = before
  BY DEF acceptance
<1>4. /\ AppliedInv' /\ FirstInOrder'
      /\ \A e \in Key : IsApplied(e) => IsApplied(e)'
  BY <1>1, <1>2, <1>3, OrderKept
<1>5. TypeOK'
  BY <1>1, <1>2 DEF TypeOK, acceptance
<1>6. AcceptanceInv'
  BY <1>1, <1>2, AcceptanceKept
<1>7. InlineInv'
  BY <1>1, <1>2, <1>4, InlineKept
<1>8. DeadInv' /\ DoneIsApplied'
  <2>1. /\ jobs'[k].status = "dead" => k \in buried'
        /\ jobs'[k].status = "done" => IsApplied(k)' \/ k \in buried'
    BY <1>2, <1>4
  <2>2. QED
    BY <1>1, <1>2, <1>4, <2>1, FinishedKept
<1>9. QED
  BY <1>4, <1>5, <1>6, <1>7, <1>8 DEF IInv

\* A step that writes no row and projects nothing.
LEMMA QuietStep ==
    ASSUME IInv, UNCHANGED <<acceptance, jobs, applied, buried>>,
           faults' \in Nat, retries' \in Nat,
           inline' \in [Key -> {"no", "accepted", "projected"}], InlineInv',
           projectors' \in [Projector -> ProjectorState \cup {IdleProjector}],
           HeldInv'
    PROVE  IInv'
<1>1. /\ TypeOK /\ AcceptanceInv /\ AppliedInv
      /\ DeadInv /\ DoneIsApplied /\ FirstInOrder
  BY DEF IInv
<1>2. /\ before' = before
      /\ \A e \in Key : Accepted(e)' <=> Accepted(e)
  BY DEF acceptance, Accepted
<1>3. /\ AppliedInv' /\ FirstInOrder'
      /\ \A e \in Key : IsApplied(e) => IsApplied(e)'
  BY <1>1, <1>2, OrderKept
<1>4. TypeOK'
  BY <1>1 DEF TypeOK, acceptance
<1>5. AcceptanceInv'
  BY <1>1, <1>2, AcceptanceKept
<1>6. DeadInv' /\ DoneIsApplied'
  BY <1>1, <1>3 DEF DeadInv, DoneIsApplied
<1>7. QED
  BY <1>3, <1>4, <1>5, <1>6 DEF IInv

\* A projection of k that commits.
LEMMA ProjectStep ==
    ASSUME IInv, UNCHANGED acceptance, NEW k \in Key, Accepted(k),
           k \in Company \/ Settled(k),
           jobs' = [jobs EXCEPT ![k] = DoneJob(@)],
           applied' = Append(applied, k), buried' = buried,
           faults' \in Nat, retries' \in Nat,
           inline' \in [Key -> {"no", "accepted", "projected"}],
           \A e \in Key : inline'[e] # inline[e] => e \in Company /\ e = k,
           projectors' \in [Projector -> ProjectorState \cup {IdleProjector}],
           \A p \in Projector : \/ projectors'[p].pc = "idle"
                                \/ /\ projectors[p].pc # "idle"
                                   /\ projectors'[p].event =
                                        projectors[p].event
    PROVE  IInv'
<1>1. /\ TypeOK /\ AcceptanceInv /\ AppliedInv /\ HeldInv /\ InlineInv
      /\ DeadInv /\ DoneIsApplied /\ FirstInOrder
  BY DEF IInv
<1>2. PICK new \in Job : new = DoneJob(jobs[k]) /\ new.status = "done"
  <2>1. jobs[k] \in Job
    BY <1>1 DEF TypeOK
  <2>2. DoneJob(jobs[k]) \in Job /\ DoneJob(jobs[k]).status = "done"
    BY <2>1, JobRows
  <2>3. QED
    BY <2>2
<1>3. /\ jobs' \in [Key -> Job]
      /\ jobs'[k] = new
      /\ \A e \in Key : e # k => jobs'[e] = jobs[e]
      /\ \A e \in Key : Accepted(e)' <=> Accepted(e)
  <2>1. jobs' = [jobs EXCEPT ![k] = new]
    BY <1>1, <1>2 DEF TypeOK
  <2>2. QED
    BY <1>1, <1>2, <2>1, RowWrite
<1>4. before' = before
  BY DEF acceptance
<1>5. /\ applied' \in Seq(Key)
      /\ AppliedInv' /\ FirstInOrder'
      /\ IsApplied(k)'
      /\ \A e \in Key : IsApplied(e) => IsApplied(e)'
  BY <1>1, <1>3, <1>4, ApplyStep
<1>6. TypeOK'
  BY <1>1, <1>3, <1>5 DEF TypeOK, acceptance
<1>7. AcceptanceInv'
  BY <1>1, <1>3, AcceptanceKept
<1>8. HeldInv'
  BY <1>1, <1>3, <1>4, <1>5, HeldKept
<1>9. InlineInv'
  BY <1>1, <1>3, <1>5 DEF InlineInv
<1>10. DeadInv' /\ DoneIsApplied'
  <2>1. jobs'[k].status = "done"
    BY <1>2, <1>3
  <2>2. QED
    BY <1>1, <1>3, <1>5, <2>1, FinishedKept
<1>11. QED
  BY <1>5, <1>6, <1>7, <1>8, <1>9, <1>10 DEF IInv

-----------------------------------------------------------------------------
(***************************************************************************)
(* The invariant, action by action.                                        *)
(***************************************************************************)
\* AcceptEvents: the INSERTs.
LEMMA InsertKeeps ==
    ASSUME IInv, NEW r \in Request, AcceptInsert(r)
    PROVE  IInv'
<1>1. /\ TypeOK /\ AcceptanceInv /\ AppliedInv /\ HeldInv /\ InlineInv
      /\ DeadInv /\ DoneIsApplied /\ FirstInOrder
  BY DEF IInv
<1>2. Batch[r] \in Seq(Key) /\ Len(Batch[r]) \in Nat
      /\ DOMAIN Batch[r] = 1..Len(Batch[r])
  BY ProjectionAssumption
<1>3. KeysOf(r) \subseteq Key /\ New(r) \subseteq Key
  BY <1>2 DEF KeysOf, New
<1>4. PICK at \in Positions(r) :
         seq' = [e \in Key |-> IF e \in New(r) THEN nextSeq + at[e] - 1
                                               ELSE seq[e]]
  BY DEF AcceptInsert
<1>5. \A e \in New(r) : at[e] \in 1..Len(Batch[r])
  BY <1>2, <1>4 DEF Positions
<1>6. nextSeq \in Nat /\ seq \in [Key -> Nat]
  BY <1>1 DEF TypeOK
<1>7. nextSeq' = nextSeq + Len(Batch[r]) /\ nextSeq' \in Nat
  BY <1>2, <1>6 DEF AcceptInsert
<1>8. \A e \in New(r) : /\ seq'[e] \in Nat
                        /\ nextSeq <= seq'[e]
                        /\ seq'[e] < nextSeq'
  <2> SUFFICES ASSUME NEW e \in New(r)
               PROVE  /\ seq'[e] \in Nat
                      /\ nextSeq <= seq'[e]
                      /\ seq'[e] < nextSeq'
    OBVIOUS
  <2>1. seq'[e] = nextSeq + at[e] - 1 /\ at[e] \in 1..Len(Batch[r])
    BY <1>3, <1>4, <1>5
  <2>2. QED
    BY <1>2, <1>6, <1>7, <2>1
<1>9. \A e \in Key : e \notin New(r) => seq'[e] = seq[e]
  BY <1>4
<1>10. seq' \in [Key -> Nat]
  <2>1. \A e \in Key : seq'[e] \in Nat
    BY <1>6, <1>8, <1>9
  <2>2. QED
    BY <1>4, <2>1
<1>11. /\ txs' = [txs EXCEPT ![r] = [open |-> TRUE, keys |-> New(r)]]
       /\ txs \in [Request -> Tx]
       /\ UNCHANGED <<refused, jobs, inline, projectors, applied, buried,
                      faults, retries>>
       /\ before' = before \cup {e \in Key : Accepted(e)} \X New(r)
       /\ \A q \in Request : txs[q].keys \cap KeysOf(r) = {}
  BY <1>1 DEF AcceptInsert, TypeOK
<1>12. /\ txs' \in [Request -> Tx]
       /\ txs'[r].keys = New(r) /\ txs'[r].open
       /\ \A q \in Request : q # r => txs'[q] = txs[q]
  BY <1>3, <1>11 DEF Tx
<1>13. TypeOK'
  BY <1>1, <1>3, <1>7, <1>10, <1>11, <1>12 DEF TypeOK
<1>14. \A e \in Key : /\ Accepted(e)' <=> Accepted(e)
                      /\ IsApplied(e)' <=> IsApplied(e)
                      /\ e \in New(r) => ~Accepted(e) /\ ~InTx(e)
  BY <1>11 DEF Accepted, IsApplied, New, InTx
<1>15. TxInv'
  <2>1. TxInv
    BY <1>1 DEF AcceptanceInv
  <2>2. \A q \in Request : \A e \in txs'[q].keys : ~Accepted(e)'
    BY <1>3, <1>12, <1>14, <2>1, <1>11 DEF TxInv, Tx
  <2>3. \A q \in Request : txs[q].keys \cap New(r) = {}
    BY <1>11 DEF New
  <2>4. \A p, q \in Request : p # q => txs'[p].keys \cap txs'[q].keys = {}
    BY <1>12, <2>1, <2>3 DEF TxInv
  <2>5. \A q \in Request : ~txs'[q].open => txs'[q].keys = {}
    BY <1>12, <2>1 DEF TxInv
  <2>6. QED
    BY <2>2, <2>4, <2>5 DEF TxInv
<1>16. SeqInv'
  <2> SUFFICES ASSUME NEW e \in Key, Accepted(e)' \/ InTx(e)'
               PROVE  seq'[e] < nextSeq'
    BY DEF SeqInv
  <2>1. ASSUME e \in New(r) PROVE seq'[e] < nextSeq'
    BY <1>8, <2>1
  <2>2. ASSUME e \notin New(r) PROVE seq'[e] < nextSeq'
    <3>1. Accepted(e) \/ InTx(e)
      BY <1>12, <1>14, <2>2 DEF InTx
    <3>2. seq[e] < nextSeq
      BY <1>1, <3>1 DEF AcceptanceInv, SeqInv
    <3>3. QED
      BY <1>2, <1>6, <1>7, <1>9, <2>2, <3>2
  <2>3. QED
    BY <2>1, <2>2
<1>17. BeforeInv'
  <2> SUFFICES ASSUME NEW e \in Key, NEW f \in Key, <<e, f>> \in before'
               PROVE  /\ Accepted(e)'
                      /\ seq'[e] < seq'[f]
                      /\ Accepted(f)' \/ InTx(f)'
    BY DEF BeforeInv
  <2>1. ASSUME <<e, f>> \in before
        PROVE  /\ Accepted(e)'
               /\ seq'[e] < seq'[f]
               /\ Accepted(f)' \/ InTx(f)'
    <3>1. Accepted(e) /\ seq[e] < seq[f] /\ (Accepted(f) \/ InTx(f))
      BY <1>1, <2>1 DEF AcceptanceInv, BeforeInv
    <3>2. seq'[e] = seq[e] /\ seq'[f] = seq[f]
      BY <1>9, <1>14, <3>1
    <3>3. InTx(f) => InTx(f)'
      BY <1>1, <1>12, <1>11 DEF InTx, AcceptanceInv, TxInv, AcceptInsert
    <3>4. QED
      BY <1>14, <3>1, <3>2, <3>3
  <2>2. ASSUME e \in Key, Accepted(e), f \in New(r)
        PROVE  /\ Accepted(e)'
               /\ seq'[e] < seq'[f]
               /\ Accepted(f)' \/ InTx(f)'
    <3>1. seq[e] < nextSeq /\ seq'[e] = seq[e]
      BY <1>1, <1>9, <1>14, <2>2 DEF AcceptanceInv, SeqInv
    <3>2. nextSeq <= seq'[f]
      BY <1>8, <2>2
    <3>3. seq'[e] < seq'[f]
      BY <1>6, <1>10, <3>1, <3>2
    <3>4. InTx(f)'
      BY <1>12, <2>2 DEF InTx
    <3>5. QED
      BY <1>14, <2>2, <3>3, <3>4
  <2>3. QED
    BY <1>11, <2>1, <2>2
<1>18. \A f \in Key : Accepted(f) =>
          \A e \in Key : <<e, f>> \in before' <=> <<e, f>> \in before
  BY <1>11, <1>14
<1>19. AppliedInv' /\ FirstInOrder'
  <2>1. \A i \in DOMAIN applied : applied[i] \in Key /\ Accepted(applied[i])
    BY <1>1 DEF TypeOK, AppliedInv
  <2>2. AppliedInv'
    BY <1>11, <1>14, <2>1 DEF AppliedInv
  <2>3. FirstInOrder'
    BY <1>1, <1>11, <1>18, <2>1 DEF FirstInOrder, Related
  <2>4. QED
    BY <2>2, <2>3
<1>20. HeldInv'
  <2> SUFFICES ASSUME NEW p \in Projector, projectors[p].pc # "idle"
               PROVE  /\ Accepted(projectors[p].event)'
                      /\ Settled(projectors[p].event)'
    BY <1>11 DEF HeldInv
  <2>1. PICK f \in Key : f = projectors[p].event
    BY <1>1, HoldsEvent
  <2>2. Accepted(f) /\ Settled(f)
    BY <1>1, <2>1 DEF HeldInv
  <2>3. Accepted(f)' /\ Settled(f)'
    BY <1>11, <1>14, <1>18, <2>2 DEF Settled, Related
  <2>4. f = (projectors[p].event)'
    BY <1>11, <2>1
  <2>5. QED
    BY <2>3, <2>4 DEF Accepted, Settled
<1>21. InlineInv' /\ DeadInv' /\ DoneIsApplied'
  BY <1>1, <1>11, <1>14 DEF InlineInv, DeadInv, DoneIsApplied
<1>22. QED
  BY <1>13, <1>15, <1>16, <1>17, <1>19, <1>20, <1>21 DEF IInv, AcceptanceInv

\* AcceptEvents: the commit.
LEMMA CommitKeeps ==
    ASSUME IInv, NEW r \in Request, AcceptCommit(r)
    PROVE  IInv'
<1>1. /\ TypeOK /\ AcceptanceInv /\ AppliedInv /\ HeldInv /\ InlineInv
      /\ DeadInv /\ DoneIsApplied /\ FirstInOrder
  BY DEF IInv
<1>2. /\ txs' = [txs EXCEPT ![r] = NoTx]
      /\ jobs' = [e \in Key |-> IF e \in txs[r].keys THEN NewJob ELSE jobs[e]]
      /\ inline' = [e \in Key |-> IF e \in txs[r].keys \cap Company
                                  THEN "accepted" ELSE inline[e]]
      /\ UNCHANGED <<seq, nextSeq, projectors, applied, before, refused,
                     buried, faults, retries>>
  BY DEF AcceptCommit
<1>3. txs \in [Request -> Tx] /\ txs[r].keys \subseteq Key
  BY <1>1 DEF TypeOK, Tx
<1>4. /\ txs' \in [Request -> Tx]
      /\ txs'[r].keys = {}
      /\ \A q \in Request : q # r => txs'[q] = txs[q]
  BY <1>2, <1>3 DEF Tx, NoTx
<1>5. NewJob \in Job /\ NewJob.status = "pending"
  BY DEF NewJob, NoJob, Job, Status
<1>6. jobs' \in [Key -> Job]
  BY <1>1, <1>2, <1>5 DEF TypeOK
<1>7. \A e \in Key : /\ e \in txs[r].keys =>
                          jobs'[e].status = "pending" /\ Accepted(e)'
                     /\ e \notin txs[r].keys => jobs'[e] = jobs[e]
  BY <1>2, <1>5 DEF Accepted
<1>8. \A e \in Key : /\ Accepted(e) => Accepted(e)'
                     /\ Accepted(e)' => Accepted(e) \/ e \in txs[r].keys
                     /\ IsApplied(e) => IsApplied(e)'
  BY <1>2, <1>7 DEF Accepted, IsApplied
<1>9. inline' \in [Key -> {"no", "accepted", "projected"}]
  BY <1>1, <1>2 DEF TypeOK
<1>10. TypeOK'
  BY <1>1, <1>2, <1>4, <1>6, <1>9 DEF TypeOK
<1>11. TxInv'
  <2>1. TxInv
    BY <1>1 DEF AcceptanceInv
  <2>2. \A q \in Request : \A e \in txs'[q].keys : ~Accepted(e)'
    <3> SUFFICES ASSUME NEW q \in Request, NEW e \in txs'[q].keys
                 PROVE  ~Accepted(e)'
      OBVIOUS
    <3>1. q # r /\ e \in txs[q].keys /\ e \in Key
      BY <1>3, <1>4 DEF Tx
    <3>2. ~Accepted(e) /\ e \notin txs[r].keys
      BY <2>1, <3>1 DEF TxInv
    <3>3. QED
      BY <1>8, <3>1, <3>2
  <2>3. /\ \A p, q \in Request : p # q => txs'[p].keys \cap txs'[q].keys = {}
        /\ \A q \in Request : ~txs'[q].open => txs'[q].keys = {}
    BY <1>4, <2>1 DEF TxInv
  <2>4. QED
    BY <2>2, <2>3 DEF TxInv
<1>12. \A e \in Key : /\ Accepted(e)' \/ InTx(e)' => Accepted(e) \/ InTx(e)
                      /\ Accepted(e) \/ InTx(e) => Accepted(e)' \/ InTx(e)'
  BY <1>4, <1>7, <1>8 DEF InTx
<1>13. SeqInv'
  BY <1>1, <1>2, <1>12 DEF AcceptanceInv, SeqInv
<1>14. BeforeInv'
  BY <1>1, <1>2, <1>8, <1>12 DEF AcceptanceInv, BeforeInv
<1>15. AppliedInv' /\ FirstInOrder'
  BY <1>1, <1>2, <1>8, OrderKept
<1>16. HeldInv'
  BY <1>1, <1>2, <1>8, HeldKept
<1>17. InlineInv'
  BY <1>1, <1>2, <1>7, <1>8 DEF InlineInv
<1>18. DeadInv'
  BY <1>1, <1>2, <1>7 DEF DeadInv
<1>19. DoneIsApplied'
  BY <1>1, <1>2, <1>7, <1>8 DEF DoneIsApplied
<1>20. QED
  BY <1>10, <1>11, <1>13, <1>14, <1>15, <1>16, <1>17, <1>18, <1>19
     DEF IInv, AcceptanceInv

\* AcceptEvents: the rollback.
LEMMA RollbackKeeps ==
    ASSUME IInv, NEW r \in Request, txs' = [txs EXCEPT ![r] = NoTx],
           before' = {x \in before : x[2] \notin txs[r].keys},
           refused' \subseteq Request,
           UNCHANGED <<jobs, seq, nextSeq, inline, projectors, applied,
                       buried, faults, retries>>
    PROVE  IInv'
<1>1. /\ TypeOK /\ AcceptanceInv /\ AppliedInv /\ HeldInv /\ InlineInv
      /\ DeadInv /\ DoneIsApplied /\ FirstInOrder
  BY DEF IInv
<1>2. txs \in [Request -> Tx] /\ txs[r].keys \subseteq Key
  BY <1>1 DEF TypeOK, Tx
<1>3. /\ txs' \in [Request -> Tx]
      /\ txs'[r].keys = {}
      /\ \A q \in Request : q # r => txs'[q] = txs[q]
  BY <1>2 DEF Tx, NoTx
<1>4. before' \subseteq before
  OBVIOUS
<1>5. \A e, f \in Key : <<e, f>> \in before' => f \notin txs[r].keys
  OBVIOUS
<1>6. \A e \in Key : /\ Accepted(e)' <=> Accepted(e)
                     /\ IsApplied(e)' <=> IsApplied(e)
                     /\ InTx(e)' => InTx(e)
                     /\ InTx(e) /\ e \notin txs[r].keys => InTx(e)'
  BY <1>3 DEF Accepted, IsApplied, InTx
<1>7. TypeOK'
  BY <1>1, <1>3, <1>4 DEF TypeOK
<1>8. TxInv'
  <2>1. TxInv
    BY <1>1 DEF AcceptanceInv
  <2>2. \A q \in Request : txs'[q].keys \subseteq txs[q].keys
                           /\ txs[q].keys \subseteq Key
    BY <1>2, <1>3 DEF Tx
  <2>3. \A q \in Request : \A e \in txs'[q].keys : ~Accepted(e)'
    BY <1>6, <2>1, <2>2 DEF TxInv
  <2>4. /\ \A p, q \in Request : p # q => txs'[p].keys \cap txs'[q].keys = {}
        /\ \A q \in Request : ~txs'[q].open => txs'[q].keys = {}
    BY <1>3, <2>1 DEF TxInv
  <2>5. QED
    BY <2>3, <2>4 DEF TxInv
<1>9. SeqInv'
  BY <1>1, <1>6 DEF AcceptanceInv, SeqInv
<1>10. BeforeInv'
  BY <1>1, <1>4, <1>5, <1>6 DEF AcceptanceInv, BeforeInv
<1>11. AppliedInv' /\ FirstInOrder'
  <2>1. \A i \in DOMAIN applied : applied[i] \in Key
    BY <1>1 DEF TypeOK
  <2>2. AppliedInv'
    BY <1>1, <1>6, <2>1 DEF AppliedInv
  <2>3. FirstInOrder'
    BY <1>1, <1>4, <2>1 DEF FirstInOrder, Related
  <2>4. QED
    BY <2>2, <2>3
<1>12. HeldInv'
  <2> SUFFICES ASSUME NEW p \in Projector, projectors[p].pc # "idle"
               PROVE  /\ Accepted(projectors[p].event)'
                      /\ Settled(projectors[p].event)'
    BY DEF HeldInv
  <2>1. PICK f \in Key : f = projectors[p].event
    BY <1>1, HoldsEvent
  <2>2. Accepted(f) /\ Settled(f)
    BY <1>1, <2>1 DEF HeldInv
  <2>3. Accepted(f)' /\ Settled(f)'
    BY <1>4, <1>6, <2>2 DEF Settled, Related
  <2>4. f = (projectors[p].event)'
    BY <2>1
  <2>5. QED
    BY <2>3, <2>4 DEF Accepted, Settled
<1>13. InlineInv' /\ DeadInv' /\ DoneIsApplied'
  BY <1>1, <1>6 DEF InlineInv, DeadInv, DoneIsApplied
<1>14. QED
  BY <1>7, <1>8, <1>9, <1>10, <1>11, <1>12, <1>13 DEF IInv, AcceptanceInv

\* ClaimProjectionJob: the NOT EXISTS puts every predecessor out of the way.
LEMMA ClaimKeeps ==
    ASSUME IInv, NEW p \in Projector, NEW k \in Key, ClaimProjectionJob(p, k)
    PROVE  IInv'
<1>1. /\ TypeOK /\ AcceptanceInv /\ AppliedInv /\ HeldInv /\ InlineInv
      /\ DeadInv /\ DoneIsApplied /\ FirstInOrder
  BY DEF IInv
<1>2. jobs[k] \in Job
  BY <1>1 DEF TypeOK
<1>3. PICK new \in Job : new = ClaimedJob(p, jobs[k])
                         /\ new.status = "processing"
  BY <1>2, JobRows
<1>4. Accepted(k) /\ ~Blocked(k) /\ projectors[p].pc = "idle"
  BY DEF ClaimProjectionJob, Runnable, Accepted
<1>5. jobs' = [jobs EXCEPT ![k] = new]
  BY <1>1, <1>3 DEF ClaimProjectionJob, TypeOK
<1>6. Settled(k)
  <2> SUFFICES ASSUME NEW e \in Key, <<e, k>> \in before, Related(e, k)
               PROVE  e \in buried \/ IsApplied(e)
    BY DEF Settled
  <2>1. Accepted(e) /\ seq[e] < seq[k]
    BY <1>1 DEF AcceptanceInv, BeforeInv
  <2>2. Related(k, e)
    BY DEF Related
  <2>3. ~Open(e)
    BY <1>4, <2>1, <2>2 DEF Blocked
  <2>4. jobs[e].status \in {"done", "dead"}
    BY <2>1, <2>3 DEF Open, Accepted
  <2>5. QED
    BY <1>1, <2>4 DEF DeadInv, DoneIsApplied
<1>7. /\ UNCHANGED <<acceptance, inline, applied, buried, faults, retries>>
      /\ projectors' = [projectors EXCEPT ![p] =
                           [pc |-> "claimed", event |-> k]]
  BY DEF ClaimProjectionJob
<1>8. /\ projectors' \in [Projector -> ProjectorState \cup {IdleProjector}]
      /\ projectors'[p].event = k
      /\ \A q \in Projector : q # p => projectors'[q] = projectors[q]
  BY <1>1, <1>7 DEF TypeOK, ProjectorState
<1>9. before' = before
  BY <1>7 DEF acceptance
<1>10. \A e \in Key : /\ Accepted(e) => Accepted(e)'
                      /\ IsApplied(e) => IsApplied(e)'
  BY <1>1, <1>3, <1>4, <1>5, <1>7, RowWrite DEF IsApplied
<1>11. HeldInv'
  <2> SUFFICES ASSUME NEW q \in Projector, projectors'[q].pc # "idle"
               PROVE  /\ Accepted(projectors[q].event)'
                      /\ Settled(projectors[q].event)'
    BY DEF HeldInv
  <2>1. PICK f \in Key : f = (projectors[q].event)' /\ Accepted(f) /\ Settled(f)
    <3>1. ASSUME q = p
          PROVE  \E f \in Key : f = (projectors[q].event)' /\ Accepted(f)
                                /\ Settled(f)
      BY <1>4, <1>6, <1>8, <3>1
    <3>2. ASSUME q # p
          PROVE  \E f \in Key : f = (projectors[q].event)' /\ Accepted(f)
                                /\ Settled(f)
      <4>1. projectors'[q] = projectors[q] /\ projectors[q].pc # "idle"
        BY <1>8, <3>2
      <4>2. PICK f \in Key : f = projectors[q].event
        BY <1>1, <4>1, HoldsEvent
      <4>3. Accepted(f) /\ Settled(f)
        BY <1>1, <4>1, <4>2 DEF HeldInv
      <4>4. QED
        BY <4>1, <4>2, <4>3
    <3>3. QED
      BY <3>1, <3>2
  <2>2. Accepted(f)' /\ Settled(f)'
    <3>1. buried \subseteq buried'
      BY <1>7
    <3>2. QED
      BY <1>9, <1>10, <2>1, <3>1, SettledKept
  <2>3. QED
    BY <2>1, <2>2 DEF Accepted, Settled
<1>12. /\ buried \subseteq buried' /\ buried' \subseteq Key
       /\ faults' \in Nat /\ retries' \in Nat
  BY <1>1, <1>7 DEF TypeOK
<1>13. QED
  BY <1>3, <1>4, <1>5, <1>7, <1>8, <1>11, <1>12, RowStep

\* A worker that keeps its event or lets it go.
LEMMA WorkerMoves ==
    ASSUME TypeOK, NEW p \in Projector, projectors[p].pc # "idle",
           \/ projectors' = [projectors EXCEPT ![p] = IdleProjector]
           \/ projectors' = [projectors EXCEPT ![p].pc = "failing"]
    PROVE  /\ projectors' \in
                [Projector -> ProjectorState \cup {IdleProjector}]
           /\ \A q \in Projector : \/ projectors'[q].pc = "idle"
                                   \/ projectors'[q] = projectors[q]
                                   \/ /\ projectors[q].pc # "idle"
                                      /\ projectors'[q].event =
                                           projectors[q].event
<1>1. projectors \in [Projector -> ProjectorState \cup {IdleProjector}]
  BY DEF TypeOK
<1>2. projectors[p] \in ProjectorState
  BY HoldsEvent
<1>3. ASSUME projectors' = [projectors EXCEPT ![p] = IdleProjector]
      PROVE  /\ projectors' \in
                  [Projector -> ProjectorState \cup {IdleProjector}]
             /\ \A q \in Projector : \/ projectors'[q].pc = "idle"
                                     \/ projectors'[q] = projectors[q]
  BY <1>1, <1>3 DEF IdleProjector
<1>4. ASSUME projectors' = [projectors EXCEPT ![p].pc = "failing"]
      PROVE  /\ projectors' \in
                  [Projector -> ProjectorState \cup {IdleProjector}]
             /\ projectors'[p].event = projectors[p].event
             /\ \A q \in Projector : q # p => projectors'[q] = projectors[q]
  <2> DEFINE new == [projectors[p] EXCEPT !.pc = "failing"]
  <2>1. new \in ProjectorState /\ new.event = projectors[p].event
    BY <1>2 DEF ProjectorState
  <2>2. projectors' = [projectors EXCEPT ![p] = new]
    BY <1>1, <1>4
  <2> HIDE DEF new
  <2>3. QED
    BY <1>1, <2>1, <2>2
<1>5. QED
  BY <1>3, <1>4

\* The same worker states, for the facts about what the workers hold.
LEMMA MovesKeepHeld ==
    ASSUME TypeOK, HeldInv, before' = before, buried \subseteq buried',
           \A e \in Key : IsApplied(e) => IsApplied(e)',
           \A e \in Key : Accepted(e) => Accepted(e)',
           \A q \in Projector : \/ projectors'[q].pc = "idle"
                                \/ projectors'[q] = projectors[q]
                                \/ /\ projectors[q].pc # "idle"
                                   /\ projectors'[q].event =
                                        projectors[q].event
    PROVE  HeldInv'
<1>1. \A q \in Projector : \/ projectors'[q].pc = "idle"
                           \/ /\ projectors[q].pc # "idle"
                              /\ projectors'[q].event = projectors[q].event
  OBVIOUS
<1>2. QED
  BY <1>1, HeldKept

\* ProjectEvent, whether or not the worker learns that it committed.
LEMMA WorkerProjectKeeps ==
    ASSUME IInv, NEW p \in Projector, ProjectEvent(p) \/ ProjectCommitLost(p)
    PROVE  IInv'
<1>1. TypeOK /\ HeldInv
  BY DEF IInv
<1>2. projectors[p].pc # "idle"
  BY DEF ProjectEvent, ProjectCommitLost
<1>3. PICK k \in Key : k = projectors[p].event
  BY <1>1, <1>2, HoldsEvent
<1>4. Accepted(k) /\ Settled(k)
  BY <1>1, <1>2, <1>3 DEF HeldInv
<1>5. /\ applied' = Append(applied, k)
      /\ jobs' = [jobs EXCEPT ![k] = DoneJob(@)]
      /\ UNCHANGED <<acceptance, inline, buried, retries>>
      /\ faults' = faults \/ faults' = faults + 1
      /\ \/ projectors' = [projectors EXCEPT ![p] = IdleProjector]
         \/ projectors' = [projectors EXCEPT ![p].pc = "failing"]
  BY <1>3 DEF ProjectEvent, ProjectCommitLost
<1>6. /\ projectors' \in [Projector -> ProjectorState \cup {IdleProjector}]
      /\ \A q \in Projector : \/ projectors'[q].pc = "idle"
                              \/ projectors'[q] = projectors[q]
                              \/ /\ projectors[q].pc # "idle"
                                 /\ projectors'[q].event =
                                      projectors[q].event
  BY <1>1, <1>2, <1>5, WorkerMoves
<1>7. \A q \in Projector : \/ projectors'[q].pc = "idle"
                           \/ /\ projectors[q].pc # "idle"
                              /\ projectors'[q].event = projectors[q].event
  BY <1>6
<1>8. /\ faults' \in Nat /\ retries' \in Nat
      /\ inline' \in [Key -> {"no", "accepted", "projected"}]
      /\ \A e \in Key : inline'[e] # inline[e] => e \in Company /\ e = k
      /\ buried' = buried
  BY <1>1, <1>5 DEF TypeOK
<1>9. UNCHANGED acceptance
  BY <1>5
<1>10. QED
  BY <1>4, <1>5, <1>6, <1>7, <1>8, <1>9, ProjectStep

\* A failed projection and a crash write no row.
LEMMA WorkerLeavesKeeps ==
    ASSUME IInv, NEW p \in Projector, ProjectFails(p) \/ Crash(p)
    PROVE  IInv'
<1>1. TypeOK /\ HeldInv /\ InlineInv
  BY DEF IInv
<1>2. /\ projectors[p].pc # "idle"
      /\ UNCHANGED <<acceptance, jobs, inline, applied, buried, retries>>
      /\ faults' = faults \/ faults' = faults + 1
      /\ \/ projectors' = [projectors EXCEPT ![p] = IdleProjector]
         \/ projectors' = [projectors EXCEPT ![p].pc = "failing"]
  BY DEF ProjectFails, Crash
<1>3. /\ projectors' \in [Projector -> ProjectorState \cup {IdleProjector}]
      /\ \A q \in Projector : \/ projectors'[q].pc = "idle"
                              \/ projectors'[q] = projectors[q]
                              \/ /\ projectors[q].pc # "idle"
                                 /\ projectors'[q].event =
                                      projectors[q].event
  BY <1>1, <1>2, WorkerMoves
<1>4. /\ before' = before /\ buried \subseteq buried'
      /\ \A e \in Key : IsApplied(e) => IsApplied(e)'
      /\ \A e \in Key : Accepted(e) => Accepted(e)'
  BY <1>2 DEF acceptance, IsApplied, Accepted
<1>5. HeldInv'
  BY <1>1, <1>3, <1>4, MovesKeepHeld
<1>6. InlineInv'
  BY <1>1, <1>2, <1>4, InlineKept
<1>7. /\ faults' \in Nat /\ retries' \in Nat
      /\ inline' \in [Key -> {"no", "accepted", "projected"}]
  BY <1>1, <1>2 DEF TypeOK
<1>8. UNCHANGED <<acceptance, jobs, applied, buried>>
  BY <1>2
<1>9. QED
  BY <1>3, <1>5, <1>6, <1>7, <1>8, QuietStep

\* FailProjectionJob: back to the queue, or a dead letter.
LEMMA FailKeeps ==
    ASSUME IInv, NEW p \in Projector, FailProjectionJob(p)
    PROVE  IInv'
<1>1. TypeOK /\ HeldInv
  BY DEF IInv
<1>2. projectors[p].pc # "idle"
  BY DEF FailProjectionJob
<1>3. PICK k \in Key : k = projectors[p].event
  BY <1>1, <1>2, HoldsEvent
<1>4. Accepted(k)
  BY <1>1, <1>2, <1>3 DEF HeldInv
<1>5. /\ jobs' = [jobs EXCEPT ![k] = FailedJob(@)]
      /\ buried' = IF jobs'[k].status = "dead" THEN buried \cup {k}
                                               ELSE buried
      /\ projectors' = [projectors EXCEPT ![p] = IdleProjector]
      /\ UNCHANGED <<acceptance, inline, applied, faults, retries>>
  BY <1>3 DEF FailProjectionJob
<1>6. jobs[k] \in Job
  BY <1>1 DEF TypeOK
<1>7. PICK new \in Job : /\ new = FailedJob(jobs[k])
                         /\ new.status \in {"pending", "dead"}
  BY <1>6, JobRows
<1>8. jobs' = [jobs EXCEPT ![k] = new] /\ jobs'[k] = new
  BY <1>1, <1>5, <1>7 DEF TypeOK
<1>9. /\ buried \subseteq buried' /\ buried' \subseteq Key
      /\ new.status = "dead" => k \in buried'
      /\ new.status # "done" /\ new.status # "none"
      /\ faults' \in Nat /\ retries' \in Nat
  BY <1>1, <1>5, <1>7, <1>8 DEF TypeOK
<1>10. /\ projectors' \in [Projector -> ProjectorState \cup {IdleProjector}]
       /\ \A q \in Projector : \/ projectors'[q].pc = "idle"
                               \/ projectors'[q] = projectors[q]
                               \/ /\ projectors[q].pc # "idle"
                                  /\ projectors'[q].event =
                                       projectors[q].event
  BY <1>1, <1>2, <1>5, WorkerMoves
<1>11. /\ before' = before
       /\ \A e \in Key : IsApplied(e) => IsApplied(e)'
  BY <1>5 DEF acceptance, IsApplied
<1>12. \A e \in Key : Accepted(e) => Accepted(e)'
  BY <1>1, <1>4, <1>8, <1>9, RowWrite
<1>13. HeldInv'
  BY <1>1, <1>9, <1>10, <1>11, <1>12, MovesKeepHeld
<1>14. UNCHANGED acceptance /\ applied' = applied /\ inline' = inline
  BY <1>5
<1>15. QED
  BY <1>4, <1>8, <1>9, <1>10, <1>13, <1>14, RowStep

\* Operators and the clock write one row of an accepted event and leave the
\* workers alone.
LEMMA RowOnlyKeeps ==
    ASSUME IInv, NEW k \in Key, NEW new \in Job, Accepted(k),
           new.status # "none",
           jobs' = [jobs EXCEPT ![k] = new],
           new.status = "dead" => k \in buried,
           new.status = "done" => IsApplied(k) \/ k \in buried,
           faults' \in Nat, retries' \in Nat,
           UNCHANGED <<acceptance, inline, projectors, applied, buried>>
    PROVE  IInv'
<1>1. TypeOK /\ HeldInv
  BY DEF IInv
<1>2. /\ before' = before /\ buried \subseteq buried' /\ buried' \subseteq Key
      /\ \A e \in Key : IsApplied(e) => IsApplied(e)'
      /\ projectors' \in [Projector -> ProjectorState \cup {IdleProjector}]
      /\ \A q \in Projector : projectors'[q] = projectors[q]
      /\ new.status = "dead" => k \in buried'
      /\ new.status = "done" => IsApplied(k) \/ k \in buried'
  BY <1>1 DEF acceptance, IsApplied, TypeOK
<1>3. \A e \in Key : Accepted(e) => Accepted(e)'
  BY <1>1, RowWrite
<1>4. HeldInv'
  BY <1>1, <1>2, <1>3, MovesKeepHeld
<1>5. UNCHANGED acceptance /\ applied' = applied /\ inline' = inline
  OBVIOUS
<1>6. QED
  BY <1>2, <1>4, <1>5, RowStep

LEMMA OperatorKeeps ==
    ASSUME IInv, NEW k \in Key, Operator(k)
    PROVE  IInv'
<1>1. TypeOK /\ DeadInv
  BY DEF IInv
<1>2. jobs[k] \in Job /\ faults \in Nat /\ retries \in Nat
      /\ retries + 1 \in Nat
  BY <1>1 DEF TypeOK
<1>3. jobs[k].status = "dead" /\ Accepted(k) /\ k \in buried
  BY <1>1 DEF Operator, RetryDeadLetter, DiscardDeadLetter, Accepted, DeadInv
<1>4. /\ NewJob \in Job /\ NewJob.status = "pending"
      /\ DoneJob(jobs[k]) \in Job /\ DoneJob(jobs[k]).status = "done"
  BY <1>2, JobRows
<1>5. PICK new \in Job : /\ new.status \in {"pending", "done"}
                         /\ jobs' = [jobs EXCEPT ![k] = new]
  <2>1. CASE RetryDeadLetter(k)
    BY <1>4, <2>1 DEF RetryDeadLetter
  <2>2. CASE DiscardDeadLetter(k)
    BY <1>1, <1>4, <2>2 DEF DiscardDeadLetter, TypeOK
  <2>3. QED
    BY <2>1, <2>2 DEF Operator
<1>6. /\ UNCHANGED <<acceptance, inline, projectors, applied, buried>>
      /\ faults' \in Nat /\ retries' \in Nat
  BY <1>2 DEF Operator, RetryDeadLetter, DiscardDeadLetter
<1>7. QED
  BY <1>3, <1>5, <1>6, RowOnlyKeeps

LEMMA ClockKeeps ==
    ASSUME IInv, NEW k \in Key, Clock(k) \/ Overrun(k)
    PROVE  IInv'
<1>1. TypeOK /\ DeadInv /\ DoneIsApplied /\ AcceptanceInv
  BY DEF IInv
<1>2. jobs[k] \in Job /\ jobs \in [Key -> Job]
  BY <1>1 DEF TypeOK
<1>3. ASSUME NEW new \in Job, new.status = jobs[k].status,
             jobs' = [jobs EXCEPT ![k] = new], Accepted(k)
      PROVE  IInv'
  <2>1. /\ UNCHANGED <<acceptance, inline, projectors, applied, buried>>
        /\ faults' \in Nat /\ retries' \in Nat
    BY <1>1 DEF TypeOK, Clock, Backoff, LeaseExpires, Overrun
  <2>2. /\ new.status # "none"
        /\ new.status = "dead" => k \in buried
        /\ new.status = "done" => IsApplied(k) \/ k \in buried
    BY <1>1, <1>3 DEF DeadInv, DoneIsApplied, Accepted
  <2>3. QED
    BY <1>3, <2>1, <2>2, RowOnlyKeeps
<1>4. CASE Backoff(k)
  <2> DEFINE row == [jobs[k] EXCEPT !.due = TRUE]
  <2>0. row \in Job /\ row.status = jobs[k].status
    BY <1>2 DEF Job
  <2>1. PICK new \in Job : new = row /\ new.status = jobs[k].status
    BY <2>0
  <2>2. jobs' = [jobs EXCEPT ![k] = new] /\ Accepted(k)
    BY <1>2, <1>4, <2>1 DEF Backoff, Accepted
  <2>3. QED
    BY <1>3, <2>1, <2>2
<1>5. CASE LeaseExpires(k) \/ Overrun(k)
  <2> DEFINE row == [jobs[k] EXCEPT !.lease = NoProjector]
  <2>0. row \in Job /\ row.status = jobs[k].status
    BY <1>2 DEF Job
  <2>1. PICK new \in Job : new = row /\ new.status = jobs[k].status
    BY <2>0
  <2>2. jobs' = [jobs EXCEPT ![k] = new] /\ Accepted(k)
    BY <1>2, <1>5, <2>1 DEF LeaseExpires, Overrun, Accepted
  <2>3. QED
    BY <1>3, <2>1, <2>2
<1>6. QED
  BY <1>4, <1>5 DEF Clock

\* applyCompanyEvent after its AcceptEvents.
LEMMA CompanyKeeps ==
    ASSUME IInv, NEW k \in Key, CompanyCall(k)
    PROVE  IInv'
<1>1. TypeOK /\ HeldInv /\ InlineInv /\ DeadInv /\ DoneIsApplied
      /\ AppliedInv /\ FirstInOrder /\ AcceptanceInv
  BY DEF IInv
<1>2. /\ jobs[k] \in Job /\ faults \in Nat /\ retries \in Nat
      /\ inline \in [Key -> {"no", "accepted", "projected"}]
      /\ projectors \in [Projector -> ProjectorState \cup {IdleProjector}]
  BY <1>1 DEF TypeOK
<1>3. inline[k] # "no"
  BY DEF CompanyCall, ProjectInline, CloseInline, InlineFails
<1>4. k \in Company /\ Accepted(k)
  BY <1>1, <1>3 DEF InlineInv
<1>5. CASE ProjectInline(k)
  <2>1. /\ applied' = Append(applied, k)
        /\ jobs' = [jobs EXCEPT ![k] = DoneJob(@)]
        /\ inline' = [inline EXCEPT ![k] = "projected"]
        /\ UNCHANGED acceptance /\ projectors' = projectors
        /\ buried' = buried /\ faults' = faults /\ retries' = retries
    BY <1>5 DEF ProjectInline
  <2>2. /\ inline' \in [Key -> {"no", "accepted", "projected"}]
        /\ \A e \in Key : inline'[e] # inline[e] => e \in Company /\ e = k
    BY <1>2, <1>4, <2>1
  <2>3. /\ projectors' \in [Projector -> ProjectorState \cup {IdleProjector}]
        /\ \A q \in Projector : \/ projectors'[q].pc = "idle"
                                \/ /\ projectors[q].pc # "idle"
                                   /\ projectors'[q].event =
                                        projectors[q].event
    BY <1>2, <2>1
  <2>4. QED
    BY <1>2, <1>4, <2>1, <2>2, <2>3, ProjectStep
<1>6. CASE CloseInline(k)
  <2>1. /\ jobs' = [jobs EXCEPT ![k] = DoneJob(@)]
        /\ inline' = [inline EXCEPT ![k] = "no"]
        /\ UNCHANGED <<acceptance, projectors, applied, buried, faults,
                       retries>>
        /\ inline[k] = "projected"
    BY <1>6 DEF CloseInline
  <2>2. IsApplied(k)
    BY <1>1, <1>3, <2>1 DEF InlineInv
  <2>3. DoneJob(jobs[k]) \in Job /\ DoneJob(jobs[k]).status = "done"
    BY <1>2, JobRows
  <2>4. PICK new \in Job : new = DoneJob(jobs[k]) /\ new.status = "done"
    BY <2>3
  <2>5. jobs' = [jobs EXCEPT ![k] = new]
    BY <1>1, <2>1, <2>4 DEF TypeOK
  <2>6. /\ jobs' \in [Key -> Job]
        /\ jobs'[k] = new
        /\ \A e \in Key : e # k => jobs'[e] = jobs[e]
        /\ \A e \in Key : Accepted(e)' <=> Accepted(e)
    BY <1>1, <1>4, <2>4, <2>5, RowWrite
  <2>7. /\ before' = before /\ buried \subseteq buried'
        /\ \A q \in Projector : projectors'[q] = projectors[q]
    BY <2>1 DEF acceptance
  <2>8. /\ AppliedInv' /\ FirstInOrder'
        /\ \A e \in Key : IsApplied(e) => IsApplied(e)'
    BY <1>1, <2>1, <2>6, <2>7, OrderKept
  <2>9. TypeOK'
    BY <1>1, <2>1, <2>6 DEF TypeOK, acceptance
  <2>10. AcceptanceInv'
    BY <1>1, <2>1, <2>6, AcceptanceKept
  <2>11. HeldInv'
    BY <1>1, <2>6, <2>7, <2>8, MovesKeepHeld
  <2>12. InlineInv'
    BY <1>1, <1>2, <2>1, <2>6, <2>8 DEF InlineInv
  <2>13. DeadInv' /\ DoneIsApplied'
    <3>1. jobs'[k].status = "done" /\ IsApplied(k)'
      BY <2>2, <2>4, <2>6, <2>8
    <3>2. QED
      BY <1>1, <2>6, <2>7, <2>8, <3>1, FinishedKept
  <2>14. QED
    BY <2>8, <2>9, <2>10, <2>11, <2>12, <2>13 DEF IInv
<1>7. CASE InlineFails(k)
  <2>1. /\ inline' = [inline EXCEPT ![k] = "no"]
        /\ UNCHANGED <<acceptance, jobs, projectors, applied, buried,
                       faults, retries>>
    BY <1>7 DEF InlineFails
  <2>2. inline' \in [Key -> {"no", "accepted", "projected"}]
    BY <1>2, <2>1
  <2>3. /\ before' = before /\ buried \subseteq buried'
        /\ \A e \in Key : IsApplied(e) => IsApplied(e)'
        /\ \A e \in Key : Accepted(e) => Accepted(e)'
        /\ \A q \in Projector : projectors'[q] = projectors[q]
    BY <2>1 DEF acceptance, IsApplied, Accepted
  <2>4. InlineInv'
    BY <1>1, <1>2, <2>1, <2>3 DEF InlineInv
  <2>5. HeldInv'
    BY <1>1, <2>3, MovesKeepHeld
  <2>6. /\ UNCHANGED <<acceptance, jobs, applied, buried>>
        /\ faults' \in Nat /\ retries' \in Nat
        /\ projectors' \in [Projector -> ProjectorState \cup {IdleProjector}]
    BY <1>2, <2>1
  <2>7. QED
    BY <2>2, <2>4, <2>5, <2>6, QuietStep
<1>8. QED
  BY <1>5, <1>6, <1>7 DEF CompanyCall

-----------------------------------------------------------------------------
(***************************************************************************)
(* The theorems.                                                           *)
(***************************************************************************)
LEMMA InitIInv == Init => IInv
<1> SUFFICES ASSUME Init PROVE IInv
  OBVIOUS
<1>1. TypeOK
  <2>1. NoJob \in Job
    BY DEF NoJob, Job, Status
  <2>2. NoTx \in Tx
    BY DEF NoTx, Tx
  <2>3. <<>> \in Seq(Key)
    OBVIOUS
  <2>4. QED
    BY <2>1, <2>2, <2>3 DEF Init, TypeOK
<1>2. \A e \in Key : jobs[e].status = "none" /\ ~Accepted(e)
  BY DEF Init, NoJob, Accepted
<1>3. \A r \in Request : txs[r].keys = {}
  BY DEF Init, NoTx
<1>4. AcceptanceInv
  <2>1. TxInv
    BY <1>3 DEF TxInv
  <2>2. SeqInv
    BY <1>2, <1>3 DEF SeqInv, InTx
  <2>3. BeforeInv
    BY DEF Init, BeforeInv
  <2>4. QED
    BY <2>1, <2>2, <2>3 DEF AcceptanceInv
<1>5. applied = <<>> /\ DOMAIN applied = {}
  BY DEF Init
<1>6. AppliedInv /\ FirstInOrder
  BY <1>5 DEF AppliedInv, FirstInOrder
<1>7. HeldInv /\ InlineInv
  BY DEF Init, HeldInv, InlineInv, IdleProjector
<1>8. DeadInv /\ DoneIsApplied
  BY <1>2 DEF DeadInv, DoneIsApplied
<1>9. QED
  BY <1>1, <1>4, <1>6, <1>7, <1>8 DEF IInv

LEMMA NextIInv == IInv /\ [Next]_vars => IInv'
<1> SUFFICES ASSUME IInv, [Next]_vars PROVE IInv'
  OBVIOUS
<1>1. ASSUME NEW r \in Request, Api(r) PROVE IInv'
  <2>1. CASE AcceptInsert(r)
    BY <2>1, InsertKeeps
  <2>2. CASE AcceptCommit(r)
    BY <2>2, CommitKeeps
  <2>3. CASE AcceptAbort(r) \/ AcceptConflict(r)
    <3>1. refused \subseteq Request
      BY DEF IInv, TypeOK
    <3>2. /\ txs' = [txs EXCEPT ![r] = NoTx]
          /\ before' = {x \in before : x[2] \notin txs[r].keys}
          /\ refused' \subseteq Request
          /\ UNCHANGED <<jobs, seq, nextSeq, inline, projectors, applied,
                         buried, faults, retries>>
      BY <2>3, <3>1 DEF AcceptAbort, AcceptConflict
    <3>3. QED
      BY <3>2, RollbackKeeps
  <2>4. QED
    BY <1>1, <2>1, <2>2, <2>3 DEF Api, AcceptEnds
<1>2. ASSUME NEW p \in Projector,
             WorkerStep(p) \/ ProjectCommitLost(p) \/ Crash(p)
      PROVE  IInv'
  BY <1>2, ClaimKeeps, WorkerProjectKeeps, WorkerLeavesKeeps, FailKeeps
     DEF WorkerStep
<1>3. ASSUME NEW k \in Key,
             CompanyCall(k) \/ Operator(k) \/ Clock(k) \/ Overrun(k)
      PROVE  IInv'
  BY <1>3, CompanyKeeps, OperatorKeeps, ClockKeeps
<1>4. CASE UNCHANGED vars
  <2>1. UNCHANGED <<acceptance, jobs, applied, buried>>
        /\ inline' = inline /\ projectors' = projectors
        /\ faults' = faults /\ retries' = retries
    BY <1>4 DEF vars
  <2>2. TypeOK /\ HeldInv /\ InlineInv
    BY DEF IInv
  <2>3. /\ before' = before /\ buried \subseteq buried'
        /\ \A e \in Key : IsApplied(e) => IsApplied(e)'
        /\ \A e \in Key : Accepted(e) => Accepted(e)'
        /\ \A q \in Projector : projectors'[q] = projectors[q]
    BY <2>1 DEF acceptance, IsApplied, Accepted
  <2>4. InlineInv' /\ HeldInv'
    BY <2>1, <2>2, <2>3, InlineKept, MovesKeepHeld
  <2>5. /\ faults' \in Nat /\ retries' \in Nat
        /\ inline' \in [Key -> {"no", "accepted", "projected"}]
        /\ projectors' \in [Projector -> ProjectorState \cup {IdleProjector}]
    BY <2>1, <2>2 DEF TypeOK
  <2>6. QED
    BY <2>1, <2>4, <2>5, QuietStep
<1>5. QED
  BY <1>1, <1>2, <1>3, <1>4 DEF Next

\* The queue, the transactions and the workers keep their types.
THEOREM ProjectionTypeCorrect == Spec => []TypeOK
<1>1. Spec => []IInv
  BY InitIInv, NextIInv, PTL DEF Spec
<1>2. IInv => TypeOK
  BY DEF IInv
<1>3. QED
  BY <1>1, <1>2, PTL

\* No accepted event is dropped: a finished projection job was projected or
\* had been a dead letter, whatever crashes, overruns and late answers do.
THEOREM NoEventDropped == Spec => []DoneIsApplied
<1>1. Spec => []IInv
  BY InitIInv, NextIInv, PTL DEF Spec
<1>2. IInv => DoneIsApplied
  BY DEF IInv
<1>3. QED
  BY <1>1, <1>2, PTL

\* Subjects are projected in order: the claim query never lets the projector
\* apply an event before its predecessors, for any number of projectors.
THEOREM SubjectsInOrder == Spec => []FirstInOrder
<1>1. Spec => []IInv
  BY InitIInv, NextIInv, PTL DEF Spec
<1>2. IInv => FirstInOrder
  BY DEF IInv
<1>3. QED
  BY <1>1, <1>2, PTL
-----------------------------------------------------------------------------
(***************************************************************************)
(* Repeated projections.  A chance to project event e is a worker that has *)
(* it, or NoProjector for a job that some worker may yet claim although no *)
(* holder of its lease answers for it; the call that submits a company     *)
(* event has one more.  A claim moves the chance of the job to the worker, *)
(* a failure moves it back whatever has become of the job, a projection    *)
(* spends it, and only faults make new ones.                               *)
(***************************************************************************)
Times(e) == {i \in DOMAIN applied : applied[i] = e}
Count(e) == Cardinality(Times(e))
Holds(p, e) == projectors[p].pc # "idle" /\ projectors[p].event = e
Answered(e) == /\ jobs[e].status = "processing"
               /\ \E p \in Projector : jobs[e].lease = p /\ Holds(p, e)
Free(e) == jobs[e].status # "done" /\ ~Answered(e)
Chances(e) == {p \in Projector : Holds(p, e)} \cup {p \in {NoProjector} : Free(e)}
Calls(e) == IF e \in Company /\ (inline[e] = "accepted" \/ ~Accepted(e))
            THEN 1 ELSE 0
Paid(e) == /\ IsFiniteSet(Chances(e))
           /\ Count(e) + Cardinality(Chances(e)) + Calls(e)
                <= 1 + faults + (IF e \in Company THEN 1 ELSE 0)
PaidInv == \A e \in Key : Paid(e)

\* What a step may do to the chances of event e.
Keeps(e) == /\ Chances(e)' \subseteq Chances(e) /\ Calls(e)' <= Calls(e)
            /\ \/ Count(e)' = Count(e)
               \/ Count(e)' = Count(e) + 1 /\ faults' = faults + 1
Moves(e) == /\ \E x \in Chances(e), y \in Projector \cup {NoProjector} :
                  Chances(e)' \subseteq (Chances(e) \ {x}) \cup {y}
            /\ Calls(e)' <= Calls(e) /\ Count(e)' = Count(e)
Buys(e) == /\ Chances(e)' \subseteq Chances(e) \cup {NoProjector}
           /\ Calls(e)' <= Calls(e) /\ Count(e)' = Count(e)
           /\ faults' = faults + 1
Spends(e) == /\ \E x \in Chances(e) : Chances(e)' \subseteq Chances(e) \ {x}
             /\ Calls(e)' <= Calls(e) /\ Count(e)' = Count(e) + 1
SpendsCall(e) == /\ Chances(e)' \subseteq Chances(e)
                 /\ Calls(e) = 1 /\ Calls(e)' = 0 /\ Count(e)' = Count(e) + 1
Pays(e) == Keeps(e) \/ Moves(e) \/ Buys(e) \/ Spends(e) \/ SpendsCall(e)

LEMMA OneMore ==
    ASSUME NEW S, NEW x, IsFiniteSet(S)
    PROVE  /\ IsFiniteSet(S \cup {x})
           /\ Cardinality(S \cup {x}) \in Nat
           /\ Cardinality(S \cup {x}) <= Cardinality(S) + 1
<1>1. IsFiniteSet(S \cup {x})
      /\ Cardinality(S \cup {x}) \in {Cardinality(S), Cardinality(S) + 1}
  BY FS_AddElement
<1>2. Cardinality(S) \in Nat
  BY FS_CardinalityType
<1> QED
  BY <1>1, <1>2

LEMMA CountType ==
    ASSUME TypeOK, NEW e \in Key
    PROVE  IsFiniteSet(Times(e)) /\ Count(e) \in Nat
<1>1. Times(e) \subseteq 1..Len(applied) /\ Len(applied) \in Nat
  BY DEF Times, TypeOK
<1>2. IsFiniteSet(1..Len(applied))
  BY <1>1, FS_Interval
<1> QED
  BY <1>1, <1>2, FS_Subset, FS_CardinalityType DEF Count

LEMMA CountAppend ==
    ASSUME TypeOK, NEW k \in Key, applied' = Append(applied, k)
    PROVE  /\ Count(k)' = Count(k) + 1
           /\ \A e \in Key \ {k} : Count(e)' = Count(e)
<1> DEFINE n == Len(applied) + 1
<1>1. /\ applied \in Seq(Key) /\ Len(applied) \in Nat
      /\ DOMAIN applied = 1..Len(applied) /\ DOMAIN applied' = 1..n
      /\ applied'[n] = k /\ \A i \in 1..Len(applied) : applied'[i] = applied[i]
  BY DEF TypeOK
<1>2. \A i : i \in 1..n <=> i \in 1..Len(applied) \/ i = n
  BY <1>1
<1>3. n \notin 1..Len(applied)
  BY <1>1
<1> HIDE DEF n
<1>4. Times(k)' = Times(k) \cup {n} /\ n \notin Times(k)
  BY <1>1, <1>2, <1>3 DEF Times
<1>5. \A e \in Key \ {k} : Times(e)' = Times(e)
  BY <1>1, <1>2 DEF Times
<1>6. Cardinality(Times(k) \cup {n}) = Cardinality(Times(k)) + 1
  BY <1>4, CountType, FS_AddElement
<1> QED
  BY <1>4, <1>5, <1>6 DEF Count

LEMMA PaysKeeps ==
    ASSUME TypeOK, NEW e \in Key, Paid(e), Pays(e),
           faults' \in {faults, faults + 1}
    PROVE  Paid(e)'
<1> DEFINE b == IF e \in Company THEN 1 ELSE 0
<1>1. /\ IsFiniteSet(Chances(e)) /\ Cardinality(Chances(e)) \in Nat
      /\ Count(e) \in Nat /\ Count(e)' \in Nat /\ faults \in Nat
      /\ Calls(e) \in {0, 1} /\ Calls(e)' \in {0, 1} /\ b \in {0, 1}
      /\ Count(e) + Cardinality(Chances(e)) + Calls(e) <= 1 + faults + b
  <2>1. Count(e)' = Count(e) \/ Count(e)' = Count(e) + 1
    BY DEF Pays, Keeps, Moves, Buys, Spends, SpendsCall
  <2> QED
    BY <2>1, CountType, FS_CardinalityType DEF TypeOK, Paid, Calls
<1> HIDE DEF b
<1>2. ASSUME IsFiniteSet(Chances(e)'),
             Count(e)' + Cardinality(Chances(e)') + Calls(e)' <= 1 + faults' + b
      PROVE  Paid(e)'
  BY <1>2 DEF Paid, b
<1>3. CASE Keeps(e) \/ SpendsCall(e)
  <2>1. /\ IsFiniteSet(Chances(e)')
        /\ Cardinality(Chances(e)') <= Cardinality(Chances(e))
        /\ Cardinality(Chances(e)') \in Nat
    BY <1>1, <1>3, FS_Subset, FS_CardinalityType DEF Keeps, SpendsCall
  <2> QED
    BY <1>1, <1>2, <1>3, <2>1 DEF Keeps, SpendsCall
<1>4. CASE Moves(e)
  <2>1. PICK x \in Chances(e), y \in Projector \cup {NoProjector} :
               Chances(e)' \subseteq (Chances(e) \ {x}) \cup {y}
    BY <1>4 DEF Moves
  <2> DEFINE S == Chances(e) \ {x}
             T == S \cup {y}
  <2>2. IsFiniteSet(S) /\ Cardinality(S) = Cardinality(Chances(e)) - 1
    BY <1>1, FS_RemoveElement
  <2>3. IsFiniteSet(T) /\ Cardinality(T) <= Cardinality(S) + 1
        /\ Cardinality(T) \in Nat /\ Cardinality(S) \in Nat
    BY <2>2, OneMore, FS_CardinalityType
  <2>4. /\ IsFiniteSet(Chances(e)') /\ Cardinality(Chances(e)') \in Nat
        /\ Cardinality(Chances(e)') <= Cardinality(T)
    BY <2>1, <2>3, FS_Subset, FS_CardinalityType
  <2> QED
    BY <1>1, <1>2, <1>4, <2>2, <2>3, <2>4 DEF Moves
<1>5. CASE Buys(e)
  <2> DEFINE T == Chances(e) \cup {NoProjector}
  <2>1. IsFiniteSet(T) /\ Cardinality(T) <= Cardinality(Chances(e)) + 1
        /\ Cardinality(T) \in Nat
    BY <1>1, OneMore
  <2>2. /\ IsFiniteSet(Chances(e)') /\ Cardinality(Chances(e)') \in Nat
        /\ Cardinality(Chances(e)') <= Cardinality(T)
    BY <1>5, <2>1, FS_Subset, FS_CardinalityType DEF Buys
  <2> QED
    BY <1>1, <1>2, <1>5, <2>1, <2>2 DEF Buys
<1>6. CASE Spends(e)
  <2>1. PICK x \in Chances(e) : Chances(e)' \subseteq Chances(e) \ {x}
    BY <1>6 DEF Spends
  <2> DEFINE S == Chances(e) \ {x}
  <2>2. IsFiniteSet(S) /\ Cardinality(S) = Cardinality(Chances(e)) - 1
        /\ Cardinality(S) \in Nat
    BY <1>1, FS_RemoveElement, FS_CardinalityType
  <2>3. /\ IsFiniteSet(Chances(e)') /\ Cardinality(Chances(e)') \in Nat
        /\ Cardinality(Chances(e)') <= Cardinality(S)
    BY <2>1, <2>2, FS_Subset, FS_CardinalityType
  <2> QED
    BY <1>1, <1>2, <1>6, <2>2, <2>3 DEF Spends
<1> QED
  BY <1>3, <1>4, <1>5, <1>6 DEF Pays

\* A step about event k leaves the chances of the other events alone.
LEMMA Elsewhere ==
    ASSUME NEW k \in Key,
           \A e \in Key \ {k} : /\ jobs'[e] = jobs[e] /\ inline'[e] = inline[e]
                                /\ Count(e)' = Count(e),
           \A q \in Projector :
              \/ projectors'[q] = projectors[q]
              \/ /\ projectors[q].pc = "idle" \/ projectors[q].event = k
                 /\ projectors'[q].pc = "idle" \/ projectors'[q].event = k
    PROVE  \A e \in Key \ {k} : Keeps(e)
<1> SUFFICES ASSUME NEW e \in Key \ {k} PROVE Keeps(e)
  OBVIOUS
<1>1. \A q \in Projector : Holds(q, e)' <=> Holds(q, e)
  BY DEF Holds
<1>2. Free(e)' <=> Free(e)
  BY <1>1 DEF Free, Answered
<1>3. Calls(e)' = Calls(e) /\ Calls(e) \in {0, 1}
  BY DEF Calls, Accepted
<1> QED
  BY <1>1, <1>2, <1>3 DEF Keeps, Chances

\* The steps that write no job and move no worker, and the rollbacks.
LEMMA PaidQuiet ==
    ASSUME TypeOK, PaidInv, UNCHANGED <<jobs, inline, projectors, applied, faults>>
    PROVE  PaidInv'
<1>1. ASSUME NEW e \in Key PROVE Keeps(e)
  <2>1. Calls(e)' = Calls(e) /\ Calls(e) \in {0, 1} /\ Count(e)' = Count(e)
    BY DEF Calls, Accepted, Count, Times
  <2> QED
    BY <2>1 DEF Keeps, Chances, Holds, Free, Answered
<1> QED
  BY <1>1, PaysKeeps DEF PaidInv, Pays

\* The job of an event, and the chance of its company call, are new ones.
LEMMA PaidCommit ==
    ASSUME TypeOK, TxInv, PaidInv, NEW r \in Request, AcceptCommit(r)
    PROVE  PaidInv'
<1>1. /\ \A e \in Key : e \in txs[r].keys =>
            jobs'[e].status = "pending" /\ ~Accepted(e)
      /\ \A e \in Key : e \notin txs[r].keys =>
            jobs'[e] = jobs[e] /\ inline'[e] = inline[e]
      /\ UNCHANGED <<projectors, applied, faults>>
  BY DEF AcceptCommit, TxInv, NewJob, NoJob
<1>2. ASSUME NEW e \in Key PROVE Keeps(e)
  <2>1. Count(e)' = Count(e) /\ \A q \in Projector : Holds(q, e)' <=> Holds(q, e)
    BY <1>1 DEF Count, Times, Holds
  <2>2. Free(e)' => Free(e)
    BY <1>1, <2>1 DEF Free, Answered, Accepted
  <2>3. Calls(e)' <= Calls(e)
    <3>1. Calls(e)' = 1 => Calls(e) = 1
      BY <1>1 DEF Calls, Accepted
    <3>2. Calls(e) \in {0, 1} /\ Calls(e)' \in {0, 1}
      BY DEF Calls
    <3> QED
      BY <3>1, <3>2
  <2> QED
    BY <2>1, <2>2, <2>3 DEF Keeps, Chances
<1> QED
  BY <1>1, <1>2, PaysKeeps DEF PaidInv, Pays

\* A step of worker p on event k that leaves p with k or without it.
LEMMA WorkerEvent ==
    ASSUME TypeOK, NEW p \in Projector, projectors[p].pc # "idle"
    PROVE  \E k \in Key :
              /\ k = projectors[p].event /\ Holds(p, k)
              /\ projectors' = [projectors EXCEPT ![p] = IdleProjector] =>
                    \A e \in Key : ~Holds(p, e)'
              /\ projectors' = [projectors EXCEPT ![p].pc = "failing"] =>
                    \A e \in Key : Holds(p, e)' <=> Holds(p, e)
              /\ \/ projectors' = [projectors EXCEPT ![p] = IdleProjector]
                 \/ projectors' = [projectors EXCEPT ![p].pc = "failing"]
                 => /\ projectors'[p].pc = "idle" \/ projectors'[p].event = k
                    /\ \A q \in Projector \ {p} : projectors'[q] = projectors[q]
<1>1. projectors[p] \in ProjectorState /\ projectors[p].event \in Key
      /\ projectors \in [Projector -> ProjectorState \cup {IdleProjector}]
  BY HoldsEvent DEF TypeOK
<1>2. ASSUME projectors' = [projectors EXCEPT ![p] = IdleProjector]
      PROVE  projectors'[p].pc = "idle"
             /\ \A q \in Projector \ {p} : projectors'[q] = projectors[q]
  BY <1>1, <1>2 DEF IdleProjector
<1>3. ASSUME projectors' = [projectors EXCEPT ![p].pc = "failing"]
      PROVE  projectors'[p].pc = "failing"
             /\ projectors'[p].event = projectors[p].event
             /\ \A q \in Projector \ {p} : projectors'[q] = projectors[q]
  BY <1>1, <1>3 DEF ProjectorState
<1>4. PICK k \in Key : k = projectors[p].event
  BY <1>1
<1> WITNESS k \in Key
<1> QED
  BY <1>2, <1>3, <1>4 DEF Holds

LEMMA PaidClaim ==
    ASSUME TypeOK, PaidInv, NEW p \in Projector, NEW k \in Key,
           ClaimProjectionJob(p, k)
    PROVE  PaidInv'
<1>1. /\ jobs \in [Key -> Job] /\ jobs[k] \in Job
      /\ projectors \in [Projector -> ProjectorState \cup {IdleProjector}]
  BY DEF TypeOK
<1>2. /\ jobs'[k].status = "processing" /\ jobs'[k].lease = p
      /\ \A e \in Key \ {k} : jobs'[e] = jobs[e]
      /\ projectors[p].pc = "idle" /\ projectors'[p].pc = "claimed"
      /\ projectors'[p].event = k
      /\ \A q \in Projector \ {p} : projectors'[q] = projectors[q]
      /\ UNCHANGED <<inline, applied, faults>>
  BY <1>1 DEF ClaimProjectionJob, ClaimedJob, Job
<1>3. \A e \in Key : Count(e)' = Count(e)
  BY <1>2 DEF Count, Times
<1>4. Moves(k)
  <2>1. Free(k) /\ Accepted(k)
    BY ProjectionAssumption DEF ClaimProjectionJob, Runnable, Free, Answered, Accepted
  <2>2. ~Free(k)' /\ Accepted(k)'
    BY <1>2 DEF Free, Answered, Holds, Accepted
  <2>3. Chances(k)' \subseteq (Chances(k) \ {NoProjector}) \cup {p}
    BY <1>2, <2>2, ProjectionAssumption DEF Chances, Holds
  <2>4. NoProjector \in Chances(k)
    BY <2>1 DEF Chances
  <2>5. Calls(k)' = Calls(k) /\ Calls(k) \in {0, 1}
    BY <1>2, <2>1, <2>2 DEF Calls
  <2> QED
    BY <1>3, <2>3, <2>4, <2>5 DEF Moves
<1>5. \A e \in Key \ {k} : Keeps(e)
  BY <1>2, <1>3, Elsewhere
<1> QED
  BY <1>2, <1>4, <1>5, PaysKeeps DEF PaidInv, Pays

LEMMA PaidProject ==
    ASSUME TypeOK, PaidInv, NEW p \in Projector, ProjectEvent(p) \/ ProjectCommitLost(p)
    PROVE  PaidInv'
<1>1. projectors[p].pc # "idle"
  BY DEF ProjectEvent, ProjectCommitLost
<1>2. PICK k \in Key :
              /\ k = projectors[p].event /\ Holds(p, k)
              /\ projectors' = [projectors EXCEPT ![p] = IdleProjector] =>
                    \A e \in Key : ~Holds(p, e)'
              /\ projectors' = [projectors EXCEPT ![p].pc = "failing"] =>
                    \A e \in Key : Holds(p, e)' <=> Holds(p, e)
              /\ \/ projectors' = [projectors EXCEPT ![p] = IdleProjector]
                 \/ projectors' = [projectors EXCEPT ![p].pc = "failing"]
                 => /\ projectors'[p].pc = "idle" \/ projectors'[p].event = k
                    /\ \A q \in Projector \ {p} : projectors'[q] = projectors[q]
  BY <1>1, WorkerEvent
<1>3. jobs \in [Key -> Job] /\ DoneJob(jobs[k]).status = "done"
  BY JobRows DEF TypeOK
<1>4. /\ jobs'[k].status = "done" /\ \A e \in Key \ {k} : jobs'[e] = jobs[e]
      /\ applied' = Append(applied, k) /\ inline' = inline
      /\ faults' \in {faults, faults + 1}
  BY <1>2, <1>3 DEF ProjectEvent, ProjectCommitLost
<1>5. /\ projectors'[p].pc = "idle" \/ projectors'[p].event = k
      /\ \A q \in Projector \ {p} : projectors'[q] = projectors[q]
  BY <1>2 DEF ProjectEvent, ProjectCommitLost
<1>6. Count(k)' = Count(k) + 1 /\ \A e \in Key \ {k} : Count(e)' = Count(e)
  BY <1>4, CountAppend
<1>7. \A e \in Key \ {k} : Keeps(e)
  BY <1>2, <1>4, <1>5, <1>6, Elsewhere
<1>8. /\ ~Free(k)' /\ Calls(k)' <= Calls(k)
      /\ \A q \in Projector \ {p} : Holds(q, k)' <=> Holds(q, k)
  <2>1. Accepted(k)' /\ ~Free(k)'
    BY <1>4 DEF Accepted, Free
  <2>2. Calls(k) \in {0, 1} /\ Calls(k)' \in {0, 1} /\ (Calls(k)' = 1 => Calls(k) = 1)
    BY <1>4, <2>1 DEF Calls
  <2>3. \A q \in Projector \ {p} : Holds(q, k)' <=> Holds(q, k)
    BY <1>5 DEF Holds
  <2> QED
    BY <2>1, <2>2, <2>3
<1>9. CASE ProjectEvent(p)
  <2>1. ~Holds(p, k)'
    BY <1>2, <1>9 DEF ProjectEvent
  <2>2. p \in Chances(k) /\ Chances(k)' \subseteq Chances(k) \ {p}
    BY <1>2, <1>8, <2>1 DEF Chances
  <2>3. Spends(k)
    BY <1>6, <1>8, <2>2 DEF Spends
  <2> QED
    BY <1>4, <1>7, <2>3, PaysKeeps DEF PaidInv, Pays
<1>10. CASE ProjectCommitLost(p)
  <2>1. Holds(p, k)' <=> Holds(p, k)
    BY <1>2, <1>10 DEF ProjectCommitLost
  <2>2. Chances(k)' \subseteq Chances(k) /\ faults' = faults + 1
    BY <1>8, <1>10, <2>1 DEF Chances, ProjectCommitLost
  <2>3. Keeps(k)
    BY <1>6, <1>8, <2>2 DEF Keeps
  <2> QED
    BY <1>4, <1>7, <2>3, PaysKeeps DEF PaidInv, Pays
<1> QED
  BY <1>9, <1>10

LEMMA PaidLeaves ==
    ASSUME TypeOK, HeldInv, PaidInv, NEW p \in Projector,
           ProjectFails(p) \/ FailProjectionJob(p) \/ Crash(p)
    PROVE  PaidInv'
<1>1. projectors[p].pc # "idle"
  BY DEF ProjectFails, FailProjectionJob, Crash
<1>2. PICK k \in Key :
              /\ k = projectors[p].event /\ Holds(p, k)
              /\ projectors' = [projectors EXCEPT ![p] = IdleProjector] =>
                    \A e \in Key : ~Holds(p, e)'
              /\ projectors' = [projectors EXCEPT ![p].pc = "failing"] =>
                    \A e \in Key : Holds(p, e)' <=> Holds(p, e)
              /\ \/ projectors' = [projectors EXCEPT ![p] = IdleProjector]
                 \/ projectors' = [projectors EXCEPT ![p].pc = "failing"]
                 => /\ projectors'[p].pc = "idle" \/ projectors'[p].event = k
                    /\ \A q \in Projector \ {p} : projectors'[q] = projectors[q]
  BY <1>1, WorkerEvent
<1>3. /\ projectors'[p].pc = "idle" \/ projectors'[p].event = k
      /\ \A q \in Projector \ {p} : projectors'[q] = projectors[q]
      /\ UNCHANGED <<inline, applied>> /\ faults' \in {faults, faults + 1}
  BY <1>2 DEF ProjectFails, FailProjectionJob, Crash
<1>4. \A e \in Key : Count(e)' = Count(e)
  BY <1>3 DEF Count, Times
<1>5. \A e \in Key : \A q \in Projector \ {p} : Holds(q, e)' <=> Holds(q, e)
  BY <1>3 DEF Holds
<1>6. Accepted(k)
  BY <1>1, <1>2 DEF HeldInv
<1>7. CASE ProjectFails(p)
  <2>1. ASSUME NEW e \in Key PROVE Keeps(e)
    <3>1. jobs' = jobs /\ \A q \in Projector : Holds(q, e)' <=> Holds(q, e)
      BY <1>2, <1>5, <1>7 DEF ProjectFails
    <3>2. Calls(e)' = Calls(e) /\ Calls(e) \in {0, 1}
      BY <1>3, <3>1 DEF Calls, Accepted
    <3> QED
      BY <1>4, <3>1, <3>2 DEF Keeps, Chances, Free, Answered
  <2> QED
    BY <1>3, <2>1, PaysKeeps DEF PaidInv, Pays
<1>8. CASE FailProjectionJob(p)
  <2>1. jobs \in [Key -> Job] /\ FailedJob(jobs[k]).status \in {"pending", "dead"}
    BY JobRows DEF TypeOK
  <2>2. /\ jobs'[k].status \in {"pending", "dead"}
        /\ \A e \in Key \ {k} : jobs'[e] = jobs[e]
    BY <1>2, <1>8, <2>1 DEF FailProjectionJob
  <2>3. p \in Chances(k) /\ ~Holds(p, k)'
    BY <1>2, <1>8 DEF Chances, FailProjectionJob
  <2>4. Chances(k)' \subseteq (Chances(k) \ {p}) \cup {NoProjector}
    BY <1>5, <2>3 DEF Chances
  <2>5. Calls(k)' = Calls(k) /\ Calls(k) \in {0, 1}
    BY <1>3, <1>6, <2>2 DEF Calls, Accepted
  <2>6. Moves(k)
    BY <1>4, <2>3, <2>4, <2>5 DEF Moves
  <2>7. \A e \in Key \ {k} : Keeps(e)
    BY <1>2, <1>3, <1>4, <2>2, Elsewhere
  <2> QED
    BY <1>3, <2>6, <2>7, PaysKeeps DEF PaidInv, Pays
<1>9. CASE Crash(p)
  <2>1. ASSUME NEW e \in Key PROVE Buys(e)
    <3>1. jobs' = jobs /\ faults' = faults + 1 /\ ~Holds(p, e)'
      BY <1>2, <1>9 DEF Crash
    <3>2. Calls(e)' = Calls(e) /\ Calls(e) \in {0, 1}
      BY <1>3, <3>1 DEF Calls, Accepted
    <3> QED
      BY <1>4, <1>5, <3>1, <3>2 DEF Buys, Chances
  <2> QED
    BY <1>3, <2>1, PaysKeeps DEF PaidInv, Pays
<1> QED
  BY <1>7, <1>8, <1>9

\* Steps that write the job of k and touch no worker.
LEMMA PaidRow ==
    ASSUME TypeOK, PaidInv, NEW k \in Key, UNCHANGED projectors,
           \A e \in Key \ {k} : jobs'[e] = jobs[e] /\ inline'[e] = inline[e],
           Accepted(k), Accepted(k)',
           inline'[k] = "accepted" => inline[k] = "accepted",
           \/ /\ Free(k)' => Free(k)
              /\ \/ applied' = applied /\ faults' = faults
                 \/ /\ applied' = Append(applied, k) /\ faults' = faults
                    /\ k \in Company
                    /\ inline[k] = "accepted" /\ inline'[k] # "accepted"
           \/ applied' = applied /\ faults' = faults + 1
    PROVE  PaidInv'
<1>1. Calls(k) \in {0, 1} /\ Calls(k)' \in {0, 1} /\ (Calls(k)' = 1 => Calls(k) = 1)
  BY DEF Calls
<1>2. Calls(k)' <= Calls(k)
  BY <1>1
<1>3. \A q \in Projector : Holds(q, k)' <=> Holds(q, k)
  BY DEF Holds
<1>4. \A e \in Key \ {k} : Count(e)' = Count(e)
  BY CountAppend DEF Count, Times
<1>5. \A e \in Key \ {k} : Keeps(e)
  BY <1>4, Elsewhere
<1>6. CASE applied' = applied /\ faults' = faults + 1
  <2>1. Count(k)' = Count(k)
    BY <1>6 DEF Count, Times
  <2>2. Buys(k)
    BY <1>2, <1>3, <1>6, <2>1 DEF Buys, Chances
  <2> QED
    BY <1>5, <1>6, <2>2, PaysKeeps DEF PaidInv, Pays
<1>7. CASE applied' = applied /\ faults' = faults /\ (Free(k)' => Free(k))
  <2>1. Count(k)' = Count(k)
    BY <1>7 DEF Count, Times
  <2>2. Keeps(k)
    BY <1>2, <1>3, <1>7, <2>1 DEF Keeps, Chances
  <2> QED
    BY <1>5, <1>7, <2>2, PaysKeeps DEF PaidInv, Pays
<1>8. CASE /\ applied' = Append(applied, k) /\ faults' = faults
           /\ k \in Company
           /\ inline[k] = "accepted" /\ inline'[k] # "accepted"
           /\ Free(k)' => Free(k)
  <2>1. Count(k)' = Count(k) + 1
    BY <1>8, CountAppend
  <2>2. Calls(k) = 1 /\ Calls(k)' = 0
    BY <1>8 DEF Calls
  <2>3. SpendsCall(k)
    BY <1>3, <1>8, <2>1, <2>2 DEF SpendsCall, Chances
  <2> QED
    BY <1>5, <1>8, <2>3, PaysKeeps DEF PaidInv, Pays
<1> QED
  BY <1>6, <1>7, <1>8

LEMMA PaidOthers ==
    ASSUME IInv, PaidInv, NEW k \in Key,
           CompanyCall(k) \/ Operator(k) \/ Clock(k) \/ Overrun(k)
    PROVE  PaidInv'
<1>1. /\ TypeOK /\ InlineInv
      /\ jobs \in [Key -> Job] /\ jobs[k] \in Job
      /\ inline \in [Key -> {"no", "accepted", "projected"}]
  BY DEF IInv, TypeOK
<1>2. /\ DoneJob(jobs[k]).status = "done" /\ NewJob.status = "pending"
  BY <1>1, JobRows
<1>3. \A e \in Key \ {k} : jobs'[e] = jobs[e] /\ inline'[e] = inline[e]
  BY <1>1 DEF CompanyCall, ProjectInline, CloseInline, InlineFails, Operator,
     RetryDeadLetter, DiscardDeadLetter, Clock, Backoff, LeaseExpires, Overrun
<1>4. projectors' = projectors
  BY DEF CompanyCall, ProjectInline, CloseInline, InlineFails, Operator,
     RetryDeadLetter, DiscardDeadLetter, Clock, Backoff, LeaseExpires, Overrun
<1>5. CASE ProjectInline(k)
  <2>1. /\ Accepted(k) /\ k \in Company
    BY <1>1, <1>5 DEF ProjectInline, InlineInv
  <2>2. jobs'[k].status = "done" /\ inline'[k] = "projected" /\ inline[k] = "accepted"
        /\ applied' = Append(applied, k) /\ faults' = faults
    BY <1>1, <1>2, <1>5 DEF ProjectInline
  <2>3. Accepted(k)' /\ ~Free(k)'
    BY <2>2 DEF Accepted, Free
  <2> QED
    BY <1>1, <1>3, <1>4, <2>1, <2>2, <2>3, PaidRow
<1>6. CASE CloseInline(k) \/ InlineFails(k)
  <2>1. /\ Accepted(k) /\ inline'[k] = "no"
        /\ jobs'[k].status = "done" \/ jobs' = jobs
        /\ UNCHANGED <<applied, faults>>
    BY <1>1, <1>2, <1>6 DEF CloseInline, InlineFails, InlineInv
  <2>2. Accepted(k)' /\ (Free(k)' => Free(k))
    BY <1>4, <2>1 DEF Accepted, Free, Answered, Holds
  <2> QED
    BY <1>1, <1>3, <1>4, <2>1, <2>2, PaidRow
<1>7. CASE Operator(k)
  <2>1. /\ jobs[k].status = "dead" /\ jobs'[k].status \in {"pending", "done"}
        /\ UNCHANGED <<applied, faults, inline>>
    BY <1>1, <1>2, <1>7 DEF Operator, RetryDeadLetter, DiscardDeadLetter
  <2>2. Accepted(k) /\ Accepted(k)' /\ Free(k)
    BY <2>1 DEF Accepted, Free, Answered
  <2> QED
    BY <1>1, <1>3, <1>4, <2>1, <2>2, PaidRow
<1>8. CASE Backoff(k)
  <2>1. /\ jobs[k].status = "pending" /\ jobs'[k].status = "pending"
        /\ UNCHANGED <<applied, faults, inline>>
    BY <1>1, <1>8 DEF Backoff, Job
  <2>2. Accepted(k) /\ Accepted(k)' /\ Free(k)
    BY <2>1 DEF Accepted, Free, Answered
  <2> QED
    BY <1>1, <1>3, <1>4, <2>1, <2>2, PaidRow
<1>9. CASE LeaseExpires(k)
  <2>1. /\ jobs[k].status = "processing" /\ jobs'[k].status = "processing"
        /\ UNCHANGED <<applied, faults, inline>>
    BY <1>1, <1>9 DEF LeaseExpires, Job
  <2>2. ~Answered(k)
    BY <1>9 DEF LeaseExpires, Answered, Holds
  <2>3. Accepted(k) /\ Accepted(k)' /\ Free(k)
    BY <2>1, <2>2 DEF Accepted, Free
  <2> QED
    BY <1>1, <1>3, <1>4, <2>1, <2>3, PaidRow
<1>10. CASE Overrun(k)
  <2>1. /\ jobs[k].status = "processing" /\ jobs'[k].status = "processing"
        /\ UNCHANGED <<applied, inline>> /\ faults' = faults + 1
    BY <1>1, <1>10 DEF Overrun, Job
  <2>2. Accepted(k) /\ Accepted(k)'
    BY <2>1 DEF Accepted
  <2> QED
    BY <1>1, <1>3, <1>4, <2>1, <2>2, PaidRow
<1> QED
  BY <1>5, <1>6, <1>7, <1>8, <1>9, <1>10 DEF CompanyCall, Clock

LEMMA PaidInit == Init => PaidInv
<1> SUFFICES ASSUME Init, NEW e \in Key PROVE Paid(e)
  BY DEF PaidInv
<1>1. Chances(e) \subseteq {NoProjector} /\ faults = 0
  BY DEF Init, Chances, Holds, IdleProjector
<1>2. IsFiniteSet({NoProjector}) /\ Cardinality({NoProjector}) = 1
  BY FS_Singleton
<1>3. /\ IsFiniteSet(Chances(e)) /\ Cardinality(Chances(e)) <= 1
      /\ Cardinality(Chances(e)) \in Nat
  BY <1>1, <1>2, FS_Subset, FS_CardinalityType
<1>4. Count(e) = 0
  <2>1. Times(e) = {}
    BY DEF Init, Times
  <2> QED
    BY <2>1, FS_EmptySet DEF Count
<1>5. Calls(e) <= (IF e \in Company THEN 1 ELSE 0) /\ Calls(e) \in {0, 1}
  BY DEF Calls
<1> QED
  BY <1>1, <1>3, <1>4, <1>5 DEF Paid

LEMMA PaidStep == IInv /\ PaidInv /\ [Next]_vars => PaidInv'
<1> SUFFICES ASSUME IInv, PaidInv, [Next]_vars PROVE PaidInv'
  OBVIOUS
<1>1. TypeOK /\ TxInv /\ HeldInv
  BY DEF IInv, AcceptanceInv
<1>2. ASSUME NEW r \in Request, Api(r) PROVE PaidInv'
  <2>1. CASE AcceptInsert(r) \/ AcceptAbort(r) \/ AcceptConflict(r)
    BY <1>1, <2>1, PaidQuiet DEF AcceptInsert, AcceptAbort, AcceptConflict
  <2> QED
    BY <1>1, <1>2, <2>1, PaidCommit DEF Api, AcceptEnds
<1>3. ASSUME NEW p \in Projector,
             WorkerStep(p) \/ ProjectCommitLost(p) \/ Crash(p)
      PROVE  PaidInv'
  BY <1>1, <1>3, PaidClaim, PaidProject, PaidLeaves DEF WorkerStep
<1>4. CASE UNCHANGED vars
  BY <1>1, <1>4, PaidQuiet DEF vars
<1> QED
  BY <1>2, <1>3, <1>4, PaidOthers DEF Next

\* ClaimProjectionJob, ProjectEvent, FailProjectionJob: an event is projected
\* again only for a crash, an overrun lease or a lost answer, and a company
\* event once more by its API call, for any number of projectors and tries,
\* although FailProjectionJob queues a finished job again without looking.
THEOREM ReapplicationsCostFaults == Spec => []ReapplicationsArePaidFor
<1>1. IInv /\ PaidInv => ReapplicationsArePaidFor
  <2> SUFFICES ASSUME IInv, PaidInv, NEW e \in Key
               PROVE  Count(e) <= 1 + faults + (IF e \in Company THEN 1 ELSE 0)
    BY DEF ReapplicationsArePaidFor, Count, Times
  <2>1. TypeOK /\ Paid(e)
    BY DEF IInv, PaidInv
  <2>2. /\ Count(e) \in Nat /\ Cardinality(Chances(e)) \in Nat /\ faults \in Nat
        /\ Calls(e) \in {0, 1}
    BY <2>1, CountType, FS_CardinalityType DEF Paid, Calls, TypeOK
  <2> QED
    BY <2>1, <2>2 DEF Paid
<1>2. IInv /\ PaidInv /\ [Next]_vars => (IInv /\ PaidInv)'
  BY NextIInv, PaidStep
<1>3. QED
  BY <1>1, <1>2, InitIInv, PaidInit, PTL DEF Spec
=============================================================================
