--------------------------- MODULE WorkspaceProofs ---------------------------
(***************************************************************************)
(* What is proved of Extensions, Access and Contacts, three components of  *)
(* a workspace that share no state: each part is about one specification,  *)
(* whatever the sets its constants stand for.                              *)
(***************************************************************************)
EXTENDS Extensions, Access, Contacts, FiniteSetTheorems, TLAPS

-----------------------------------------------------------------------------
(* Induction on the naturals, as the existence of a least element          *)

LEMMA LeastNat ==
  ASSUME NEW T \in SUBSET Nat, T # {}
  PROVE  \E m \in T : \A k \in T : m <= k
<1> DEFINE R == OpToRel(<, Nat)
<1>1. IsWellFoundedOn(R, Nat)
  BY NatLessThanWellFounded
<1>2. \A x, y \in Nat : x < y => <<x, y>> \in R
  BY DEF OpToRel
<1> HIDE DEF R
<1>3. PICK m \in T : \A k \in T : ~(<<k, m>> \in R)
  BY <1>1, WFMin
<1>4. \A k \in T : ~(k < m)
  BY <1>2, <1>3
<1> QED
  BY <1>4

-----------------------------------------------------------------------------
(***************************************************************************)
(* Extensions: what the host runs was verified, however many versions,     *)
(* callers and administrators there are.                                   *)
(***************************************************************************)

\* Versions are numbered from 1, and the row, if there is one, names one of
\* them or none.
ShapeInv ==
    /\ \E k \in Nat : DOMAIN versions = 1..k
    /\ versions = [i \in DOMAIN versions |-> versions[i]]
    /\ \A i \in DOMAIN versions : versions[i] \in Version
    /\ ext \in {NoRow} \cup Extension
    /\ ext = NoRow => DOMAIN versions = {}
    /\ ext # NoRow => ext.current = 0 \/ ext.current \in DOMAIN versions

\* The conjuncts of CurrentIsVerified; for the last, a publication that no
\* other overlapped archives what is active.
SignedInv == \A n \in DOMAIN versions : versions[n].status # "draft" => versions[n].signed
EnabledInv == ext # NoRow /\ ext.status = "enabled" => ext.current # 0
CurrentInv == ext # NoRow /\ ext.current # 0 => ext.current \in Active
OverlapInv == ~overlapped => /\ \A n \in Active : ext # NoRow /\ ext.current = n
                             /\ \A m \in DOMAIN publishing : publishing[m].rows = Active

\* What is being published was verified, and archives what once was published.
PublishingInv == \A m \in DOMAIN publishing :
    /\ m \in DOMAIN versions /\ versions[m].signed
    /\ \A i \in publishing[m].rows : i \in DOMAIN versions /\ versions[i].status # "draft"

VInv == ShapeInv /\ SignedInv /\ EnabledInv /\ CurrentInv /\ OverlapInv /\ PublishingInv

LEMMA CreateKeeps ==
  ASSUME VInv, CreateExtension
  PROVE  VInv'
<1>1. [status |-> "installed", current |-> 0] \in Extension
  BY DEF Extension
<1>2. ext' # NoRow /\ ext'.current = 0 /\ ext'.status = "installed" /\ DOMAIN versions = {}
  BY <1>1, RowAssumption DEF CreateExtension, VInv, ShapeInv
<1>3. UNCHANGED <<versions, publishing, overlapped>>
  BY DEF CreateExtension, Administers, Publications
<1>4. ShapeInv'
  BY <1>1, <1>2, <1>3 DEF CreateExtension, VInv, ShapeInv
<1>5. Active = {} /\ Active' = {}
  BY <1>2, <1>3 DEF Active
<1>6. OverlapInv'
  BY <1>3, <1>5 DEF VInv, OverlapInv
<1> QED
  BY <1>2, <1>3, <1>4, <1>6 DEF VInv, SignedInv, EnabledInv, CurrentInv, PublishingInv

LEMMA CreateVersionKeeps ==
  ASSUME VInv, CreateExtensionVersion
  PROVE  VInv'
<1>1. PICK k \in Nat : DOMAIN versions = 1..k
  BY DEF VInv, ShapeInv
<1>2. Cardinality(DOMAIN versions) = k
  BY <1>1, FS_Interval
<1>3. PICK m \in Manifests :
        versions' = [i \in DOMAIN versions \cup {k + 1} |->
                       IF i = k + 1 THEN [status |-> "draft", signed |-> m.signed, remote |-> m.remote]
                       ELSE versions[i]]
  BY <1>2 DEF CreateExtensionVersion
<1>4. k + 1 \notin DOMAIN versions /\ DOMAIN versions' = DOMAIN versions \cup {k + 1}
      /\ DOMAIN versions' = 1..(k + 1)
  BY <1>1, <1>3
<1>5. ext # NoRow /\ UNCHANGED <<ext, publishing, overlapped>>
  BY DEF CreateExtensionVersion, Administers, Publications
<1>6. \A i \in DOMAIN versions : versions'[i] = versions[i]
  BY <1>3, <1>4
<1>7. versions'[k + 1] \in Version /\ versions'[k + 1].status = "draft"
  <2>1. versions'[k + 1] = [status |-> "draft", signed |-> m.signed, remote |-> m.remote]
    BY <1>3
  <2>2. m.signed \in BOOLEAN /\ m.remote \in BOOLEAN
    BY ManifestAssumption
  <2> QED
    BY <2>1, <2>2 DEF Version
<1>8. ShapeInv'
  <2>1. versions' = [i \in DOMAIN versions' |-> versions'[i]]
    BY <1>3
  <2>2. \A i \in DOMAIN versions' : versions'[i] \in Version
    BY <1>4, <1>6, <1>7 DEF VInv, ShapeInv
  <2>3. k + 1 \in Nat
    OBVIOUS
  <2> QED
    BY <1>4, <1>5, <2>1, <2>2, <2>3 DEF VInv, ShapeInv
<1>9. Active' = Active
  BY <1>4, <1>6, <1>7 DEF Active
<1>10. SignedInv' /\ PublishingInv'
  BY <1>4, <1>5, <1>6, <1>7 DEF VInv, SignedInv, PublishingInv
<1> QED
  BY <1>5, <1>8, <1>9, <1>10 DEF VInv, EnabledInv, CurrentInv, OverlapInv

\* The transactions of the publishers change nothing the host reads until one
\* commits.
LEMMA OpenPublicationKeeps ==
  ASSUME VInv, NEW n \in DOMAIN versions, PublishBegins(n) \/ PublishArchives(n) \/ PublishFails(n)
  PROVE  VInv'
<1>1. UNCHANGED <<ext, versions, overlapped>>
  BY DEF PublishBegins, PublishArchives, PublishFails
<1>2. Active' = Active /\ \A i \in Active : i \in DOMAIN versions /\ versions[i].status # "draft"
  BY <1>1 DEF Active
<1>3. ASSUME NEW m \in DOMAIN publishing'
      PROVE  \/ m \in DOMAIN publishing /\ publishing'[m].rows \in {publishing[m].rows, publishing[m].rows \cap Active}
             \/ m = n /\ versions[n].signed /\ publishing'[m].rows = Active
  <2>1. CASE PublishBegins(n)
    <3>1. /\ publishing' = [i \in DOMAIN publishing \cup {n} |->
                              IF i = n THEN [ran |-> FALSE, rows |-> Active] ELSE publishing[i]]
          /\ versions[n].signed
      BY <2>1 DEF PublishBegins, Publication, Verifies
    <3> QED
      BY <3>1
  <2>2. CASE PublishArchives(n)
    <3>1. /\ n \in DOMAIN publishing
          /\ publishing' = [publishing EXCEPT ![n] = [ran |-> TRUE, rows |-> publishing[n].rows \cap Active]]
      BY <2>2 DEF PublishArchives, Publication, Archived
    <3>2. DOMAIN publishing' = DOMAIN publishing
      BY <3>1
    <3>3. CASE m = n
      BY <3>1, <3>2, <3>3
    <3>4. CASE m # n
      BY <3>1, <3>2, <3>4
    <3> QED
      BY <3>3, <3>4
  <2>3. CASE PublishFails(n)
    <3>1. publishing' = [i \in DOMAIN publishing \ {n} |-> publishing[i]]
      BY <2>3 DEF PublishFails, Publication, Without
    <3> QED
      BY <3>1
  <2> QED
    BY <2>1, <2>2, <2>3
<1>4. PublishingInv'
  BY <1>1, <1>2, <1>3 DEF VInv, PublishingInv
<1>5. OverlapInv'
  BY <1>1, <1>2, <1>3 DEF VInv, OverlapInv
<1> QED
  BY <1>1, <1>2, <1>4, <1>5 DEF VInv, ShapeInv, SignedInv, EnabledInv, CurrentInv

LEMMA CommitKeeps ==
  ASSUME VInv, NEW n \in DOMAIN versions, PublishCommits(n)
  PROVE  VInv'
<1>1. /\ n \in DOMAIN publishing
      /\ versions' = [i \in DOMAIN versions |->
                         [versions[i] EXCEPT !.status = IF i = n THEN "active"
                                                        ELSE IF i \in publishing[n].rows THEN "archived" ELSE @]]
      /\ ext' = [status |-> "enabled", current |-> n]
      /\ overlapped' = (overlapped \/ DOMAIN publishing # {n})
      /\ publishing' = [i \in DOMAIN publishing \ {n} |-> publishing[i]]
  BY DEF PublishCommits, Publication, Without
<1>2. PICK k \in Nat : DOMAIN versions = 1..k
  BY DEF VInv, ShapeInv
<1>3. n \in Nat /\ n # 0
  BY <1>2
<1>4. ext' \in Extension /\ ext'.current = n
  BY <1>1, <1>3 DEF Extension
<1>5. ext' # NoRow
  BY <1>4, RowAssumption
<1>6. DOMAIN versions' = DOMAIN versions
  BY <1>1
<1>7. ASSUME NEW i \in DOMAIN versions
      PROVE  /\ versions'[i] \in Version
             /\ versions'[i].signed = versions[i].signed
             /\ versions'[i].status = IF i = n THEN "active"
                                      ELSE IF i \in publishing[n].rows THEN "archived" ELSE versions[i].status
  <2>1. versions[i] \in Version
    BY DEF VInv, ShapeInv
  <2>2. versions'[i] = [versions[i] EXCEPT !.status = IF i = n THEN "active"
                                                     ELSE IF i \in publishing[n].rows THEN "archived" ELSE @]
    BY <1>1
  <2> QED
    BY <2>1, <2>2 DEF Version
<1>8. ShapeInv'
  <2>1. versions' = [i \in DOMAIN versions' |-> versions'[i]]
    BY <1>1
  <2> QED
    BY <1>2, <1>4, <1>5, <1>6, <1>7, <2>1 DEF ShapeInv
<1>9. versions[n].signed /\ \A i \in publishing[n].rows : i \in DOMAIN versions /\ versions[i].status # "draft"
  BY <1>1 DEF VInv, PublishingInv
<1>10. SignedInv'
  BY <1>6, <1>7, <1>9 DEF VInv, SignedInv
<1>11. EnabledInv' /\ CurrentInv'
  BY <1>3, <1>4, <1>6, <1>7 DEF EnabledInv, CurrentInv, Active
<1>12. PublishingInv'
  <2> SUFFICES ASSUME NEW m \in DOMAIN publishing'
               PROVE  /\ m \in DOMAIN versions' /\ versions'[m].signed
                      /\ \A i \in publishing'[m].rows : i \in DOMAIN versions' /\ versions'[i].status # "draft"
    BY DEF PublishingInv
  <2>1. m \in DOMAIN publishing /\ publishing'[m] = publishing[m]
    BY <1>1
  <2>2. /\ m \in DOMAIN versions /\ versions[m].signed
        /\ \A i \in publishing[m].rows : i \in DOMAIN versions /\ versions[i].status # "draft"
    BY <2>1 DEF VInv, PublishingInv
  <2>3. \A i \in DOMAIN versions : versions[i].status # "draft" => versions'[i].status # "draft"
    BY <1>7
  <2> QED
    BY <1>6, <1>7, <2>1, <2>2, <2>3
<1>13. OverlapInv'
  <2> SUFFICES ASSUME ~overlapped' PROVE (\A i \in Active' : ext'.current = i) /\ DOMAIN publishing' = {}
    BY <1>5 DEF OverlapInv
  <2>1. ~overlapped /\ DOMAIN publishing = {n}
    BY <1>1
  <2>2. publishing[n].rows = Active
    BY <1>1, <2>1 DEF VInv, OverlapInv
  <2>3. \A i \in Active' : i = n
    BY <1>6, <1>7, <2>2 DEF Active
  <2> QED
    BY <1>1, <1>4, <2>1, <2>3
<1> QED
  BY <1>8, <1>10, <1>11, <1>12, <1>13 DEF VInv

LEMMA UpdateKeeps ==
  ASSUME VInv, UpdateExtension
  PROVE  VInv'
<1>1. PICK s \in {"installed", "enabled", "disabled"} :
        /\ s = "enabled" => ext.current # 0
        /\ ext' = [ext EXCEPT !.status = s]
  BY DEF UpdateExtension
<1>2. ext # NoRow /\ UNCHANGED <<versions, publishing, overlapped>>
  BY DEF UpdateExtension, Administers, Publications
<1>3. ext \in Extension
  BY <1>2 DEF VInv, ShapeInv
<1>4. /\ ext' \in Extension
      /\ ext'.current = ext.current /\ ext'.status = s
  BY <1>1, <1>3 DEF Extension
<1>5. ext' # NoRow
  BY <1>4, RowAssumption
<1>6. ShapeInv'
  BY <1>2, <1>4, <1>5 DEF VInv, ShapeInv
<1>7. Active' = Active
  BY <1>2 DEF Active
<1> QED
  BY <1>1, <1>2, <1>4, <1>5, <1>6, <1>7
     DEF VInv, SignedInv, EnabledInv, CurrentInv, OverlapInv, PublishingInv

\* What is invoked is active and its signature was verified when it was
\* published, an enabled extension has one, and a second active version is
\* left only by publications that overlap, whatever the administrators and the
\* callers do in between (PublishExtensionVersion, UpdateExtension).
THEOREM OnlyVerifiedVersionsRun == Spec => []CurrentIsVerified
<1>1. Init => VInv
  <2> SUFFICES ASSUME Init PROVE VInv
    OBVIOUS
  <2>1. DOMAIN versions = {} /\ DOMAIN versions = 1..0 /\ versions = [i \in DOMAIN versions |-> versions[i]]
    BY DEF Init
  <2>2. Active = {} /\ DOMAIN publishing = {} /\ ext = NoRow
    BY <2>1 DEF Init, Active
  <2> QED
    BY <2>1, <2>2 DEF VInv, ShapeInv, SignedInv, EnabledInv, CurrentInv, OverlapInv, PublishingInv
<1>2. VInv /\ [Next]_vars => VInv'
  <2> SUFFICES ASSUME VInv, [Next]_vars PROVE VInv'
    OBVIOUS
  <2>1. ASSUME UNCHANGED <<ext, versions, publishing, overlapped>> PROVE VInv'
    <3>1. Active' = Active
      BY <2>1 DEF Active
    <3> QED
      BY <2>1, <3>1 DEF VInv, ShapeInv, SignedInv, EnabledInv, CurrentInv, OverlapInv, PublishingInv
  <2>2. CASE UNCHANGED vars
    BY <2>1, <2>2 DEF vars
  <2>3. CASE PublishExtensionVersion
    BY <2>3, OpenPublicationKeeps, CommitKeeps DEF PublishExtensionVersion
  <2>4. CASE UpsertExtensionConfig \/ CreateExtensionGrant \/ DeleteExtensionGrant
    BY <2>1, <2>4 DEF UpsertExtensionConfig, CreateExtensionGrant, DeleteExtensionGrant, Administers, Publications
  <2>5. CASE Administer
    BY <2>3, <2>4, <2>5, CreateKeeps, CreateVersionKeeps, UpdateKeeps DEF Administer
  <2>6. CASE Cool \/ Forget
    BY <2>1, <2>6 DEF Cool, Forget, Publications
  <2>7. ASSUME NEW c \in Callers, Invoke(c) PROVE UNCHANGED <<ext, versions, publishing, overlapped>>
    BY <2>7 DEF Invoke, Send, executeExtensionNode, RegisterTemplateFunction, applyIngestionTransforms,
                Read, Write, connectorRun, InvokeWithScope, invoke, Admit, Refuses, InvocationFails,
                InvocationSucceeds, Publications
  <2> QED
    BY <2>1, <2>2, <2>5, <2>6, <2>7 DEF Next
<1>3. VInv => CurrentIsVerified
  BY DEF VInv, SignedInv, EnabledInv, CurrentInv, OverlapInv, CurrentIsVerified
<1> QED
  BY <1>1, <1>2, <1>3, PTL DEF Spec
-----------------------------------------------------------------------------
(* The bound                                                               *)

\* How many callers there are.
N == Cardinality(Callers)

LEMMA NType == N \in Nat
  BY CallersAssumption, FS_CardinalityType DEF N

\* The equations of Wasted have a solution on 0..n.
Solves(f, n) == f \in [0..n -> Nat] /\ \A k \in 0..n : f[k] = IF k = 0 THEN 0 ELSE N * (1 + f[k - 1])

LEMMA SolutionExists == \A n \in Nat : \E f : Solves(f, n)
<1> DEFINE T == {n \in Nat : ~ \E f : Solves(f, n)}
<1>1. SUFFICES ASSUME T # {} PROVE FALSE
  OBVIOUS
<1>2. PICK m \in T : \A k \in T : m <= k
  BY <1>1, LeastNat
<1>3. m \in Nat /\ ~ \E f : Solves(f, m)
  OBVIOUS
<1>4. m # 0
  <2> SUFFICES ASSUME m = 0 PROVE FALSE
    OBVIOUS
  <2> DEFINE f == [k \in 0..0 |-> 0]
  <2>1. Solves(f, 0)
    BY DEF Solves
  <2> QED
    BY <1>3, <2>1
<1>5. m - 1 \in Nat /\ m - 1 \notin T
  BY <1>2, <1>3, <1>4
<1>6. PICK f : Solves(f, m - 1)
  BY <1>5
<1> DEFINE g == [k \in 0..m |-> IF k = m THEN N * (1 + f[m - 1]) ELSE f[k]]
<1>7. f[m - 1] \in Nat
  BY <1>5, <1>6 DEF Solves
<1>8. N * (1 + f[m - 1]) \in Nat
  BY <1>7, NType
<1>9. \A k \in 0..m : k # m => k \in 0..(m - 1) /\ f[k] \in Nat
  BY <1>3, <1>6 DEF Solves
<1>10. g \in [0..m -> Nat]
  BY <1>8, <1>9
<1>11. ASSUME NEW k \in 0..m PROVE g[k] = IF k = 0 THEN 0 ELSE N * (1 + g[k - 1])
  <2>1. CASE k = m
    <3>1. g[k] = N * (1 + f[m - 1]) /\ g[m - 1] = f[m - 1]
      BY <1>3, <1>4, <2>1
    <3> QED
      BY <1>4, <2>1, <3>1
  <2>2. CASE k # m /\ k # 0
    <3>1. g[k] = f[k] /\ g[k - 1] = f[k - 1]
      BY <1>3, <2>2
    <3>2. f[k] = N * (1 + f[k - 1])
      BY <1>6, <1>9, <2>2 DEF Solves
    <3> QED
      BY <2>2, <3>1, <3>2
  <2>3. CASE k # m /\ k = 0
    <3>1. g[k] = f[k]
      BY <1>3, <2>3
    <3>2. f[k] = 0
      BY <1>6, <1>9, <2>3 DEF Solves
    <3> QED
      BY <2>3, <3>1, <3>2
  <2> QED
    BY <2>1, <2>2, <2>3
<1> HIDE DEF g
<1>12. Solves(g, m)
  BY <1>10, <1>11 DEF Solves
<1> QED
  BY <1>3, <1>12

\* Wasted is the function its definition says.
LEMMA WastedSolves ==
  /\ \A k \in 0..Threshold : Wasted[k] \in Nat
  /\ \A k \in 0..Threshold : Wasted[k] = IF k = 0 THEN 0 ELSE N * (1 + Wasted[k - 1])
<1> DEFINE Def(w) == w = [k \in 0..Threshold |-> IF k = 0 THEN 0 ELSE Cardinality(Callers) * (1 + w[k - 1])]
<1>0. Threshold \in Nat
  BY BoundsAssumption
<1>1. PICK f : Solves(f, Threshold)
  BY <1>0, SolutionExists
<1>2. Def(f)
  BY <1>1 DEF Solves, N
<1>3. Wasted = CHOOSE w : Def(w)
  BY DEF Wasted
<1> HIDE DEF Def
<1>4. Def(Wasted)
  BY <1>2, <1>3
<1>5. \A k \in 0..Threshold : Wasted[k] = IF k = 0 THEN 0 ELSE N * (1 + Wasted[k - 1])
  <2> SUFFICES ASSUME NEW w, Def(w), NEW k \in 0..Threshold
               PROVE  w[k] = IF k = 0 THEN 0 ELSE N * (1 + w[k - 1])
    BY <1>4
  <2> QED
    BY DEF Def, N
<1> DEFINE T == {k \in 0..Threshold : Wasted[k] \notin Nat}
<1>6. T = {}
  <2> SUFFICES ASSUME T # {} PROVE FALSE
    OBVIOUS
  <2>1. T \in SUBSET Nat
    BY <1>0
  <2>2. PICK m \in T : \A k \in T : m <= k
    BY <2>1, LeastNat
  <2>3. m \in 0..Threshold /\ Wasted[m] \notin Nat
    OBVIOUS
  <2>4. m # 0
    BY <1>5, <2>3
  <2>5. m - 1 \in 0..Threshold /\ m - 1 \notin T
    BY <1>0, <2>2, <2>3, <2>4
  <2>6. Wasted[m - 1] \in Nat
    BY <2>5
  <2> QED
    BY <1>5, <2>3, <2>4, <2>6, NType
<1> QED
  BY <1>5, <1>6

-----------------------------------------------------------------------------
(* The breaker                                                             *)

\* The failures a caller can still cause through a closed breaker, starting
\* from a copy h of the health row: its own, and those of everyone who reads
\* the row it writes.
Worth(h) == IF h.state = "closed" THEN 1 + Wasted[Threshold - h.failures - 1] ELSE 0
Most == 1 + Wasted[Threshold - 1]

\* The rows of extension_health the host writes: closed below the threshold,
\* and only there.
Copies ==
    {h \in [state: {"closed", "half_open", "open"}, failures: Nat, opened: {"no", "recent", "old"}] :
        (h.state = "closed" <=> h.failures < Threshold) /\ Worth(h) <= Most}

Invocation == [at: {"idle", "called", "resolved", "calling"}, scope: Scopes, health: Copies]

\* The callers that hold a copy of the row, and one ticket of a caller for each
\* failure that its copy, or else the row, still allows.
Holding == {c \in Callers : call[c].at \in {"resolved", "calling"}}
Tickets ==
    (Callers \X (1..Worth(health))) \cup UNION {{c} \X (1..Worth(call[c].health)) : c \in Holding}

ShapesInv == health \in Copies /\ call \in [Callers -> Invocation] /\ streak \in Nat
TicketsInv == streak + Cardinality(Tickets) <= Wasted[Threshold]
BreakerInv == ShapesInv /\ TicketsInv

LEMMA WorthType ==
  /\ Most \in Nat
  /\ \A h \in Copies : Worth(h) \in 0..Most
<1>1. Threshold \in Nat \ {0}
  BY BoundsAssumption
<1>2. Threshold - 1 \in 0..Threshold
  BY <1>1
<1>3. Most \in Nat
  BY <1>2, WastedSolves DEF Most
<1>4. ASSUME NEW h \in Copies PROVE Worth(h) \in 0..Most
  <2>1. /\ h.failures \in Nat /\ (h.state = "closed" => h.failures < Threshold)
        /\ Worth(h) <= Most
    BY DEF Copies
  <2>2. CASE h.state = "closed"
    <3>1. Threshold - h.failures - 1 \in 0..Threshold
      BY <1>1, <2>1, <2>2
    <3>2. Wasted[Threshold - h.failures - 1] \in Nat
      BY <3>1, WastedSolves
    <3>3. Worth(h) \in Nat
      BY <2>2, <3>2 DEF Worth
    <3> QED
      BY <1>3, <2>1, <3>3
  <2>3. CASE h.state # "closed"
    BY <1>3, <2>3 DEF Worth
  <2> QED
    BY <2>2, <2>3
<1> QED
  BY <1>3, <1>4

\* The rows the host writes.
LEMMA HealthyIsCopy == Healthy \in Copies /\ Worth(Healthy) = Most
<1>1. Threshold \in Nat \ {0}
  BY BoundsAssumption
<1>2. /\ Healthy.state = "closed" /\ Healthy.failures = 0
      /\ Healthy \in [state: {"closed", "half_open", "open"}, failures: Nat, opened: {"no", "recent", "old"}]
  BY DEF Healthy
<1>3. Threshold - 0 - 1 = Threshold - 1
  BY <1>1
<1>4. Worth(Healthy) = Most
  BY <1>2, <1>3 DEF Worth, Most
<1>5. Worth(Healthy) <= Most
  BY <1>4, WorthType
<1> QED
  BY <1>1, <1>2, <1>4, <1>5 DEF Copies

\* The trial of an open breaker, and a row that has aged.
LEMMA SameLevelIsCopy ==
  ASSUME NEW h \in Copies
  PROVE  /\ h.state = "open" => [h EXCEPT !.state = "half_open"] \in Copies
                               /\ Worth([h EXCEPT !.state = "half_open"]) = 0
         /\ [h EXCEPT !.opened = "old"] \in Copies
         /\ Worth([h EXCEPT !.opened = "old"]) = Worth(h)
<1> DEFINE R == [state: {"closed", "half_open", "open"}, failures: Nat, opened: {"no", "recent", "old"}]
<1>1. h \in R /\ (h.state = "closed" <=> h.failures < Threshold) /\ Worth(h) <= Most
  BY DEF Copies
<1>2. ASSUME h.state = "open"
      PROVE  [h EXCEPT !.state = "half_open"] \in Copies /\ Worth([h EXCEPT !.state = "half_open"]) = 0
  <2> DEFINE g == [h EXCEPT !.state = "half_open"]
  <2>1. g \in R /\ g.state = "half_open" /\ g.failures = h.failures
    BY <1>1
  <2> HIDE DEF g
  <2>2. Worth(g) = 0 /\ 0 <= Most
    BY <2>1, WorthType DEF Worth
  <2>3. g \in Copies
    BY <1>1, <1>2, <2>1, <2>2 DEF Copies
  <2> QED
    BY <2>2, <2>3 DEF g
<1>3. [h EXCEPT !.opened = "old"] \in Copies /\ Worth([h EXCEPT !.opened = "old"]) = Worth(h)
  <2> DEFINE g == [h EXCEPT !.opened = "old"]
  <2>1. g \in R /\ g.state = h.state /\ g.failures = h.failures
    BY <1>1
  <2> HIDE DEF g
  <2>2. Worth(g) = Worth(h)
    BY <2>1 DEF Worth
  <2>3. g \in Copies
    BY <1>1, <2>1, <2>2 DEF Copies
  <2> QED
    BY <2>2, <2>3 DEF g
<1> QED
  BY <1>2, <1>3

\* A failure through a closed breaker is worth more than itself and what all
\* callers can make of the row it writes; one through a half open breaker
\* opens it.
LEMMA FailedIsCopy ==
  ASSUME NEW h \in Copies, Callers # {}
  PROVE  /\ Failed(h) \in Copies
         /\ h.state = "closed" => N * Worth(Failed(h)) + 1 <= Worth(h)
         /\ h.state # "closed" => Worth(Failed(h)) = 0
<1> DEFINE R == [state: {"closed", "half_open", "open"}, failures: Nat, opened: {"no", "recent", "old"}]
           f == h.failures + 1
<1>1. h \in R /\ (h.state = "closed" <=> h.failures < Threshold) /\ Worth(h) <= Most
  BY DEF Copies
<1>2. Threshold \in Nat \ {0} /\ h.failures \in Nat /\ f \in Nat
  BY <1>1, BoundsAssumption
<1>3. N \in Nat \ {0}
  BY NType, CallersAssumption, FS_EmptySet DEF N
<1>4. CASE f >= Threshold
  <2> DEFINE g == [state |-> "open", failures |-> Threshold, opened |-> "recent"]
  <2>1. Failed(h) = g
    BY <1>4 DEF Failed
  <2>2. g \in R /\ g.state = "open" /\ g.failures = Threshold
    BY <1>2
  <2> HIDE DEF g
  <2>3. Worth(g) = 0 /\ 0 <= Most
    BY <2>2, WorthType DEF Worth
  <2>4. g \in Copies
    BY <1>2, <1>4, <2>2, <2>3 DEF Copies
  <2>5. h.state = "closed" => N * 0 + 1 <= Worth(h)
    <3> SUFFICES ASSUME h.state = "closed" PROVE N * 0 + 1 <= Worth(h)
      OBVIOUS
    <3>1. Threshold - h.failures - 1 \in 0..Threshold
      BY <1>1, <1>2
    <3>2. Wasted[Threshold - h.failures - 1] \in Nat
      BY <3>1, WastedSolves
    <3>3. Worth(h) = 1 + Wasted[Threshold - h.failures - 1]
      BY DEF Worth
    <3> QED
      BY <1>3, <3>2, <3>3
  <2> QED
    BY <2>1, <2>3, <2>4, <2>5
<1>5. CASE ~(f >= Threshold)
  <2> DEFINE g == [h EXCEPT !.failures = f]
             w == Wasted[Threshold - f - 1]
  <2>1. Failed(h) = g
    BY <1>5 DEF Failed
  <2>2. g \in R /\ g.state = h.state /\ g.failures = f
    BY <1>1, <1>2
  <2>3. h.state = "closed"
    BY <1>1, <1>2, <1>5
  <2> HIDE DEF g
  <2>4. /\ Threshold - f - 1 \in 0..Threshold /\ Threshold - f \in 0..Threshold /\ Threshold - f # 0
        /\ (Threshold - f) - 1 = Threshold - f - 1 /\ Threshold - h.failures - 1 = Threshold - f
    BY <1>2, <1>5
  <2>5. w \in Nat /\ Wasted[Threshold - f] = N * (1 + w)
    BY <2>4, WastedSolves
  <2>6. Worth(g) = 1 + w
    BY <2>2, <2>3 DEF Worth
  <2>7. Worth(h) = 1 + N * (1 + w)
    BY <2>3, <2>4, <2>5 DEF Worth
  <2>8. N * (1 + w) >= 1 + w /\ N * (1 + w) \in Nat
    <3> HIDE DEF w
    <3>1. \A a \in Nat \ {0}, b \in Nat : a * b >= b /\ a * b \in Nat
      OBVIOUS
    <3>2. 1 + w \in Nat
      BY <2>5
    <3> QED
      BY <1>3, <3>1, <3>2
  <2> HIDE DEF w
  <2>9. Worth(g) <= Worth(h) /\ N * Worth(g) + 1 <= Worth(h)
    BY <2>5, <2>6, <2>7, <2>8
  <2>10. Worth(g) <= Most
    BY <1>1, <2>5, <2>6, <2>7, <2>8, <2>9, WorthType
  <2>11. g \in Copies
    BY <1>2, <1>5, <2>2, <2>3, <2>10 DEF Copies
  <2> QED
    BY <2>1, <2>3, <2>9, <2>11
<1> QED
  BY <1>4, <1>5

-----------------------------------------------------------------------------

\* Rows of n tickets for each of a set of callers.
LEMMA RowsOfTickets ==
  ASSUME NEW S \in SUBSET Callers, NEW n \in Nat
  PROVE  IsFiniteSet(S \X (1..n)) /\ Cardinality(S \X (1..n)) = Cardinality(S) * n
<1>1. IsFiniteSet(S)
  BY CallersAssumption, FS_Subset
<1>2. IsFiniteSet(1..n)
  BY FS_Interval
<1>3. Cardinality(1..n) = IF 1 > n THEN 0 ELSE n - 1 + 1
  BY FS_Interval
<1>4. Cardinality(1..n) = n
  BY <1>3
<1> QED
  BY <1>1, <1>2, <1>4, FS_Product

LEMMA TicketsAreFew ==
  ASSUME ShapesInv
  PROVE  /\ Tickets \subseteq Callers \X (1..Most)
         /\ IsFiniteSet(Tickets) /\ Cardinality(Tickets) \in Nat /\ Cardinality(Tickets) <= N * Most
<1>1. Most \in Nat /\ Worth(health) \in 0..Most
  BY WorthType DEF ShapesInv
<1>2. \A c \in Callers : Worth(call[c].health) \in 0..Most
  BY WorthType DEF ShapesInv, Invocation
<1>3. 1..Worth(health) \subseteq 1..Most /\ \A c \in Callers : 1..Worth(call[c].health) \subseteq 1..Most
  BY <1>1, <1>2
<1>4. Tickets \subseteq Callers \X (1..Most)
  BY <1>3 DEF Tickets, Holding
<1>5. IsFiniteSet(Callers \X (1..Most)) /\ Cardinality(Callers \X (1..Most)) = N * Most
  BY <1>1, RowsOfTickets DEF N
<1> QED
  BY <1>4, <1>5, FS_Subset, FS_CardinalityType

\* No step but the end of a call adds a ticket.
LEMMA FewerTickets ==
  ASSUME ShapesInv, ShapesInv', TicketsInv, streak' = streak, Tickets' \subseteq Tickets
  PROVE  TicketsInv'
<1>1. IsFiniteSet(Tickets) /\ Cardinality(Tickets) \in Nat
  BY TicketsAreFew
<1>2. Cardinality(Tickets') <= Cardinality(Tickets) /\ IsFiniteSet(Tickets')
  BY <1>1, FS_Subset
<1>3. Cardinality(Tickets') \in Nat
  BY <1>2, FS_CardinalityType
<1>4. Wasted[Threshold] \in Nat
  <2>1. Threshold \in 0..Threshold
    BY BoundsAssumption
  <2> QED
    BY <2>1, WastedSolves
<1>5. streak + Cardinality(Tickets') <= Wasted[Threshold]
  BY <1>1, <1>2, <1>3, <1>4 DEF TicketsInv, ShapesInv
<1> QED
  BY <1>5 DEF TicketsInv

\* A success starts anew, with a full set of tickets.
LEMMA SuccessTickets ==
  ASSUME ShapesInv', streak' = 0
  PROVE  TicketsInv'
<1>1. Threshold \in 0..Threshold /\ Threshold # 0
  BY BoundsAssumption
<1>2. Wasted[Threshold] = N * Most
  BY <1>1, WastedSolves DEF Most
<1>3. Worth(health') \in 0..Most /\ Most \in Nat
  BY WorthType DEF ShapesInv
<1>4. \A c \in Callers : Worth(call'[c].health) \in 0..Most
  BY WorthType DEF ShapesInv, Invocation
<1>5. 1..Worth(health') \subseteq 1..Most /\ \A c \in Callers : 1..Worth(call'[c].health) \subseteq 1..Most
  BY <1>3, <1>4
<1>6. Tickets' \subseteq Callers \X (1..Most)
  BY <1>5 DEF Tickets, Holding, Worth
<1>7. IsFiniteSet(Callers \X (1..Most)) /\ Cardinality(Callers \X (1..Most)) = N * Most
  BY <1>3, RowsOfTickets DEF N
<1>8. IsFiniteSet(Tickets') /\ Cardinality(Tickets') <= N * Most
  BY <1>6, <1>7, FS_Subset
<1>9. Cardinality(Tickets') \in Nat
  BY <1>8, FS_CardinalityType
<1> QED
  BY <1>2, <1>8, <1>9 DEF TicketsInv

\* A failure through a closed breaker uses up its caller's tickets, and pays
\* with them for the tickets the row it writes gives to all.
LEMMA FailureTickets ==
  ASSUME ShapesInv, TicketsInv, NEW c \in Callers, call[c].at = "calling",
         call[c].health.state = "closed", streak' = streak + 1,
         Tickets' \subseteq (Tickets \ ({c} \X (1..Worth(call[c].health))))
                              \cup (Callers \X (1..Worth(Failed(call[c].health))))
  PROVE  TicketsInv'
<1> DEFINE h == call[c].health
           w == Worth(Failed(h))
           mine == {c} \X (1..Worth(h))
           all == Callers \X (1..w)
           rest == Tickets \ mine
<1>1. h \in Copies
  BY DEF ShapesInv, Invocation
<1>2. Failed(h) \in Copies /\ N * w + 1 <= Worth(h)
  BY <1>1, FailedIsCopy
<1>3. Worth(h) \in Nat /\ w \in Nat
  BY <1>1, <1>2, WorthType
<1>4. IsFiniteSet(mine) /\ Cardinality(mine) = Worth(h)
  <2>1. {c} \in SUBSET Callers /\ Cardinality({c}) = 1
    BY FS_Singleton
  <2>2. IsFiniteSet(mine) /\ Cardinality(mine) = Cardinality({c}) * Worth(h)
    BY <1>3, <2>1, RowsOfTickets
  <2> QED
    BY <1>3, <2>1, <2>2
<1>5. IsFiniteSet(all) /\ Cardinality(all) = N * w
  BY <1>3, RowsOfTickets DEF N
<1>6. mine \subseteq Tickets
  BY DEF Tickets, Holding
<1>7. IsFiniteSet(Tickets) /\ Cardinality(Tickets) \in Nat
  BY TicketsAreFew
<1>8. IsFiniteSet(rest) /\ Cardinality(rest) = Cardinality(Tickets) - Worth(h)
  <2>1. Tickets \cap mine = mine
    BY <1>6
  <2> HIDE DEF mine
  <2>2. IsFiniteSet(rest) /\ Cardinality(rest) = Cardinality(Tickets) - Cardinality(Tickets \cap mine)
    BY <1>7, FS_Difference
  <2>3. Cardinality(Tickets \cap mine) = Worth(h)
    BY <1>4, <2>1, Zenon
  <2> QED
    BY <2>2, <2>3
<1> HIDE DEF rest, all
<1>9. IsFiniteSet(rest \cup all) /\ Cardinality(rest \cup all) <= Cardinality(rest) + Cardinality(all)
  <2>1. /\ IsFiniteSet(rest \cup all)
        /\ Cardinality(rest \cup all) = Cardinality(rest) + Cardinality(all) - Cardinality(rest \cap all)
    BY <1>5, <1>8, FS_Union
  <2>2. Cardinality(rest \cap all) \in Nat
    BY <1>8, FS_Intersection, FS_CardinalityType
  <2>3. Cardinality(rest) \in Nat /\ Cardinality(all) \in Nat
    BY <1>5, <1>8, FS_CardinalityType
  <2> QED
    BY <2>1, <2>2, <2>3
<1>10. Tickets' \subseteq rest \cup all
  BY DEF rest, all
<1>11. IsFiniteSet(Tickets') /\ Cardinality(Tickets') <= Cardinality(rest \cup all)
  BY <1>9, <1>10, FS_Subset
<1>12. /\ Cardinality(Tickets') \in Nat /\ Cardinality(rest \cup all) \in Nat
       /\ Cardinality(rest) \in Nat /\ Cardinality(all) \in Nat
  BY <1>5, <1>8, <1>9, <1>11, FS_CardinalityType
<1> DEFINE M == N * w
<1>13. M \in Nat /\ Cardinality(all) = M /\ M + 1 <= Worth(h)
  BY <1>2, <1>5, <1>12
<1> HIDE DEF M, w, h
<1>14. Cardinality(Tickets') + 1 <= Cardinality(Tickets)
  BY <1>3, <1>7, <1>8, <1>9, <1>11, <1>12, <1>13
<1>15. streak \in Nat /\ Wasted[Threshold] \in Nat
  <2>1. Threshold \in 0..Threshold
    BY BoundsAssumption
  <2> QED
    BY <2>1, WastedSolves DEF ShapesInv
<1>16. streak + 1 + Cardinality(Tickets') <= Wasted[Threshold]
  BY <1>7, <1>12, <1>14, <1>15 DEF TicketsInv
<1> QED
  BY <1>16 DEF TicketsInv

-----------------------------------------------------------------------------

LEMMA IdleIsInvocation == Idle \in Invocation
<1>1. "idle" \in {"idle", "called", "resolved", "calling"} /\ Ungranted \in Scopes
  BY DEF Scopes
<1> QED
  BY <1>1, HealthyIsCopy DEF Idle, Invocation

\* A caller that moves: the tickets of the others depend on the row alone.
LEMMA MovingCaller ==
  ASSUME ShapesInv, NEW c \in Callers, NEW r \in Invocation, Moves(c, r)
  PROVE  /\ call' \in [Callers -> Invocation]
         /\ call'[c] = r /\ \A d \in Callers \ {c} : call'[d] = call[d]
         /\ Holding' \ {c} = Holding \ {c}
         /\ c \in Holding' <=> r.at \in {"resolved", "calling"}
<1>1. call' = [call EXCEPT ![c] = r] /\ call \in [Callers -> Invocation]
  BY DEF Moves, ShapesInv
<1>2. call' \in [Callers -> Invocation] /\ call'[c] = r /\ \A d \in Callers \ {c} : call'[d] = call[d]
  BY <1>1
<1> QED
  BY <1>2 DEF Holding

\* A step that leaves the row's worth and gives its caller no new copy, or a
\* copy of the row.
LEMMA MovingTickets ==
  ASSUME ShapesInv, NEW c \in Callers, NEW r \in Invocation, Moves(c, r),
         Worth(health') = Worth(health),
         \/ r.at \notin {"resolved", "calling"}
         \/ Worth(r.health) = Worth(health)
         \/ c \in Holding /\ r.health = call[c].health
  PROVE  Tickets' \subseteq Tickets
<1>1. /\ call'[c] = r /\ \A d \in Callers \ {c} : call'[d] = call[d]
      /\ Holding' \ {c} = Holding \ {c}
      /\ c \in Holding' <=> r.at \in {"resolved", "calling"}
  BY MovingCaller
<1>2. \A d \in Holding' \ {c} : d \in Holding /\ call'[d].health = call[d].health
  BY <1>1 DEF Holding
<1>3. ASSUME NEW d \in Holding'
      PROVE  {d} \X (1..Worth(call'[d].health)) \subseteq Tickets
  <2>1. CASE d # c
    BY <1>2, <2>1 DEF Tickets
  <2>2. CASE d = c
    <3>1. Worth(call'[c].health) = Worth(health) \/ (c \in Holding /\ call'[c].health = call[c].health)
      BY <1>1, <1>3, <2>2
    <3> QED
      BY <2>2, <3>1 DEF Tickets
  <2> QED
    BY <2>1, <2>2
<1>4. Tickets' = (Callers \X (1..Worth(health'))) \cup UNION {{d} \X (1..Worth(call'[d].health)) : d \in Holding'}
  BY DEF Tickets, Worth
<1>5. Callers \X (1..Worth(health')) \subseteq Tickets
  BY DEF Tickets
<1> QED
  BY <1>3, <1>4, <1>5

LEMMA RefusesBreaker ==
  ASSUME BreakerInv, NEW c \in Callers, Refuses(c), health' = health
  PROVE  BreakerInv'
<1>1. ShapesInv /\ TicketsInv /\ Moves(c, Idle) /\ streak' = streak /\ Idle.at = "idle"
  BY DEF BreakerInv, Refuses, Ends, Idle
<1>2. ShapesInv'
  BY <1>1, MovingCaller, IdleIsInvocation DEF ShapesInv
<1>3. Tickets' \subseteq Tickets
  BY <1>1, MovingTickets, IdleIsInvocation
<1> QED
  BY <1>1, <1>2, <1>3, FewerTickets DEF BreakerInv

LEMMA InvokeWithScopeBreaker ==
  ASSUME BreakerInv, NEW c \in Callers, NEW scope, NEW held, InvokeWithScope(c, scope, held)
  PROVE  BreakerInv'
<1> DEFINE r == [Idle EXCEPT !.at = "called", !.scope = Delegated(scope, held)]
<1>1. r \in Invocation /\ r.at = "called"
  <2>1. Delegated(scope, held) \in Scopes
    BY DEF Delegated, Scopes
  <2> QED
    BY <2>1, IdleIsInvocation DEF Invocation
<1>2. ShapesInv /\ TicketsInv /\ Moves(c, r) /\ streak' = streak /\ health' = health
  BY DEF BreakerInv, InvokeWithScope
<1> HIDE DEF r
<1>3. ShapesInv'
  BY <1>1, <1>2, MovingCaller DEF ShapesInv
<1>4. Tickets' \subseteq Tickets
  BY <1>1, <1>2, MovingTickets
<1> QED
  BY <1>2, <1>3, <1>4, FewerTickets DEF BreakerInv

LEMMA InvokeBreaker ==
  ASSUME BreakerInv, NEW c \in Callers, invoke(c)
  PROVE  BreakerInv'
<1> DEFINE trial == [health EXCEPT !.state = "half_open"]
           p == [call[c] EXCEPT !.at = "resolved", !.health = trial]
           q == [call[c] EXCEPT !.at = "resolved", !.health = health]
<1>1. ShapesInv /\ TicketsInv /\ health \in Copies /\ call[c] \in Invocation
  BY DEF BreakerInv, ShapesInv
<1>2. CASE Refuses(c) /\ UNCHANGED health
  BY <1>2, RefusesBreaker
<1>3. CASE health.state = "open" /\ (health' = trial \/ health' = health) /\ Moves(c, p) /\ streak' = streak
  <2>1. trial \in Copies /\ Worth(trial) = 0 /\ Worth(health) = 0
    BY <1>1, <1>3, SameLevelIsCopy DEF Worth
  <2>2. p \in Invocation /\ p.health = trial
    BY <1>1, <2>1 DEF Invocation
  <2>3. Moves(c, p) /\ health' \in Copies /\ Worth(health') = 0
    BY <1>1, <1>3, <2>1
  <2> HIDE DEF p, trial
  <2>4. ShapesInv'
    BY <1>1, <1>3, <2>1, <2>2, <2>3, MovingCaller DEF ShapesInv
  <2>5. Tickets' \subseteq Tickets
    BY <1>1, <2>1, <2>2, <2>3, MovingTickets
  <2> QED
    BY <1>1, <1>3, <2>4, <2>5, FewerTickets DEF BreakerInv
<1>4. CASE health' = health /\ Moves(c, q) /\ streak' = streak
  <2>1. q \in Invocation /\ q.health = health
    BY <1>1 DEF Invocation
  <2>2. Moves(c, q)
    BY <1>4
  <2> HIDE DEF q
  <2>3. ShapesInv'
    BY <1>1, <1>4, <2>1, <2>2, MovingCaller DEF ShapesInv
  <2>4. Tickets' \subseteq Tickets
    BY <1>1, <1>4, <2>1, <2>2, MovingTickets
  <2> QED
    BY <1>1, <1>4, <2>3, <2>4, FewerTickets DEF BreakerInv
<1> QED
  BY <1>2, <1>3, <1>4 DEF invoke, GetExtensionHealth, UpdateExtensionHealth, LosesHealth

LEMMA AdmitBreaker ==
  ASSUME BreakerInv, NEW c \in Callers, Admit(c)
  PROVE  BreakerInv'
<1> DEFINE r == [call[c] EXCEPT !.at = "calling"]
<1>1. ShapesInv /\ TicketsInv /\ call[c] \in Invocation /\ call[c].at = "resolved"
  BY DEF BreakerInv, ShapesInv, Admit
<1>2. CASE Refuses(c) /\ UNCHANGED health
  BY <1>2, RefusesBreaker
<1>3. CASE Moves(c, r) /\ UNCHANGED <<health, streak>>
  <2>1. r \in Invocation /\ r.health = call[c].health
    BY <1>1 DEF Invocation
  <2>2. c \in Holding
    BY <1>1 DEF Holding
  <2>3. Moves(c, r)
    BY <1>3
  <2> HIDE DEF r
  <2>4. ShapesInv'
    BY <1>1, <1>3, <2>1, <2>3, MovingCaller DEF ShapesInv
  <2>5. Tickets' \subseteq Tickets
    BY <1>1, <1>3, <2>1, <2>2, <2>3, MovingTickets
  <2> QED
    BY <1>1, <1>3, <2>4, <2>5, FewerTickets DEF BreakerInv
<1> QED
  BY <1>2, <1>3 DEF Admit

LEMMA SucceedsBreaker ==
  ASSUME BreakerInv, NEW c \in Callers, InvocationSucceeds(c)
  PROVE  BreakerInv'
<1>1. ShapesInv /\ Moves(c, Idle) /\ streak' = 0 /\ (health' = Healthy \/ health' = health)
  BY DEF BreakerInv, InvocationSucceeds, UpdateExtensionHealth, LosesHealth, Ends
<1>2. health' \in Copies
  BY <1>1, HealthyIsCopy DEF ShapesInv
<1>3. ShapesInv'
  BY <1>1, <1>2, MovingCaller, IdleIsInvocation DEF ShapesInv
<1> QED
  BY <1>1, <1>3, SuccessTickets DEF BreakerInv

\* A failure whose write is lost only gives its caller's copy up.
LEMMA LostFailureBreaker ==
  ASSUME BreakerInv, NEW c \in Callers, Ends(c), UNCHANGED <<health, streak>>
  PROVE  BreakerInv'
<1>1. ShapesInv /\ TicketsInv /\ Moves(c, Idle) /\ Idle.at = "idle"
  BY DEF BreakerInv, Ends, Idle
<1>2. ShapesInv'
  BY <1>1, MovingCaller, IdleIsInvocation DEF ShapesInv
<1>3. Tickets' \subseteq Tickets
  BY <1>1, MovingTickets, IdleIsInvocation
<1> QED
  BY <1>1, <1>2, <1>3, FewerTickets DEF BreakerInv

LEMMA RecordedFailureBreaker ==
  ASSUME BreakerInv, NEW c \in Callers, call[c].at = "calling", Ends(c),
         health' = Failed(call[c].health),
         streak' = IF call[c].health.state = "closed" THEN streak + 1 ELSE streak
  PROVE  BreakerInv'
<1> DEFINE h == call[c].health
<1>1. ShapesInv /\ TicketsInv /\ call[c] \in Invocation /\ call[c].at = "calling"
  BY DEF BreakerInv, ShapesInv
<1>2. h \in Copies /\ Callers # {}
  BY <1>1 DEF Invocation
<1>3. /\ Moves(c, Idle) /\ health' = Failed(h) /\ Idle.at = "idle"
      /\ streak' = IF h.state = "closed" THEN streak + 1 ELSE streak
  BY DEF Ends, Idle
<1>4. Failed(h) \in Copies /\ (h.state # "closed" => Worth(Failed(h)) = 0)
  BY <1>2, FailedIsCopy
<1>5. streak' \in Nat
  BY <1>1, <1>3 DEF ShapesInv
<1>6. ShapesInv'
  BY <1>1, <1>3, <1>4, <1>5, MovingCaller, IdleIsInvocation DEF ShapesInv
<1>7. /\ \A d \in Callers \ {c} : call'[d] = call[d]
      /\ Holding' = Holding \ {c}
  <2>1. /\ \A d \in Callers \ {c} : call'[d] = call[d]
        /\ Holding' \ {c} = Holding \ {c} /\ c \notin Holding'
    BY <1>1, <1>3, MovingCaller, IdleIsInvocation
  <2> QED
    BY <2>1
<1>8. Tickets' = (Callers \X (1..Worth(Failed(h))))
                   \cup UNION {{d} \X (1..Worth(call'[d].health)) : d \in Holding'}
  BY <1>3 DEF Tickets, Worth
<1>9. UNION {{d} \X (1..Worth(call'[d].health)) : d \in Holding'} \subseteq Tickets \ ({c} \X (1..Worth(h)))
  <2> SUFFICES ASSUME NEW d \in Holding'
               PROVE  {d} \X (1..Worth(call'[d].health)) \subseteq Tickets \ ({c} \X (1..Worth(h)))
    OBVIOUS
  <2>1. d \in Holding /\ d # c /\ call'[d] = call[d]
    BY <1>7 DEF Holding
  <2>2. {d} \X (1..Worth(call[d].health)) \subseteq Tickets
    BY <2>1 DEF Tickets
  <2> QED
    BY <2>1, <2>2
<1>10. CASE h.state = "closed"
  <2>1. Tickets' \subseteq (Tickets \ ({c} \X (1..Worth(h)))) \cup (Callers \X (1..Worth(Failed(h))))
    BY <1>8, <1>9
  <2>2. TicketsInv'
    BY <1>1, <1>3, <1>10, <2>1, FailureTickets
  <2> QED
    BY <1>6, <2>2 DEF BreakerInv
<1>11. CASE h.state # "closed"
  <2>1. 1..0 = {}
    OBVIOUS
  <2>2. Callers \X (1..Worth(Failed(h))) = {}
    BY <1>4, <1>11, <2>1
  <2>3. Tickets' \subseteq Tickets
    BY <1>8, <1>9, <2>2
  <2>4. streak' = streak
    BY <1>3, <1>11
  <2> QED
    BY <1>1, <1>6, <2>3, <2>4, FewerTickets DEF BreakerInv
<1> QED
  BY <1>10, <1>11

LEMMA FailsBreaker ==
  ASSUME BreakerInv, NEW c \in Callers, InvocationFails(c)
  PROVE  BreakerInv'
<1>1. CASE UNCHANGED <<health, streak>>
  BY <1>1, LostFailureBreaker DEF InvocationFails
<1>2. CASE ~ UNCHANGED <<health, streak>>
  <2>1. /\ call[c].at = "calling" /\ Ends(c) /\ health' = Failed(call[c].health)
        /\ streak' = IF call[c].health.state = "closed" THEN streak + 1 ELSE streak
    BY <1>2 DEF InvocationFails, UpdateExtensionHealth, LosesHealth
  <2> QED
    BY <2>1, RecordedFailureBreaker
<1> QED
  BY <1>1, <1>2

\* The row ages, or nothing the breaker reads is changed.
LEMMA OthersBreaker ==
  ASSUME BreakerInv, UNCHANGED <<streak, call>>,
         UNCHANGED health \/ health' = [health EXCEPT !.opened = "old"]
  PROVE  BreakerInv'
<1>1. ShapesInv /\ TicketsInv /\ health \in Copies
  BY DEF BreakerInv, ShapesInv
<1>2. health' \in Copies /\ Worth(health') = Worth(health)
  BY <1>1, SameLevelIsCopy
<1>3. ShapesInv'
  BY <1>1, <1>2 DEF ShapesInv
<1>4. Holding' = Holding
  BY DEF Holding
<1>5. Tickets' = (Callers \X (1..Worth(health'))) \cup UNION {{d} \X (1..Worth(call[d].health)) : d \in Holding}
  BY <1>4 DEF Tickets, Worth
<1>6. Tickets' \subseteq Tickets
  BY <1>2, <1>5 DEF Tickets
<1> QED
  BY <1>1, <1>3, <1>6, FewerTickets DEF BreakerInv

\* However many callers overwrite each other's counts of failures, and however
\* late: no more than Wasted[Threshold] failing calls whose write the store took
\* pass a closed breaker between two successes (invoke, which writes back a copy
\* of the health row that it read before the call, and logs the error when that
\* write fails).
THEOREM PassedFailuresAreBounded == Spec => []BreakerTrips
<1>1. Init => BreakerInv
  <2> SUFFICES ASSUME Init PROVE BreakerInv
    OBVIOUS
  <2>1. ShapesInv
    BY HealthyIsCopy, IdleIsInvocation DEF Init, ShapesInv
  <2>2. Tickets \subseteq Callers \X (1..Most) /\ Cardinality(Tickets) \in Nat /\ Cardinality(Tickets) <= N * Most
    BY <2>1, TicketsAreFew
  <2>3. Threshold \in 0..Threshold /\ Threshold # 0
    BY BoundsAssumption
  <2>4. Wasted[Threshold] = N * Most
    BY <2>3, WastedSolves DEF Most
  <2>5. streak = 0
    BY DEF Init
  <2> QED
    BY <2>1, <2>2, <2>4, <2>5 DEF BreakerInv, TicketsInv
<1>2. BreakerInv /\ [Next]_vars => BreakerInv'
  <2> SUFFICES ASSUME BreakerInv, [Next]_vars PROVE BreakerInv'
    OBVIOUS
  <2>1. CASE UNCHANGED vars
    BY <2>1, OthersBreaker DEF vars
  <2>2. CASE Administer
    <3>1. UNCHANGED <<health, streak, call>>
      BY <2>2 DEF Administer, Administers, Invocations, CreateExtension, CreateExtensionVersion,
                  PublishExtensionVersion, PublishBegins, PublishArchives, PublishCommits, PublishFails,
                  Publication, UpdateExtension, UpsertExtensionConfig, CreateExtensionGrant,
                  DeleteExtensionGrant
    <3> QED
      BY <3>1, OthersBreaker
  <2>3. CASE Cool \/ Forget
    BY <2>3, OthersBreaker DEF Cool, Forget
  <2>4. ASSUME NEW c \in Callers, Invoke(c) PROVE BreakerInv'
    <3>1. CASE \E scope, held : InvokeWithScope(c, scope, held)
      BY <3>1, InvokeWithScopeBreaker
    <3>2. CASE ~ \E scope, held : InvokeWithScope(c, scope, held)
      <4>1. invoke(c) \/ Admit(c) \/ InvocationFails(c) \/ InvocationSucceeds(c)
        BY <2>4, <3>2 DEF Invoke, Send, executeExtensionNode, RegisterTemplateFunction,
                          applyIngestionTransforms, Read, Write, connectorRun
      <4> QED
        BY <4>1, InvokeBreaker, AdmitBreaker, FailsBreaker, SucceedsBreaker
    <3> QED
      BY <3>1, <3>2
  <2> QED
    BY <2>1, <2>2, <2>3, <2>4 DEF Next
<1>3. BreakerInv => BreakerTrips
  <2> SUFFICES ASSUME BreakerInv PROVE BreakerTrips
    OBVIOUS
  <2>1. Cardinality(Tickets) \in Nat /\ streak \in Nat
    BY TicketsAreFew DEF BreakerInv, ShapesInv
  <2>2. Threshold \in 0..Threshold
    BY BoundsAssumption
  <2>3. Wasted[Threshold] \in Nat
    BY <2>2, WastedSolves
  <2> QED
    BY <2>1, <2>3 DEF BreakerInv, TicketsInv, BreakerTrips
<1> QED
  BY <1>1, <1>2, <1>3, PTL DEF Spec

-----------------------------------------------------------------------------
(***************************************************************************)
(* Access: who may do what, and how often an assertion signs in.           *)
(***************************************************************************)

\* The rows of user_sessions, and the counters.
SessionRow == [user: Users, state: {"live", "revoked", "expired"}, held: BOOLEAN]
SessionInv == /\ session \in [Sessions -> SessionRow \cup {None}]
              /\ changes \in Nat

\* Nobody but a sign-in or the end of a session touches user_sessions, and a
\* sign-in only a row that is not there yet.
SignsIn == \E s \in Fresh(session, None) : \E x \in SessionRow : session' = [session EXCEPT ![s] = x]
EndsSession(s) == /\ session[s].state = "live"
                  /\ \E x \in {"revoked", "expired"} : session' = [session EXCEPT ![s].state = x]

LEMMA AdministrationKeepsSessions ==
  ASSUME AdministerAccess
  PROVE  session' = session /\ changes' = changes + 1
<1>1. CASE createAPIKey \/ revokeAPIKey
  BY <1>1 DEF AdministerAccess, createAPIKey, revokeAPIKey, CreateAPIKey, RevokeAPIKey
<1>2. CASE createRole \/ updateRole \/ deleteRole \/ createUser
  BY <1>2 DEF AdministerAccess, createRole, updateRole, deleteRole, createUser, CreateRole, UpdateRole,
     DeleteRole, CreateUser, credentials
<1>3. CASE createTeam \/ updateTeam \/ deleteTeam
  BY <1>3 DEF AdministerAccess, createTeam, updateTeam, deleteTeam, CreateTeam, UpdateTeam, DeleteTeam, credentials
<1>4. CASE createSCIMUser \/ replaceSCIMUser \/ deleteSCIMUser
  BY <1>4 DEF AdministerAccess, createSCIMUser, replaceSCIMUser, deleteSCIMUser, CreateSCIMUser,
     UpdateSCIMUser, credentials
<1>5. CASE createSCIMGroup \/ replaceSCIMGroup \/ patchSCIMGroup \/ deleteSCIMGroup
  BY <1>5 DEF AdministerAccess, createSCIMGroup, replaceSCIMGroup, patchSCIMGroup, deleteSCIMGroup,
     CreateSCIMGroup, UpdateSCIMGroup, PatchSCIMGroup, DeleteSCIMGroup, credentials
<1>6. CASE createSAMLProvider
  BY <1>6 DEF AdministerAccess, createSAMLProvider, CreateSAMLProvider, credentials
<1> QED
  BY <1>1, <1>2, <1>3, <1>4, <1>5, <1>6 DEF AdministerAccess

\* What the other steps do to the rows an authority is computed from.
LEMMA UseOfSessions ==
  ASSUME Use
  PROVE  /\ changes' = changes
         /\ \/ UNCHANGED people /\ SignsIn
            \/ UNCHANGED people /\ \E s \in Sessions : session[s] # None /\ EndsSession(s)
            \/ UNCHANGED <<people, session>>
            \/ session' = session /\ ~up /\ up'
<1>1. CASE login
  BY <1>1 DEF Use, login, CreateLocalSession, SignsIn, NewSession, SessionRow
<1>2. CASE logout \/ Expire
  <2>1. UNCHANGED people
    BY <1>2 DEF logout, Expire, RevokeLocalSession
  <2>2. session' = session \/ \E s \in Sessions : session[s] # None /\ EndsSession(s)
    BY <1>2 DEF logout, Expire, RevokeLocalSession, EndsSession
  <2> QED
    BY <2>1, <2>2 DEF Use
<1>3. CASE samlACS \/ Crash \/ Tick
  BY <1>3 DEF Use, samlACS, Crash, Tick, credentials
<1>4. CASE finishSAMLLogin
  <2>1. PICK p \in Posts, s \in Fresh(session, None), commits \in BOOLEAN :
           UpsertSAMLUserAndCreateSession(p, s, commits)
    BY <1>4 DEF finishSAMLLogin
  <2>2. session' = session \/ \E x \in SessionRow : session' = [session EXCEPT ![s] = x]
    BY <2>1 DEF UpsertSAMLUserAndCreateSession, NewSession, SessionRow
  <2>3. UNCHANGED people
    BY <2>1 DEF UpsertSAMLUserAndCreateSession
  <2> QED
    BY <2>2, <2>3 DEF SignsIn, Use
<1>5. CASE Startup
  BY <1>5 DEF Use, Startup, credentials
<1> QED
  BY <1>1, <1>2, <1>3, <1>4, <1>5 DEF Use

LEMMA SessionStep ==
  ASSUME SessionInv, [AccessNext]_accessVars
  PROVE  SessionInv'
<1>1. CASE AdministerAccess
  BY <1>1, AdministrationKeepsSessions DEF SessionInv
<1>2. CASE Use
  <2>1. CASE SignsIn
    BY <1>2, <2>1, UseOfSessions DEF SessionInv, SignsIn, Fresh
  <2>2. CASE \E s \in Sessions : session[s] # None /\ EndsSession(s)
    <3>1. PICK s \in Sessions, x \in {"revoked", "expired"} :
             session[s] # None /\ session' = [session EXCEPT ![s].state = x]
      BY <2>2 DEF EndsSession
    <3>2. session[s] \in SessionRow
      BY <3>1 DEF SessionInv
    <3>3. [session[s] EXCEPT !.state = x] \in SessionRow
      BY <3>2 DEF SessionRow
    <3> QED
      BY <1>2, <3>1, <3>3, UseOfSessions DEF SessionInv
  <2> QED
    BY <1>2, <2>1, <2>2, UseOfSessions DEF SessionInv
<1>3. CASE UNCHANGED accessVars
  BY <1>3 DEF SessionInv, accessVars
<1> QED
  BY <1>1, <1>2, <1>3 DEF AccessNext

LEMMA EndedSessionsHaveNoAuthority ==
  ASSUME NEW s \in Sessions, session[s].state # "live"
  PROVE  authenticateSession(s) = {}
  BY DEF authenticateSession

\* One step changes the authority of a session as AuthorityIsGranted says.
LEMMA AuthorityStep ==
  ASSUME SessionInv, [AccessNext]_accessVars, NEW s \in Sessions, session[s] # None,
         ~(authenticateSession(s)' \subseteq authenticateSession(s))
  PROVE  session[s].state = "live" /\ (changes' # changes \/ (~up /\ up'))
<1>0. changes \in Nat /\ session \in [Sessions -> SessionRow \cup {None}] /\ session[s] \in SessionRow
  BY DEF SessionInv
<1>1. CASE session' = session
  <2>1. session[s].state = "live"
    <3> SUFFICES ASSUME session[s].state # "live" PROVE FALSE
      OBVIOUS
    <3>1. authenticateSession(s)' = {}
      BY <1>1 DEF authenticateSession
    <3> QED
      BY <3>1
  <2>2. ~UNCHANGED people
    <3> SUFFICES ASSUME UNCHANGED people PROVE FALSE
      OBVIOUS
    <3>1. UNCHANGED <<user, role, binding, team, session>>
      BY <1>1 DEF people
    <3>2. authenticateSession(s)' = authenticateSession(s)
      BY <3>1 DEF authenticateSession, ScopesOf, effective_roles
    <3> QED
      BY <3>2
  <2>3. CASE AdministerAccess
    BY <2>1, <2>3, <1>0, AdministrationKeepsSessions
  <2>4. CASE UNCHANGED accessVars
    BY <2>2, <2>4 DEF accessVars, people
  <2>5. CASE Use
    BY <2>1, <2>2, <2>5, UseOfSessions
  <2> QED
    BY <2>3, <2>4, <2>5 DEF AccessNext
<1>2. CASE session' # session
  <2>1. Use
    BY <1>2, AdministrationKeepsSessions DEF AccessNext, accessVars
  <2>2. CASE UNCHANGED people /\ SignsIn
    <3>1. PICK f \in Fresh(session, None), x \in SessionRow : session' = [session EXCEPT ![f] = x]
      BY <2>2 DEF SignsIn
    <3>2. session'[s] = session[s]
      BY <1>0, <3>1 DEF Fresh
    <3>3. UNCHANGED <<user, role, binding, team>>
      BY <2>2 DEF people
    <3>4. authenticateSession(s)' = authenticateSession(s)
      BY <3>2, <3>3 DEF authenticateSession, ScopesOf, effective_roles
    <3> QED
      BY <3>4
  <2>3. CASE UNCHANGED people /\ \E t \in Sessions : session[t] # None /\ EndsSession(t)
    <3>1. PICK t \in Sessions, x \in {"revoked", "expired"} : session' = [session EXCEPT ![t].state = x]
      BY <2>3 DEF EndsSession
    <3>2. CASE s # t
      <4>1. session'[s] = session[s]
        BY <1>0, <3>1, <3>2
      <4>2. UNCHANGED <<user, role, binding, team>>
        BY <2>3 DEF people
      <4>3. authenticateSession(s)' = authenticateSession(s)
        BY <4>1, <4>2 DEF authenticateSession, ScopesOf, effective_roles
      <4> QED
        BY <4>3
    <3>3. CASE s = t
      <4>1. session'[s] = [session[s] EXCEPT !.state = x]
        BY <1>0, <3>1, <3>3
      <4>2. session'[s].state # "live"
        BY <1>0, <4>1 DEF SessionRow
      <4>3. authenticateSession(s)' = {}
        BY <4>2 DEF authenticateSession
      <4> QED
        BY <4>3
    <3> QED
      BY <3>2, <3>3
  <2> QED
    BY <1>2, <2>1, <2>2, <2>3, UseOfSessions
<1> QED
  BY <1>1, <1>2

\* Whatever the users, roles, teams and sessions: an open session gains a
\* permission by a recorded change or the start of a process only, never by
\* signing in again, and a session that ended gains none (authenticateSession,
\* CreateLocalSession, UpsertSAMLUserAndCreateSession).
THEOREM AuthorityOnlyGrowsByGrants == AccessSpec => AuthorityIsGranted
<1>1. AccessInit => SessionInv
  BY DEF AccessInit, SessionInv
<1>2. SessionInv /\ [AccessNext]_accessVars => SessionInv'
  BY SessionStep
<1>3. SessionInv /\ [AccessNext]_accessVars =>
        [\A s \in Sessions :
          session[s] # None /\ ~(authenticateSession(s)' \subseteq authenticateSession(s))
              => session[s].state = "live" /\ (changes' # changes \/ (~up /\ up'))]_accessVars
  BY AuthorityStep
<1> QED
  BY <1>1, <1>2, <1>3, PTL DEF AccessSpec, AuthorityIsGranted
-----------------------------------------------------------------------------

\* The assertions the library stops to accept before the cache forgets them.
Covered(a) == a.notOnOrAfter > a.issued + IssueDelay

\* The cache and what the process has done with the assertions it holds.
CacheInv == /\ clock \in Nat
            /\ replay \in [Assertions -> Nat \cup {None}]
            /\ post \in [Posts -> Assertions \cup {None}]
            /\ opened \in [Assertions -> Nat]

\* An assertion that was taken is in the cache until the library refuses it.
Taken(a) == opened[a] > 0 \/ \E p \in Posts : post[p] = a
Remembered(a) == \/ clock > a.issued + IssueDelay
                 \/ replay[a] # None /\ replay[a] > a.issued + IssueDelay
TakenInv == \A a \in Assertions : Covered(a) /\ Taken(a) => Remembered(a)

\* It is taken by one POST, which opens one session.
OnceInv == \A a \in Assertions : Covered(a) =>
              /\ opened[a] <= 1
              /\ \A p, q \in Posts : post[p] = a /\ post[q] = a => p = q
              /\ opened[a] = 1 => \A p \in Posts : post[p] # a

ReplayInv == CacheInv /\ TakenInv /\ OnceInv

\* What a step may do to the part of the state the replay cache protects.
Accepted(p, a) == /\ post[p] = None /\ Issued(a) /\ ParseXMLResponse(a) /\ checkSAMLReplay(a)
                  /\ post' = [post EXCEPT ![p] = a]
                  /\ UNCHANGED <<opened, clock>>
Finishes(p) == /\ post[p] # None
               /\ post' = [post EXCEPT ![p] = None]
               /\ opened' \in {opened, [opened EXCEPT ![post[p]] = @ + 1]}
               /\ UNCHANGED <<replay, clock>>
Forgets == /\ replay' = [a \in Assertions |-> None]
           /\ post' = [p \in Posts |-> None]
           /\ opened' = [a \in Assertions |-> 0]
           /\ UNCHANGED clock

LEMMA StepsOfTheCache ==
  ASSUME CacheInv, [AccessNext]_accessVars
  PROVE  \/ \E p \in Posts, a \in Assertions : Accepted(p, a)
         \/ \E p \in Posts : Finishes(p)
         \/ Forgets
         \/ UNCHANGED <<replay, post, opened>> /\ clock' \in {clock, clock + 1}
<1>1. CASE AdministerAccess
  <2>1. CASE createAPIKey \/ revokeAPIKey
    BY <2>1 DEF createAPIKey, revokeAPIKey, CreateAPIKey, RevokeAPIKey, sso
  <2>2. CASE createRole \/ updateRole \/ deleteRole \/ createUser
    BY <2>2 DEF createRole, updateRole, deleteRole, createUser, CreateRole, UpdateRole, DeleteRole, CreateUser, sso
  <2>3. CASE createTeam \/ updateTeam \/ deleteTeam
    BY <2>3 DEF createTeam, updateTeam, deleteTeam, CreateTeam, UpdateTeam, DeleteTeam, sso
  <2>4. CASE createSCIMUser \/ replaceSCIMUser \/ deleteSCIMUser
    BY <2>4 DEF createSCIMUser, replaceSCIMUser, deleteSCIMUser, CreateSCIMUser, UpdateSCIMUser, sso
  <2>5. CASE createSCIMGroup \/ replaceSCIMGroup \/ patchSCIMGroup \/ deleteSCIMGroup
    BY <2>5 DEF createSCIMGroup, replaceSCIMGroup, patchSCIMGroup, deleteSCIMGroup,
       CreateSCIMGroup, UpdateSCIMGroup, PatchSCIMGroup, DeleteSCIMGroup, sso
  <2>6. CASE createSAMLProvider
    BY <2>6 DEF createSAMLProvider, CreateSAMLProvider
  <2> QED
    BY <1>1, <2>1, <2>2, <2>3, <2>4, <2>5, <2>6 DEF AdministerAccess
<1>2. CASE Use
  <2>1. CASE login \/ logout \/ Expire
    BY <2>1 DEF login, CreateLocalSession, logout, RevokeLocalSession, Expire, sso
  <2>2. CASE samlACS
    BY <2>2 DEF samlACS, Accepted, Fresh, CacheInv
  <2>3. CASE finishSAMLLogin
    BY <2>3 DEF finishSAMLLogin, UpsertSAMLUserAndCreateSession, Finishes
  <2>4. CASE Crash
    BY <2>4 DEF Crash, Forgets
  <2>5. CASE Startup \/ Tick
    BY <2>5 DEF Startup, Tick
  <2> QED
    BY <1>2, <2>1, <2>2, <2>3, <2>4, <2>5 DEF Use
<1>3. CASE UNCHANGED accessVars
  BY <1>3 DEF accessVars
<1> QED
  BY <1>1, <1>2, <1>3 DEF AccessNext

LEMMA AcceptedKeeps ==
  ASSUME ReplayInv, NEW p \in Posts, NEW a \in Assertions, Accepted(p, a)
  PROVE  ReplayInv'
<1>1. /\ a.issued \in Nat /\ a.notOnOrAfter \in Nat /\ IssueDelay \in Nat /\ CacheCap \in Nat
      /\ IssueDelay < CacheCap /\ clock \in Nat
  BY AssertionsAssumption, TimesAssumption DEF ReplayInv, CacheInv
<1>2. /\ a.issued <= clock /\ clock <= a.issued + IssueDelay
      /\ Unused(a) /\ clock' = clock /\ opened' = opened
      /\ post' = [post EXCEPT ![p] = a] /\ post[p] = None
  BY DEF Accepted, Issued, ParseXMLResponse, checkSAMLReplay
<1>3. CacheUntil(a) \in Nat /\ (Covered(a) => CacheUntil(a) > a.issued + IssueDelay)
  BY <1>1, <1>2 DEF CacheUntil, Covered
<1>4. /\ replay' \in [Assertions -> Nat \cup {None}]
      /\ replay'[a] = CacheUntil(a)
      /\ \A b \in Assertions : b # a => \/ replay'[b] = replay[b]
                                        \/ replay'[b] = None /\ replay[b] # None /\ clock > replay[b]
  <2> DEFINE f(b) == IF b = a THEN CacheUntil(a)
                     ELSE IF replay[b] # None /\ clock > replay[b] THEN None ELSE replay[b]
  <2>1. replay' = [b \in Assertions |-> f(b)]
    BY DEF Accepted, checkSAMLReplay
  <2>2. \A b \in Assertions : replay[b] \in Nat \cup {None}
    BY DEF ReplayInv, CacheInv
  <2>3. \A b \in Assertions : f(b) \in Nat \cup {None}
    BY <1>3, <2>2
  <2>4. \A b \in Assertions : replay'[b] = f(b)
    BY <2>1
  <2>5. replay' \in [Assertions -> Nat \cup {None}]
    BY <2>1, <2>3
  <2> QED
    BY <2>4, <2>5
<1>5. CacheInv'
  BY <1>2, <1>4 DEF ReplayInv, CacheInv
<1>6. Covered(a) => ~Taken(a)
  <2> SUFFICES ASSUME Covered(a), Taken(a) PROVE FALSE
    OBVIOUS
  <2>1. Remembered(a)
    BY DEF ReplayInv, TakenInv
  <2>2. replay[a] # None /\ replay[a] \in Nat /\ replay[a] > a.issued + IssueDelay
    BY <1>1, <1>2, <2>1 DEF Remembered, ReplayInv, CacheInv
  <2> QED
    BY <1>1, <1>2, <2>2 DEF Unused
<1>7. \A q \in Posts : post'[q] = IF q = p THEN a ELSE post[q]
  BY <1>2 DEF ReplayInv, CacheInv
<1>8. TakenInv'
  <2> SUFFICES ASSUME NEW b \in Assertions, Covered(b), Taken(b)' PROVE Remembered(b)'
    BY DEF TakenInv, Covered
  <2>1. CASE b = a
    BY <1>3, <1>4, <2>1, NoneAssumption DEF Remembered
  <2>2. CASE b # a
    <3>1. Taken(b)
      BY <1>2, <1>7, <2>2 DEF Taken
    <3>2. Remembered(b)
      BY <3>1 DEF ReplayInv, TakenInv
    <3>3. b.issued \in Nat /\ replay[b] \in Nat \cup {None}
      BY AssertionsAssumption DEF ReplayInv, CacheInv
    <3>4. CASE clock > b.issued + IssueDelay
      BY <1>2, <3>4 DEF Remembered
    <3>5. CASE replay[b] # None /\ replay[b] > b.issued + IssueDelay
      <4>1. CASE replay'[b] = replay[b]
        BY <3>5, <4>1 DEF Remembered
      <4>2. CASE clock > replay[b]
        BY <1>1, <1>2, <3>3, <3>5, <4>2 DEF Remembered
      <4> QED
        BY <1>4, <2>2, <4>1, <4>2
    <3> QED
      BY <3>2, <3>4, <3>5 DEF Remembered
  <2> QED
    BY <2>1, <2>2
<1>9. OnceInv'
  <2> SUFFICES ASSUME NEW b \in Assertions, Covered(b)
               PROVE  /\ opened'[b] <= 1
                      /\ \A q, r \in Posts : post'[q] = b /\ post'[r] = b => q = r
                      /\ opened'[b] = 1 => \A q \in Posts : post'[q] # b
    BY DEF OnceInv, Covered
  <2>1. /\ opened[b] <= 1
        /\ \A q, r \in Posts : post[q] = b /\ post[r] = b => q = r
        /\ opened[b] = 1 => \A q \in Posts : post[q] # b
    BY DEF ReplayInv, OnceInv
  <2>2. CASE b = a
    <3>1. opened[b] = 0 /\ \A q \in Posts : post[q] # b
      BY <1>6, <2>1, <2>2 DEF Taken, ReplayInv, CacheInv
    <3> QED
      BY <1>2, <1>7, <2>2, <3>1
  <2>3. CASE b # a
    BY <1>2, <1>7, <2>1, <2>3
  <2> QED
    BY <2>2, <2>3
<1> QED
  BY <1>5, <1>8, <1>9 DEF ReplayInv

LEMMA FinishesKeeps ==
  ASSUME ReplayInv, NEW p \in Posts, Finishes(p)
  PROVE  ReplayInv'
<1> DEFINE a == post[p]
<1>1. /\ a \in Assertions /\ opened[a] \in Nat
      /\ replay' = replay /\ clock' = clock
      /\ \A q \in Posts : post'[q] = IF q = p THEN None ELSE post[q]
      /\ \A b \in Assertions : b # a => opened'[b] = opened[b]
      /\ opened'[a] \in {opened[a], opened[a] + 1}
  BY DEF Finishes, ReplayInv, CacheInv
<1>2. CacheInv'
  BY DEF Finishes, ReplayInv, CacheInv
<1> HIDE DEF a
<1>3. post[p] = a
  BY DEF a
<1>4. TakenInv'
  <2> SUFFICES ASSUME NEW b \in Assertions, Covered(b), Taken(b)' PROVE Remembered(b)'
    BY DEF TakenInv, Covered
  <2>1. Taken(b)
    BY <1>1, <1>3, NoneAssumption DEF Taken
  <2>2. Remembered(b)
    BY <2>1 DEF ReplayInv, TakenInv
  <2> QED
    BY <1>1, <2>2 DEF Remembered
<1>5. OnceInv'
  <2> SUFFICES ASSUME NEW b \in Assertions, Covered(b)
               PROVE  /\ opened'[b] <= 1
                      /\ \A q, r \in Posts : post'[q] = b /\ post'[r] = b => q = r
                      /\ opened'[b] = 1 => \A q \in Posts : post'[q] # b
    BY DEF OnceInv, Covered
  <2>1. /\ opened[b] <= 1 /\ opened[b] \in Nat
        /\ \A q, r \in Posts : post[q] = b /\ post[r] = b => q = r
        /\ opened[b] = 1 => \A q \in Posts : post[q] # b
    BY DEF ReplayInv, OnceInv, CacheInv
  <2>2. CASE b = a
    <3>1. opened[b] = 0
      BY <1>3, <2>1, <2>2
    <3> QED
      BY <1>1, <1>3, <2>1, <2>2, <3>1, NoneAssumption
  <2>3. CASE b # a
    BY <1>1, <2>1, <2>3, NoneAssumption
  <2> QED
    BY <2>2, <2>3
<1> QED
  BY <1>2, <1>4, <1>5 DEF ReplayInv

LEMMA ReplayStep ==
  ASSUME ReplayInv, [AccessNext]_accessVars
  PROVE  ReplayInv'
<1>1. CASE \E p \in Posts, a \in Assertions : Accepted(p, a)
  BY <1>1, AcceptedKeeps
<1>2. CASE \E p \in Posts : Finishes(p)
  BY <1>2, FinishesKeeps
<1>3. CASE Forgets
  BY <1>3, NoneAssumption DEF Forgets, ReplayInv, CacheInv, TakenInv, OnceInv, Taken
<1>4. CASE UNCHANGED <<replay, post, opened>> /\ clock' \in {clock, clock + 1}
  <2>1. CacheInv' /\ OnceInv'
    BY <1>4 DEF ReplayInv, CacheInv, OnceInv, Covered
  <2>2. ASSUME NEW a \in Assertions, Remembered(a) PROVE Remembered(a)'
    <3>1. a.issued \in Nat /\ IssueDelay \in Nat /\ clock \in Nat
      BY AssertionsAssumption, TimesAssumption DEF ReplayInv, CacheInv
    <3> QED
      BY <1>4, <2>2, <3>1 DEF Remembered
  <2>3. TakenInv'
    BY <1>4, <2>2 DEF ReplayInv, TakenInv, Taken, Covered
  <2> QED
    BY <2>1, <2>3 DEF ReplayInv
<1> QED
  BY <1>1, <1>2, <1>3, <1>4, StepsOfTheCache DEF ReplayInv

\* However many POSTs race and however late they come, the assertions that
\* outlive the time in which the library accepts them open at most one session
\* in a process: the cache remembers each until the library refuses it
\* (checkSAMLReplay enters it before the session is created).
THEOREM AssertionsOpenOneSession == AccessSpec => []OneSessionPerAssertion
<1>1. AccessInit => ReplayInv
  BY NoneAssumption DEF AccessInit, ReplayInv, CacheInv, TakenInv, OnceInv, Taken
<1>2. ReplayInv /\ [AccessNext]_accessVars => ReplayInv'
  BY ReplayStep
<1>3. ReplayInv => OneSessionPerAssertion
  BY DEF ReplayInv, OnceInv, OneSessionPerAssertion, Covered
<1> QED
  BY <1>1, <1>2, <1>3, PTL DEF AccessSpec

-----------------------------------------------------------------------------
(***************************************************************************)
(* Contacts: merges, external ids and suppressions, however many profiles, *)
(* identities, endpoints and events there are.                             *)
(***************************************************************************)

\* The tables, and the rows of those that merges depend on.
Fields == {"profile", "alias", "consent", "suppression", "merge", "blob"}
ProfileRow == [exists: BOOLEAN, ext: Ext \cup {Null}, anon: Anon \cup {Null},
               endpoint: Endpoint \cup {Null}, merged: Profile \cup {Null}]
MergeRow == [event: Nat, source: Profile, target: Profile, ref: Nat \X Profile, open: BOOLEAN]

\* Rows that are not there were not merged, and an external id is that of a
\* row in use.
RowsInv(d) ==
    \A p \in Profile :
        /\ d.profile[p].merged # Null => d.profile[p].exists
        /\ d.profile[p].ext # Null => Live(d, p)

\* A blob is the snapshot of the profile its name ends with, in use then.
BlobsInv(d) ==
    \A r \in DOMAIN d.blob :
        /\ d.blob[r].source = r[2]
        /\ d.blob[r].row \in ProfileRow
        /\ d.blob[r].row.exists

\* A merge names a blob that is there; one that is open left a tombstone, and
\* no other open merge has the same source.
MergesInv(d) ==
    \A m \in d.merge :
        /\ m.ref \in DOMAIN d.blob
        /\ m.ref[2] = m.source
        /\ m.open => /\ d.profile[m.source].merged = m.target
                     /\ \A o \in d.merge : o.open /\ o.source = m.source => o = m

TablesInv(d) == /\ DOMAIN d = Fields
                /\ d.profile \in [Profile -> ProfileRow]
                /\ d.suppression \in [Endpoint -> Reasons \cup {Null}]
                /\ d.merge \subseteq MergeRow

DbInv(d) == TablesInv(d) /\ RowsInv(d) /\ BlobsInv(d) /\ MergesInv(d)

ContactInv == DbInv(db) /\ steps \in Nat

\* What a merge of s into t does to the rows: to those of s and t only.
Merges(d, e, s, t) ==
    /\ e.profile[s].merged = t /\ e.profile[s].ext = Null /\ e.profile[s].exists
    /\ e.profile[t].merged = d.profile[t].merged
    /\ e.profile[t].ext = d.profile[t].ext
    /\ e.profile[t].exists = d.profile[t].exists
    /\ \A p \in Profile \ {s, t} : e.profile[p] = d.profile[p]

LEMMA RepointedTables ==
  ASSUME NEW d, DOMAIN d = Fields, NEW s, NEW t
  PROVE  LET r == Repointed(d, s, t) IN
         /\ DOMAIN r = Fields
         /\ r.profile = d.profile /\ r.suppression = d.suppression
         /\ r.merge = d.merge /\ r.blob = d.blob
  BY DEF Repointed, Fields

LEMMA KeptType ==
  ASSUME NEW d, TablesInv(d), NEW s \in Profile, NEW t \in Profile
  PROVE  Kept(d, s, t) \in Endpoint \cup {Null}
  BY DEF Kept, TablesInv, ProfileRow

\* The rows of a merge, recorded or not: x is what is left of the anonymous id.
MergedRows(d, s, t, x) ==
    [d.profile EXCEPT ![t].endpoint = Kept(d, s, t), ![s] = [@ EXCEPT !.merged = t, !.ext = Null, !.anon = x]]

LEMMA MergedRowsShape ==
  ASSUME NEW d, TablesInv(d), NEW s \in Profile, NEW t \in Profile, s # t, d.profile[s].exists,
         NEW x \in Anon \cup {Null}, NEW e, e.profile = MergedRows(d, s, t, x)
  PROVE  e.profile \in [Profile -> ProfileRow] /\ Merges(d, e, s, t)
<1> DEFINE rs == d.profile[s]
           rt == d.profile[t]
           ns == [rs EXCEPT !.merged = t, !.ext = Null, !.anon = x]
           nt == [rt EXCEPT !.endpoint = Kept(d, s, t)]
<1>1. rs \in ProfileRow /\ rt \in ProfileRow /\ Kept(d, s, t) \in Endpoint \cup {Null}
  BY KeptType DEF TablesInv
<1>2. ns \in ProfileRow /\ ns.merged = t /\ ns.ext = Null /\ ns.exists = rs.exists
  BY <1>1 DEF ProfileRow
<1>3. nt \in ProfileRow /\ nt.merged = rt.merged /\ nt.ext = rt.ext /\ nt.exists = rt.exists
  BY <1>1 DEF ProfileRow
<1>4. e.profile = [[d.profile EXCEPT ![t] = nt] EXCEPT ![s] = ns]
  BY DEF MergedRows, TablesInv
<1> HIDE DEF ns, nt
<1>5. e.profile \in [Profile -> ProfileRow]
  BY <1>2, <1>3, <1>4 DEF TablesInv
<1>6. e.profile[s] = ns /\ e.profile[t] = nt /\ \A p \in Profile \ {s, t} : e.profile[p] = d.profile[p]
  BY <1>4 DEF TablesInv
<1> QED
  BY <1>2, <1>3, <1>5, <1>6 DEF Merges

LEMMA MergeProfilesTables ==
  ASSUME NEW d, TablesInv(d), NEW n, NEW s \in Profile, NEW t \in Profile, s # t
  PROVE  LET e == mergeProfiles(d, n, s, t) IN
         /\ DOMAIN e = Fields
         /\ e.profile = MergedRows(d, s, t, Null)
         /\ e.suppression = d.suppression
         /\ e.merge = d.merge \cup {[event |-> n, source |-> s, target |-> t, ref |-> <<n, s>>, open |-> TRUE]}
         /\ e.blob = [r \in DOMAIN d.blob \cup {<<n, s>>} |-> IF r = <<n, s>> THEN Snapshot(d, s) ELSE d.blob[r]]
<1> DEFINE r == Repointed(d, s, t)
<1>1. /\ DOMAIN r = Fields
      /\ r.profile = d.profile /\ r.suppression = d.suppression
      /\ r.merge = d.merge /\ r.blob = d.blob
  BY RepointedTables DEF TablesInv
<1>2. mergeProfiles(d, n, s, t) =
         [r EXCEPT !.blob = [b \in DOMAIN @ \cup {<<n, s>>} |-> IF b = <<n, s>> THEN Snapshot(d, s) ELSE @[b]],
                   !.profile[t].endpoint = Kept(d, s, t),
                   !.profile[s] = [@ EXCEPT !.merged = t, !.ext = Null, !.anon = Null],
                   !.merge = @ \cup {[event |-> n, source |-> s, target |-> t, ref |-> <<n, s>>, open |-> TRUE]}]
  BY DEF mergeProfiles, ReversalRef
<1> HIDE DEF r
<1> QED
  BY <1>1, <1>2 DEF Fields, MergedRows, TablesInv

\* What a merge leaves true whether it is recorded or not.
LEMMA MergesKeepsRows ==
  ASSUME NEW d, DbInv(d), NEW s \in Profile, NEW t \in Profile, s # t, Live(d, s), NEW e, Merges(d, e, s, t)
  PROVE  RowsInv(e) /\ \A m \in d.merge : m.open => m.source # s /\ e.profile[m.source].merged = m.target
<1>1. t # Null /\ s # Null
  BY NullAssumption
<1>2. ASSUME NEW p \in Profile
      PROVE  /\ e.profile[p].merged # Null => e.profile[p].exists
             /\ e.profile[p].ext # Null => e.profile[p].exists /\ e.profile[p].merged = Null
  <2>1. /\ d.profile[p].merged # Null => d.profile[p].exists
        /\ d.profile[p].ext # Null => d.profile[p].exists /\ d.profile[p].merged = Null
    BY DEF DbInv, RowsInv, Live
  <2>2. CASE p = s
    BY <2>2 DEF Merges
  <2>3. CASE p = t
    BY <2>1, <2>3 DEF Merges
  <2>4. CASE p \notin {s, t}
    BY <2>1, <2>4 DEF Merges
  <2> QED
    BY <2>2, <2>3, <2>4
<1>3. ASSUME NEW m \in d.merge, m.open PROVE m.source # s /\ e.profile[m.source].merged = m.target
  <2>1. m.source \in Profile /\ m.target \in Profile /\ d.profile[m.source].merged = m.target
    BY <1>3 DEF DbInv, MergesInv, TablesInv, MergeRow
  <2>2. m.source # s
    BY <2>1, NullAssumption DEF Live
  <2> QED
    BY <2>1, <2>2 DEF Merges
<1> QED
  BY <1>2, <1>3 DEF RowsInv, Live

\* A recorded merge of a profile in use keeps the tables in order.
LEMMA MergeProfilesKeeps ==
  ASSUME NEW d, DbInv(d), NEW n \in Nat, NEW s \in Profile, NEW t \in Profile, s # t, Live(d, s)
  PROVE  LET e == mergeProfiles(d, n, s, t) IN
         /\ DbInv(e) /\ Merges(d, e, s, t) /\ e.suppression = d.suppression
<1> DEFINE e == mergeProfiles(d, n, s, t)
           new == [event |-> n, source |-> s, target |-> t, ref |-> <<n, s>>, open |-> TRUE]
<1>1. /\ DOMAIN e = Fields
      /\ e.profile = MergedRows(d, s, t, Null)
      /\ e.suppression = d.suppression
      /\ e.merge = d.merge \cup {new}
      /\ e.blob = [r \in DOMAIN d.blob \cup {<<n, s>>} |-> IF r = <<n, s>> THEN Snapshot(d, s) ELSE d.blob[r]]
  <2>1. TablesInv(d)
    BY DEF DbInv
  <2> QED
    BY <2>1, MergeProfilesTables
<1> HIDE DEF e
<1>2. e.profile \in [Profile -> ProfileRow] /\ Merges(d, e, s, t)
  <2>1. TablesInv(d) /\ d.profile[s].exists /\ Null \in Anon \cup {Null}
    BY DEF DbInv, Live
  <2> QED
    BY <1>1, <2>1, MergedRowsShape
<1>3. new \in MergeRow /\ new.ref = <<n, s>> /\ new.source = s /\ new.target = t /\ new.open
  BY DEF MergeRow
<1>4. TablesInv(e)
  BY <1>1, <1>2, <1>3 DEF DbInv, TablesInv
<1> HIDE DEF new
<1>5. RowsInv(e) /\ \A m \in d.merge : m.open => m.source # s /\ e.profile[m.source].merged = m.target
  BY <1>2, MergesKeepsRows
<1>6. BlobsInv(e)
  <2> SUFFICES ASSUME NEW r \in DOMAIN e.blob
               PROVE  e.blob[r].source = r[2] /\ e.blob[r].row \in ProfileRow /\ e.blob[r].row.exists
    BY DEF BlobsInv
  <2>1. CASE r = <<n, s>>
    <3>1. e.blob[r] = Snapshot(d, s) /\ r[2] = s
      BY <1>1, <2>1
    <3>2. Snapshot(d, s).source = s /\ Snapshot(d, s).row = d.profile[s]
      BY DEF Snapshot
    <3> QED
      BY <3>1, <3>2 DEF DbInv, TablesInv, Live
  <2>2. CASE r # <<n, s>>
    <3>1. r \in DOMAIN d.blob /\ e.blob[r] = d.blob[r]
      BY <1>1, <2>2
    <3> QED
      BY <3>1 DEF DbInv, BlobsInv
  <2> QED
    BY <2>1, <2>2
<1>7. MergesInv(e)
  <2> SUFFICES ASSUME NEW m \in e.merge
               PROVE  /\ m.ref \in DOMAIN e.blob
                      /\ m.ref[2] = m.source
                      /\ m.open => /\ e.profile[m.source].merged = m.target
                                   /\ \A o \in e.merge : o.open /\ o.source = m.source => o = m
    BY DEF MergesInv
  <2>0. DOMAIN e.blob = DOMAIN d.blob \cup {<<n, s>>} /\ <<n, s>>[2] = s
    BY <1>1
  <2>1. CASE m = new
    <3>1. m.ref \in DOMAIN e.blob /\ m.ref[2] = m.source
      BY <1>3, <2>0, <2>1
    <3>2. e.profile[m.source].merged = m.target
      BY <1>2, <1>3, <2>1 DEF Merges
    <3>3. \A o \in e.merge : o.open /\ o.source = m.source => o = m
      BY <1>1, <1>3, <1>5, <2>1
    <3> QED
      BY <3>1, <3>2, <3>3
  <2>2. CASE m # new
    <3>1. m \in d.merge
      BY <1>1, <2>2
    <3>2. m.ref \in DOMAIN e.blob /\ m.ref[2] = m.source
      BY <2>0, <3>1 DEF DbInv, MergesInv
    <3>3. ASSUME m.open PROVE \A o \in e.merge : o.open /\ o.source = m.source => o = m
      <4>1. m.source # s
        BY <1>5, <3>1, <3>3
      <4>2. \A o \in d.merge : o.open /\ o.source = m.source => o = m
        BY <3>1, <3>3 DEF DbInv, MergesInv
      <4> QED
        BY <1>1, <1>3, <4>1, <4>2
    <3> QED
      BY <1>5, <3>1, <3>2, <3>3
  <2> QED
    BY <2>1, <2>2
<1> QED
  BY <1>1, <1>2, <1>4, <1>5, <1>6, <1>7 DEF DbInv, e

\* What happens to the rows alone keeps the tables in order when no tombstone
\* of an open merge changes.
LEMMA RowsChange ==
  ASSUME NEW d, DbInv(d), NEW e, TablesInv(e), RowsInv(e), e.merge = d.merge, e.blob = d.blob,
         \A m \in d.merge : m.open => e.profile[m.source].merged = m.target
  PROVE  DbInv(e)
<1>1. BlobsInv(e)
  BY DEF DbInv, BlobsInv
<1>2. MergesInv(e)
  BY DEF DbInv, MergesInv
<1> QED
  BY <1>1, <1>2 DEF DbInv

LEMMA MergeAnonymousKeeps ==
  ASSUME NEW d, DbInv(d), NEW s \in Profile, NEW t \in Profile, s # t, Live(d, s)
  PROVE  DbInv(mergeAnonymous(d, s, t)) /\ mergeAnonymous(d, s, t).suppression = d.suppression
<1> DEFINE e == mergeAnonymous(d, s, t)
           r == Repointed(d, s, t)
           x == d.profile[s].anon
<1>0. TablesInv(d) /\ d.profile[s].exists /\ x \in Anon \cup {Null} /\ d.profile[s] \in ProfileRow
  BY DEF DbInv, TablesInv, ProfileRow, Live
<1>1. /\ DOMAIN r = Fields
      /\ r.profile = d.profile /\ r.suppression = d.suppression
      /\ r.merge = d.merge /\ r.blob = d.blob
  BY <1>0, RepointedTables DEF TablesInv
<1>2. e = [r EXCEPT !.profile[t].endpoint = Kept(d, s, t), !.profile[s] = [@ EXCEPT !.merged = t, !.ext = Null]]
  BY DEF mergeAnonymous
<1> HIDE DEF r, e
<1>3. /\ DOMAIN e = Fields
      /\ e.profile = [d.profile EXCEPT ![t].endpoint = Kept(d, s, t), ![s] = [@ EXCEPT !.merged = t, !.ext = Null]]
      /\ e.suppression = d.suppression
      /\ e.merge = d.merge
      /\ e.blob = d.blob
  BY <1>1, <1>2 DEF Fields
<1>4. [d.profile[s] EXCEPT !.merged = t, !.ext = Null] = [d.profile[s] EXCEPT !.merged = t, !.ext = Null, !.anon = x]
  BY <1>0 DEF ProfileRow
<1>5. e.profile = MergedRows(d, s, t, x)
  BY <1>0, <1>3, <1>4 DEF MergedRows, TablesInv
<1>6. e.profile \in [Profile -> ProfileRow] /\ Merges(d, e, s, t)
  BY <1>0, <1>5, MergedRowsShape
<1>7. TablesInv(e)
  BY <1>0, <1>3, <1>6 DEF TablesInv
<1>8. RowsInv(e) /\ \A m \in d.merge : m.open => m.source # s /\ e.profile[m.source].merged = m.target
  BY <1>6, MergesKeepsRows
<1>9. DbInv(e)
  BY <1>3, <1>7, <1>8, RowsChange
<1> QED
  BY <1>3, <1>9 DEF e

-----------------------------------------------------------------------------
(* Which profile an event is about                                         *)

\* w solves the equations of mergeInOrder.
Chain(w, d, n, q, k) == w = [i \in 1..k |-> IF i = 1 THEN d ELSE mergeProfiles(w[i - 1], n, q[i], q[1])]

LEMMA ChainExists ==
  ASSUME NEW d, NEW n, NEW q
  PROVE  \A k \in Nat : \E w : Chain(w, d, n, q, k)
<1> DEFINE T == {k \in Nat : ~ \E w : Chain(w, d, n, q, k)}
<1>1. SUFFICES ASSUME T # {} PROVE FALSE
  OBVIOUS
<1>2. PICK m \in T : \A k \in T : m <= k
  BY <1>1, LeastNat
<1>3. m \in Nat /\ ~ \E w : Chain(w, d, n, q, m)
  OBVIOUS
<1>4. m # 0
  <2> SUFFICES ASSUME m = 0 PROVE FALSE
    OBVIOUS
  <2> DEFINE w == [i \in 1..0 |-> d]
  <2>1. Chain(w, d, n, q, 0)
    BY DEF Chain
  <2> QED
    BY <1>3, <2>1
<1>5. m - 1 \in Nat /\ m - 1 \notin T
  BY <1>2, <1>3, <1>4
<1>6. PICK f : Chain(f, d, n, q, m - 1)
  BY <1>5
<1> DEFINE last == IF m = 1 THEN d ELSE mergeProfiles(f[m - 1], n, q[m], q[1])
           g == [i \in 1..m |-> IF i = m THEN last ELSE f[i]]
<1>7. ASSUME NEW i \in 1..m PROVE g[i] = IF i = 1 THEN d ELSE mergeProfiles(g[i - 1], n, q[i], q[1])
  <2>1. CASE i = m
    <3>1. g[i] = last /\ (m # 1 => g[m - 1] = f[m - 1])
      BY <1>3, <1>4, <2>1
    <3> QED
      BY <2>1, <3>1
  <2>2. CASE i # m
    <3>1. i \in 1..(m - 1) /\ g[i] = f[i] /\ (i # 1 => g[i - 1] = f[i - 1])
      BY <1>3, <2>2
    <3>2. f[i] = IF i = 1 THEN d ELSE mergeProfiles(f[i - 1], n, q[i], q[1])
      BY <1>6, <3>1 DEF Chain
    <3> QED
      BY <3>1, <3>2
  <2> QED
    BY <2>1, <2>2
<1>8. g = [i \in 1..m |-> g[i]]
  OBVIOUS
<1> HIDE DEF g
<1>9. Chain(g, d, n, q, m)
  BY <1>7, <1>8 DEF Chain
<1> QED
  BY <1>3, <1>9

\* mergeInOrder is the end of the chain.
LEMMA MergeInOrderIsChain ==
  ASSUME NEW d, NEW n, NEW q, NEW k \in Nat
  PROVE  \E w : Chain(w, d, n, q, k) /\ mergeInOrder(d, n, q, k) = w[k]
<1> DEFINE merged == CHOOSE w : Chain(w, d, n, q, k)
<1>1. Chain(merged, d, n, q, k)
  BY ChainExists
<1>2. mergeInOrder(d, n, q, k) = merged[k]
  BY DEF mergeInOrder, Chain
<1> QED
  BY <1>1, <1>2

\* Merging the candidates one after the other: each is in use when its turn comes.
LEMMA MergeInOrderKeeps ==
  ASSUME NEW d, DbInv(d), NEW n \in Nat, NEW k \in Nat, k # 0, NEW q \in [1..k -> Profile],
         \A i \in 1..k : Live(d, q[i]),
         \A i, j \in 1..k : i < j => q[i] # q[j]
  PROVE  DbInv(mergeInOrder(d, n, q, k)) /\ mergeInOrder(d, n, q, k).suppression = d.suppression
<1>1. PICK w : Chain(w, d, n, q, k) /\ mergeInOrder(d, n, q, k) = w[k]
  BY MergeInOrderIsChain
<1>2. \A i \in 1..k : w[i] = IF i = 1 THEN d ELSE mergeProfiles(w[i - 1], n, q[i], q[1])
  BY <1>1 DEF Chain
<1> DEFINE P(i) == /\ DbInv(w[i]) /\ w[i].suppression = d.suppression
                   /\ \A j \in 1..k : i < j => Live(w[i], q[j])
           T == {i \in 1..k : ~P(i)}
<1>3. P(1)
  <2>1. w[1] = d
    BY <1>2
  <2> QED
    BY <2>1
<1>4. ASSUME NEW i \in 1..k, i # 1, P(i - 1) PROVE P(i)
  <2>1. i - 1 \in 1..k /\ i \in Nat /\ 1 \in 1..k /\ 1 < i /\ i - 1 < i
    BY <1>4
  <2>2. q[i] \in Profile /\ q[1] \in Profile /\ q[i] # q[1] /\ Live(w[i - 1], q[i]) /\ DbInv(w[i - 1])
    BY <1>4, <2>1
  <2>3. w[i] = mergeProfiles(w[i - 1], n, q[i], q[1])
    BY <1>2, <1>4
  <2>4. DbInv(w[i]) /\ Merges(w[i - 1], w[i], q[i], q[1]) /\ w[i].suppression = w[i - 1].suppression
    BY <2>2, <2>3, MergeProfilesKeeps
  <2>5. ASSUME NEW j \in 1..k, i < j PROVE Live(w[i], q[j])
    <3>1. q[j] \in Profile \ {q[i], q[1]} /\ Live(w[i - 1], q[j])
      BY <1>4, <2>1, <2>5
    <3> QED
      BY <2>4, <3>1 DEF Merges, Live
  <2> QED
    BY <1>4, <2>4, <2>5
<1> HIDE DEF P
<1>5. T = {}
  <2> SUFFICES ASSUME T # {} PROVE FALSE
    OBVIOUS
  <2>1. T \in SUBSET Nat
    OBVIOUS
  <2>2. PICK m \in T : \A i \in T : m <= i
    BY <2>1, LeastNat
  <2>3. m \in 1..k /\ ~P(m)
    OBVIOUS
  <2>4. m # 1
    BY <1>3, <2>3
  <2>5. m - 1 \in 1..k /\ m - 1 \notin T
    BY <2>2, <2>3, <2>4
  <2> QED
    BY <1>4, <2>3, <2>4, <2>5
<1>6. P(k)
  <2>1. k \in 1..k
    OBVIOUS
  <2> QED
    BY <1>5, <2>1
<1> QED
  BY <1>1, <1>6 DEF P

\* A way to resolve the subject: the tables in order, and nobody reopened.
Sound(d, r) == DbInv(r.db) /\ r.profile \in Profile /\ r.db.suppression = d.suppression

LEMMA ResolveIdentitySound ==
  ASSUME NEW d, DbInv(d), NEW n \in Nat, NEW e, NEW r \in resolveIdentity(d, n, e)
  PROVE  Sound(d, r)
<1> DEFINE C == Candidates(d, e)
           k == Cardinality(C)
<1>1. C \subseteq Profile /\ \A p \in C : Live(d, p)
  BY DEF Candidates
<1>2. IsFiniteSet(C) /\ k \in Nat
  BY <1>1, ProfilesAssumption, FS_Subset, FS_CardinalityType
<1>3. C # {} /\ \E q \in Orders(d, e, C) : r = [db |-> mergeInOrder(d, n, q, k), profile |-> q[1]]
  BY DEF resolveIdentity
<1>4. PICK q \in Orders(d, e, C) : r = [db |-> mergeInOrder(d, n, q, k), profile |-> q[1]]
  BY <1>3
<1>5. k # 0
  BY <1>2, <1>3, FS_EmptySet
<1>6. q \in [1..k -> C] /\ \A i, j \in 1..k : i < j => q[i] # q[j]
  BY DEF Orders
<1> HIDE DEF C, k
<1>7. q \in [1..k -> Profile] /\ q[1] \in Profile /\ \A i \in 1..k : Live(d, q[i])
  BY <1>1, <1>2, <1>5, <1>6
<1>8. DbInv(mergeInOrder(d, n, q, k)) /\ mergeInOrder(d, n, q, k).suppression = d.suppression
  BY <1>2, <1>5, <1>6, <1>7, MergeInOrderKeeps
<1> QED
  BY <1>4, <1>7, <1>8 DEF Sound

\* Writing a row of profiles that stays, or stays no, tombstone.
LEMMA RowWritten ==
  ASSUME NEW d, DbInv(d), NEW p \in Profile, NEW row \in ProfileRow, row.merged = d.profile[p].merged,
         row.merged # Null => row.exists,
         row.ext # Null => row.exists /\ row.merged = Null
  PROVE  LET e == [d EXCEPT !.profile[p] = row] IN DbInv(e) /\ e.suppression = d.suppression
<1> DEFINE e == [d EXCEPT !.profile[p] = row]
<1>1. /\ DOMAIN e = Fields /\ e.profile = [d.profile EXCEPT ![p] = row]
      /\ e.suppression = d.suppression /\ e.merge = d.merge /\ e.blob = d.blob
  BY DEF DbInv, TablesInv, Fields
<1> HIDE DEF e
<1>2. TablesInv(e)
  BY <1>1 DEF DbInv, TablesInv
<1>3. \A q \in Profile : e.profile[q] = IF q = p THEN row ELSE d.profile[q]
  BY <1>1 DEF DbInv, TablesInv
<1>4. RowsInv(e)
  BY <1>3 DEF DbInv, RowsInv, Live
<1>5. ASSUME NEW m \in d.merge, m.open PROVE e.profile[m.source].merged = m.target
  <2>1. m.source \in Profile /\ d.profile[m.source].merged = m.target
    BY <1>5 DEF DbInv, TablesInv, MergesInv, MergeRow
  <2> QED
    BY <1>3, <2>1
<1>6. DbInv(e)
  BY <1>1, <1>2, <1>4, <1>5, RowsChange
<1> QED
  BY <1>1, <1>6 DEF e

\* Writing the tables that merges do not depend on.
LEMMA OthersWritten ==
  ASSUME NEW d, DbInv(d), NEW e, DOMAIN e = Fields, e.profile = d.profile, e.merge = d.merge, e.blob = d.blob,
         e.suppression \in [Endpoint -> Reasons \cup {Null}]
  PROVE  DbInv(e)
<1>1. TablesInv(e)
  BY DEF DbInv, TablesInv
<1>2. RowsInv(e)
  BY DEF DbInv, RowsInv, Live
<1>3. \A m \in d.merge : m.open => e.profile[m.source].merged = m.target
  BY DEF DbInv, MergesInv
<1> QED
  BY <1>1, <1>2, <1>3, RowsChange

LEMMA SameSound ==
  ASSUME NEW d, DbInv(d), NEW p \in Profile, NEW r \in Same(d, p)
  PROVE  Sound(d, r)
  BY DEF Same, Sound

LEMMA InsertedSound ==
  ASSUME NEW d, DbInv(d), NEW x \in Ext \cup {Null}, NEW a \in Anon \cup {Null}, NEW r \in Inserted(d, x, a)
  PROVE  Sound(d, r)
<1> DEFINE row == [NoProfile EXCEPT !.exists = TRUE, !.ext = x, !.anon = a]
<1>1. PICK p \in Profile : ~d.profile[p].exists /\ r = [db |-> [d EXCEPT !.profile[p] = row], profile |-> p]
  BY DEF Inserted
<1>2. row \in ProfileRow /\ row.exists /\ row.merged = Null
  BY DEF NoProfile, ProfileRow
<1>3. d.profile[p].merged = Null
  BY <1>1 DEF DbInv, RowsInv
<1> HIDE DEF row
<1>4. DbInv([d EXCEPT !.profile[p] = row]) /\ [d EXCEPT !.profile[p] = row].suppression = d.suppression
  BY <1>2, <1>3, RowWritten
<1> QED
  BY <1>1, <1>4 DEF Sound

LEMMA LinkedSound ==
  ASSUME NEW d, DbInv(d), NEW x \in Ext, NEW a \in Profile, Live(d, a), NEW r \in Linked(d, x, a)
  PROVE  Sound(d, r)
<1>1. CASE WithExt(d, x) = {}
  <2> DEFINE row == [d.profile[a] EXCEPT !.ext = x]
  <2>0. d.profile[a] \in ProfileRow
    BY DEF DbInv, TablesInv
  <2>1. row \in ProfileRow /\ row.exists /\ row.merged = Null /\ row.merged = d.profile[a].merged
    BY <2>0 DEF ProfileRow, Live
  <2>2. r = [db |-> [d EXCEPT !.profile[a].ext = x], profile |-> a]
    BY <1>1 DEF Linked, Same
  <2>3. [d EXCEPT !.profile[a].ext = x] = [d EXCEPT !.profile[a] = row]
    BY DEF DbInv, TablesInv, Fields
  <2> HIDE DEF row
  <2>4. DbInv([d EXCEPT !.profile[a] = row]) /\ [d EXCEPT !.profile[a] = row].suppression = d.suppression
    BY <2>1, RowWritten
  <2> QED
    BY <2>2, <2>3, <2>4 DEF Sound
<1>2. CASE WithExt(d, x) # {}
  <2>1. PICK b \in WithExt(d, x) : r \in IF a = b THEN Same(d, b)
                                         ELSE IF d.profile[b].anon = Null THEN {}
                                         ELSE Same(mergeAnonymous(d, a, b), b)
    BY <1>2 DEF Linked
  <2>2. b \in Profile
    BY DEF WithExt
  <2>3. CASE a = b
    BY <2>1, <2>2, <2>3, SameSound
  <2>4. CASE a # b
    <3>1. r \in Same(mergeAnonymous(d, a, b), b)
      BY <2>1, <2>4
    <3>2. DbInv(mergeAnonymous(d, a, b)) /\ mergeAnonymous(d, a, b).suppression = d.suppression
      BY <2>2, <2>4, MergeAnonymousKeeps
    <3> QED
      BY <2>2, <3>1, <3>2 DEF Same, Sound
  <2> QED
    BY <2>3, <2>4
<1> QED
  BY <1>1, <1>2

\* Whichever way the subject is resolved.
LEMMA ResolvedSound ==
  ASSUME NEW d, DbInv(d), NEW n \in Nat, NEW e, e.ext \in Ext \cup {Null}, e.anon \in Anon \cup {Null},
         NEW r \in Resolved(d, n, e)
  PROVE  Sound(d, r)
<1>1. CASE r \in resolveIdentity(d, n, e)
  BY <1>1, ResolveIdentitySound
<1>2. CASE r \in ensureProfile(d, e)
  <2>1. CASE r \in Inserted(d, e.ext, e.anon)
    BY <2>1, InsertedSound
  <2>2. CASE \E p \in Profile : r \in Same(d, p)
    BY <2>2, SameSound
  <2>3. CASE e.ext # Null /\ \E a \in AnonymousProfile(d, e.anon) : r \in Linked(d, e.ext, a)
    <3>1. PICK a \in AnonymousProfile(d, e.anon) : r \in Linked(d, e.ext, a)
      BY <2>3
    <3>2. a \in Profile /\ Live(d, a) /\ e.ext \in Ext
      BY <2>3 DEF AnonymousProfile, WithAnon
    <3> QED
      BY <3>1, <3>2, LinkedSound
  <2>4. WithAnon(d, e.anon) \subseteq Profile /\ WithExt(d, e.ext) \subseteq Profile
    BY DEF WithAnon, WithExt
  <2>5. CASE e.ext = Null
    BY <1>2, <2>1, <2>2, <2>4, <2>5 DEF ensureProfile
  <2>6. CASE e.ext # Null /\ AnonymousProfile(d, e.anon) # {}
    BY <1>2, <2>3, <2>6 DEF ensureProfile
  <2>7. CASE e.ext # Null /\ AnonymousProfile(d, e.anon) = {}
    BY <1>2, <2>1, <2>2, <2>4, <2>7 DEF ensureProfile
  <2> QED
    BY <2>5, <2>6, <2>7
<1> QED
  BY <1>1, <1>2 DEF Resolved

-----------------------------------------------------------------------------
(* What an event does to the profile                                       *)

\* From d to e the tables stay in order, and no endpoint that only an
\* administrator may open is touched.
Final == {"bounce", "complaint", "admin"}
KeepsClosed(d, e) == \A n \in Endpoint : d.suppression[n] \in Final => e.suppression[n] = d.suppression[n]
Keeps(d, e) == DbInv(e) /\ KeepsClosed(d, e)

LEMMA SuppressedKeeps ==
  ASSUME NEW d, DbInv(d), NEW n \in Endpoint \cup {Null}, NEW reason \in Reasons
  PROVE  Keeps(d, Suppressed(d, n, reason))
<1>1. CASE n = Null \/ d.suppression[n] # Null
  BY <1>1 DEF Suppressed, Keeps, KeepsClosed
<1>2. CASE n # Null /\ d.suppression[n] = Null
  <2> DEFINE e == [d EXCEPT !.suppression[n] = reason]
  <2>1. /\ DOMAIN e = Fields /\ e.profile = d.profile /\ e.merge = d.merge /\ e.blob = d.blob
        /\ e.suppression = [d.suppression EXCEPT ![n] = reason]
    BY DEF DbInv, TablesInv, Fields
  <2>2. Suppressed(d, n, reason) = e /\ n \in Endpoint
    BY <1>2 DEF Suppressed
  <2> HIDE DEF e
  <2>3. e.suppression \in [Endpoint -> Reasons \cup {Null}]
    BY <2>1, <2>2 DEF DbInv, TablesInv
  <2>4. DbInv(e)
    BY <2>1, <2>3, OthersWritten
  <2>5. KeepsClosed(d, e)
    BY <1>2, <2>1, NullAssumption DEF DbInv, TablesInv, KeepsClosed, Final, Reasons
  <2> QED
    BY <2>2, <2>4, <2>5 DEF Keeps
<1> QED
  BY <1>1, <1>2

LEMMA ReopenedKeeps ==
  ASSUME NEW d, DbInv(d), NEW n \in Endpoint \cup {Null}
  PROVE  Keeps(d, Reopened(d, n))
<1>1. CASE n = Null \/ d.suppression[n] # "unsubscribe"
  BY <1>1 DEF Reopened, Keeps, KeepsClosed
<1>2. CASE n # Null /\ d.suppression[n] = "unsubscribe"
  <2> DEFINE e == [d EXCEPT !.suppression[n] = Null]
  <2>1. /\ DOMAIN e = Fields /\ e.profile = d.profile /\ e.merge = d.merge /\ e.blob = d.blob
        /\ e.suppression = [d.suppression EXCEPT ![n] = Null]
    BY DEF DbInv, TablesInv, Fields
  <2>2. Reopened(d, n) = e /\ n \in Endpoint
    BY <1>2 DEF Reopened
  <2> HIDE DEF e
  <2>3. e.suppression \in [Endpoint -> Reasons \cup {Null}]
    BY <2>1, <2>2 DEF DbInv, TablesInv
  <2>4. DbInv(e)
    BY <2>1, <2>3, OthersWritten
  <2>5. KeepsClosed(d, e)
    BY <1>2, <2>1 DEF DbInv, TablesInv, KeepsClosed, Final
  <2> QED
    BY <2>2, <2>4, <2>5 DEF Keeps
<1> QED
  BY <1>1, <1>2

LEMMA UpdateProfileKeeps ==
  ASSUME NEW d, DbInv(d), NEW p \in Profile, NEW n \in Endpoint
  PROVE  DbInv(updateProfile(d, p, n)) /\ updateProfile(d, p, n).suppression = d.suppression
<1> DEFINE row == [d.profile[p] EXCEPT !.endpoint = n]
<1>1. d.profile[p] \in ProfileRow
  BY DEF DbInv, TablesInv
<1>2. /\ row \in ProfileRow /\ row.exists = d.profile[p].exists
      /\ row.merged = d.profile[p].merged /\ row.ext = d.profile[p].ext
  BY <1>1 DEF ProfileRow
<1>3. updateProfile(d, p, n) = [d EXCEPT !.profile[p] = row]
  BY DEF updateProfile, DbInv, TablesInv, Fields
<1> HIDE DEF row
<1>4. (row.merged # Null => row.exists) /\ (row.ext # Null => row.exists /\ row.merged = Null)
  BY <1>2 DEF DbInv, RowsInv, Live
<1> QED
  BY <1>2, <1>3, <1>4, RowWritten

LEMMA ChangeConsentKeeps ==
  ASSUME NEW d, DbInv(d), NEW n, NEW p \in Profile, NEW state, NEW at
  PROVE  Keeps(d, changeConsent(d, n, p, state, at))
<1> DEFINE e == [d EXCEPT !.consent = @ \cup {[event |-> n, profile |-> p, state |-> state, at |-> at]}]
           x == d.profile[p].endpoint
<1>1. /\ DOMAIN e = Fields /\ e.profile = d.profile /\ e.merge = d.merge /\ e.blob = d.blob
      /\ e.suppression = d.suppression
  BY DEF DbInv, TablesInv, Fields
<1>2. changeConsent(d, n, p, state, at) \in {Suppressed(e, x, "unsubscribe"), Reopened(e, x)}
  BY DEF changeConsent
<1> HIDE DEF e
<1>3. DbInv(e)
  <2>1. d.suppression \in [Endpoint -> Reasons \cup {Null}]
    BY DEF DbInv, TablesInv
  <2> QED
    BY <1>1, <2>1, OthersWritten
<1>4. x \in Endpoint \cup {Null} /\ "unsubscribe" \in Reasons
  BY DEF DbInv, TablesInv, ProfileRow, Reasons
<1>5. Keeps(e, Suppressed(e, x, "unsubscribe")) /\ Keeps(e, Reopened(e, x))
  BY <1>3, <1>4, SuppressedKeeps, ReopenedKeeps
<1> QED
  BY <1>1, <1>2, <1>5 DEF Keeps, KeepsClosed

LEMMA AddAliasesKeeps ==
  ASSUME NEW d, DbInv(d), NEW p, NEW keys
  PROVE  Keeps(d, addAliases(d, p, keys))
<1> DEFINE e == addAliases(d, p, keys)
<1>1. /\ DOMAIN e = Fields /\ e.profile = d.profile /\ e.merge = d.merge /\ e.blob = d.blob
      /\ e.suppression = d.suppression
  BY DEF addAliases, DbInv, TablesInv, Fields
<1> HIDE DEF e
<1>2. d.suppression \in [Endpoint -> Reasons \cup {Null}]
  BY DEF DbInv, TablesInv
<1>3. DbInv(e)
  BY <1>1, <1>2, OthersWritten
<1> QED
  BY <1>1, <1>3 DEF Keeps, KeepsClosed, e

\* Who has an external id is in use, so what is merged is.
LEMMA MergeIntoKeeps ==
  ASSUME NEW d, DbInv(d), NEW n \in Nat, NEW p \in Profile, NEW x
  PROVE  Keeps(d, mergeInto(d, n, p, x))
<1> DEFINE sources == WithExt(d, x) \ {p}
           s == CHOOSE s \in sources : TRUE
<1>1. CASE sources = {}
  BY <1>1 DEF mergeInto, Keeps, KeepsClosed
<1>2. CASE sources # {}
  <2>1. s \in sources /\ mergeInto(d, n, p, x) = mergeProfiles(d, n, s, p)
    BY <1>2 DEF mergeInto
  <2> HIDE DEF s
  <2>2. s \in Profile /\ s # p /\ Live(d, s)
    BY <2>1 DEF WithExt, DbInv, RowsInv
  <2> QED
    BY <2>1, <2>2, MergeProfilesKeeps DEF Keeps, KeepsClosed
<1> QED
  BY <1>1, <1>2

\* Undoing an open merge restores the row of its source, and of nobody else.
LEMMA UnmergeKeeps ==
  ASSUME NEW d, DbInv(d), NEW m \in d.merge, m.open, NEW e \in unmergeProfile(d, m)
  PROVE  Keeps(d, e)
<1> DEFINE row == [d.blob[m.ref].row EXCEPT !.merged = Null]
           closed == [m EXCEPT !.open = FALSE]
           s == m.source
<1>1. /\ m \in MergeRow /\ s \in Profile /\ m.ref \in DOMAIN d.blob /\ d.profile[s].merged = m.target
      /\ \A o \in d.merge : o.open /\ o.source = s => o = m
      /\ d.blob[m.ref].row \in ProfileRow /\ d.blob[m.ref].row.exists
  BY DEF DbInv, TablesInv, MergesInv, BlobsInv, MergeRow
<1>2. row \in ProfileRow /\ row.exists /\ row.merged = Null
  BY <1>1 DEF ProfileRow
<1>3. closed \in MergeRow /\ ~closed.open /\ closed.ref = m.ref /\ closed.source = s
  BY <1>1 DEF MergeRow
<1>4. e = [d EXCEPT !.profile[s] = row,
                    !.alias = [k \in Key |-> IF k \in d.blob[m.ref].aliases /\ @[k] = m.target THEN s ELSE @[k]],
                    !.consent = {[c EXCEPT !.profile = IF c.event \in d.blob[m.ref].consents THEN s ELSE @] : c \in @},
                    !.merge = (@ \ {m}) \cup {closed}]
  BY <1>1 DEF unmergeProfile
<1> HIDE DEF row, closed
<1>5. /\ DOMAIN e = Fields
      /\ e.profile = [d.profile EXCEPT ![s] = row]
      /\ e.suppression = d.suppression
      /\ e.merge = (d.merge \ {m}) \cup {closed}
      /\ e.blob = d.blob
  BY <1>4 DEF DbInv, TablesInv, Fields
<1>6. TablesInv(e)
  BY <1>1, <1>2, <1>3, <1>5 DEF DbInv, TablesInv
<1>7. \A q \in Profile : e.profile[q] = IF q = s THEN row ELSE d.profile[q]
  BY <1>5 DEF DbInv, TablesInv
<1>8. RowsInv(e)
  BY <1>2, <1>7 DEF DbInv, RowsInv, Live
<1>9. BlobsInv(e)
  BY <1>5 DEF DbInv, BlobsInv
<1>10. MergesInv(e)
  <2> SUFFICES ASSUME NEW o \in e.merge
               PROVE  /\ o.ref \in DOMAIN e.blob
                      /\ o.ref[2] = o.source
                      /\ o.open => /\ e.profile[o.source].merged = o.target
                                   /\ \A u \in e.merge : u.open /\ u.source = o.source => u = o
    BY DEF MergesInv
  <2>1. CASE o = closed
    BY <1>1, <1>3, <1>5, <2>1 DEF DbInv, MergesInv
  <2>2. CASE o # closed
    <3>1. o \in d.merge /\ o # m /\ o.source \in Profile
      BY <1>5, <2>2 DEF DbInv, TablesInv, MergeRow
    <3>2. o.ref \in DOMAIN e.blob /\ o.ref[2] = o.source
      BY <1>5, <3>1 DEF DbInv, MergesInv
    <3>3. ASSUME o.open
          PROVE  /\ e.profile[o.source].merged = o.target
                 /\ \A u \in e.merge : u.open /\ u.source = o.source => u = o
      <4>1. o.source # s
        BY <1>1, <3>1, <3>3
      <4>2. /\ d.profile[o.source].merged = o.target
            /\ \A u \in d.merge : u.open /\ u.source = o.source => u = o
        BY <3>1, <3>3 DEF DbInv, MergesInv
      <4> QED
        BY <1>3, <1>5, <1>7, <3>1, <4>1, <4>2
    <3> QED
      BY <3>2, <3>3
  <2> QED
    BY <2>1, <2>2
<1> QED
  BY <1>5, <1>6, <1>8, <1>9, <1>10 DEF Keeps, KeepsClosed, DbInv

-----------------------------------------------------------------------------
(* The steps                                                               *)

LEMMA ResolvedKeeps ==
  ASSUME NEW d, NEW r, Sound(d, r), NEW e, Keeps(r.db, e)
  PROVE  Keeps(d, e)
  BY DEF Sound, Keeps, KeepsClosed

LEMMA NowType == ContactInv => Now \in Nat
  BY DEF ContactInv, Now

\* An event of the API about the profile it is resolved to.
LEMMA EventKeeps ==
  ASSUME ContactInv, NEW e \in Subject, Event(e)
  PROVE  Keeps(db, db')
<1>1. e.ext \in Ext \cup {Null} /\ e.anon \in Anon \cup {Null}
  BY DEF Subject
<1>2. DbInv(db) /\ Now \in Nat
  BY NowType DEF ContactInv
<1>3. \A r \in Resolved(db, Now, e) : Sound(db, r)
  BY <1>1, <1>2, ResolvedSound
<1>4. CASE ProfileUpdated(e)
  <2>1. PICK r \in Resolved(db, Now, e), n \in Endpoint : db' = updateProfile(r.db, r.profile, n)
    BY <1>4 DEF ProfileUpdated
  <2>2. Sound(db, r)
    BY <1>3
  <2>3. DbInv(db') /\ db'.suppression = r.db.suppression
    BY <2>1, <2>2, UpdateProfileKeeps DEF Sound
  <2> QED
    BY <2>2, <2>3 DEF Keeps, KeepsClosed, Sound
<1>5. CASE ConsentChanged(e)
  <2>1. PICK r \in Resolved(db, Now, e), state \in {"subscribed", "unsubscribed"}, lag \in Lag :
           db' = changeConsent(r.db, Now, r.profile, state, Now - lag)
    BY <1>5 DEF ConsentChanged
  <2>2. Sound(db, r)
    BY <1>3
  <2>3. Keeps(r.db, db')
    BY <2>1, <2>2, ChangeConsentKeeps DEF Sound
  <2> QED
    BY <2>2, <2>3, ResolvedKeeps
<1>6. CASE identifyIdentity(e)
  <2>1. PICK r \in Resolved(db, Now, e), keys \in {e.identities} \cup {{k} : k \in Key} :
           db' = addAliases(r.db, r.profile, keys)
    BY <1>6 DEF identifyIdentity
  <2>2. Sound(db, r)
    BY <1>3
  <2>3. Keeps(r.db, db')
    BY <2>1, <2>2, AddAliasesKeeps DEF Sound
  <2> QED
    BY <2>2, <2>3, ResolvedKeeps
<1>7. CASE mergeIdentity(e)
  <2>1. PICK r \in Resolved(db, Now, e), x \in Ext : db' = mergeInto(r.db, Now, r.profile, x)
    BY <1>7 DEF mergeIdentity
  <2>2. Sound(db, r)
    BY <1>3
  <2>3. Keeps(r.db, db')
    BY <1>2, <2>1, <2>2, MergeIntoKeeps DEF Sound
  <2> QED
    BY <2>2, <2>3, ResolvedKeeps
<1> QED
  BY <1>4, <1>5, <1>6, <1>7 DEF Event

LEMMA FormKeeps ==
  ASSUME ContactInv, NEW x \in Ext, NEW n \in Endpoint, submitPublicForm(x, n)
  PROVE  Keeps(db, db')
<1> DEFINE e == [ext |-> x, anon |-> Null, identities |-> {}]
<1>1. PICK r \in Resolved(db, Now, e) :
         db' = changeConsent(updateProfile(r.db, r.profile, n), Now, r.profile, "subscribed", Now + FormLead)
  BY DEF submitPublicForm
<1>2. e.ext \in Ext \cup {Null} /\ e.anon \in Anon \cup {Null}
  OBVIOUS
<1> HIDE DEF e
<1>3. DbInv(db) /\ Now \in Nat
  BY NowType DEF ContactInv
<1>4. Sound(db, r)
  BY <1>2, <1>3, ResolvedSound
<1> DEFINE u == updateProfile(r.db, r.profile, n)
<1>5. DbInv(u) /\ u.suppression = r.db.suppression
  BY <1>4, UpdateProfileKeeps DEF Sound
<1>6. Keeps(u, db')
  BY <1>1, <1>4, <1>5, ChangeConsentKeeps DEF Sound
<1> HIDE DEF u
<1> QED
  BY <1>4, <1>5, <1>6 DEF Keeps, KeepsClosed, Sound

\* Setting or removing a suppression by hand touches no other table.
LEMMA SuppressionWritten ==
  ASSUME NEW d, DbInv(d), NEW n \in Endpoint, NEW v \in Reasons \cup {Null}
  PROVE  LET e == [d EXCEPT !.suppression[n] = v] IN
         DbInv(e) /\ e.suppression = [d.suppression EXCEPT ![n] = v]
<1> DEFINE e == [d EXCEPT !.suppression[n] = v]
<1>1. /\ DOMAIN e = Fields /\ e.profile = d.profile /\ e.merge = d.merge /\ e.blob = d.blob
      /\ e.suppression = [d.suppression EXCEPT ![n] = v]
  BY DEF DbInv, TablesInv, Fields
<1> HIDE DEF e
<1>2. e.suppression \in [Endpoint -> Reasons \cup {Null}]
  BY <1>1 DEF DbInv, TablesInv
<1>3. DbInv(e)
  BY <1>1, <1>2, OthersWritten
<1> QED
  BY <1>1, <1>3 DEF e

LEMMA ReachKeeps ==
  ASSUME ContactInv, Reach
  PROVE  DbInv(db') /\ (KeepsClosed(db, db') \/ audits' = audits + 1) /\ steps' \in Nat
<1>0. DbInv(db) /\ steps \in Nat
  BY DEF ContactInv
<1>1. PICK n \in Endpoint :
        \/ \E x \in Ext : submitPublicForm(x, n)
        \/ \E reason \in Reasons : SuppressEndpoint(n, reason)
        \/ RemoveSuppression(n)
        \/ \E reason \in {"bounce", "complaint"} : handleSESCallback(n, reason)
        \/ \E state \in {"subscribed", "unsubscribed"} : handleSMSCallback(n, state)
  BY DEF Reach
<1>2. CASE \E x \in Ext : submitPublicForm(x, n)
  <2>1. Keeps(db, db')
    BY <1>2, FormKeeps
  <2>2. steps' \in Nat
    BY <1>0, <1>2 DEF submitPublicForm, Consents, Steps
  <2> QED
    BY <2>1, <2>2 DEF Keeps
<1>3. CASE \E reason \in Reasons : SuppressEndpoint(n, reason)
  <2>1. PICK reason \in Reasons : SuppressEndpoint(n, reason)
    BY <1>3
  <2>2. db' = [db EXCEPT !.suppression[n] = reason] /\ audits' = audits + 1 /\ steps' = steps + 1
    BY <2>1 DEF SuppressEndpoint, Steps
  <2>3. DbInv([db EXCEPT !.suppression[n] = reason])
    BY <1>0, SuppressionWritten
  <2> QED
    BY <1>0, <2>2, <2>3
<1>4. CASE RemoveSuppression(n)
  <2>1. db' = [db EXCEPT !.suppression[n] = Null] /\ audits' = audits + 1 /\ steps' = steps + 1
    BY <1>4 DEF RemoveSuppression, Steps
  <2>2. DbInv([db EXCEPT !.suppression[n] = Null])
    BY <1>0, SuppressionWritten
  <2> QED
    BY <1>0, <2>1, <2>2
<1>5. CASE \E reason \in {"bounce", "complaint"} : handleSESCallback(n, reason)
  <2>1. PICK reason \in {"bounce", "complaint"} : handleSESCallback(n, reason)
    BY <1>5
  <2>2. db' = Suppressed(db, n, reason) /\ steps' = steps + 1 /\ reason \in Reasons
    BY <2>1 DEF handleSESCallback, Steps, Reasons
  <2>3. Keeps(db, db')
    BY <1>0, <2>2, SuppressedKeeps
  <2> QED
    BY <1>0, <2>2, <2>3 DEF Keeps
<1>6. CASE \E state \in {"subscribed", "unsubscribed"} : handleSMSCallback(n, state)
  <2>1. db' = db /\ steps' = steps + 1
    BY <1>6, ApplicationAssumption DEF handleSMSCallback, Accepts, Steps
  <2> QED
    BY <1>0, <2>1 DEF KeepsClosed
<1> QED
  BY <1>1, <1>2, <1>3, <1>4, <1>5, <1>6

LEMMA ContactStep ==
  ASSUME ContactInv, [ContactsNext]_contactsVars
  PROVE  ContactInv' /\ (KeepsClosed(db, db') \/ audits' = audits + 1)
<1>0. DbInv(db) /\ steps \in Nat
  BY DEF ContactInv
<1>1. CASE \E e \in Subject : Named(e) /\ Event(e)
  <2>1. Keeps(db, db')
    BY <1>1, EventKeeps
  <2>2. steps' = steps + 1
    BY <1>1 DEF Event, ProfileUpdated, ConsentChanged, identifyIdentity, mergeIdentity, Projects, Consents,
       Steps
  <2> QED
    BY <1>0, <2>1, <2>2 DEF Keeps, ContactInv
<1>2. CASE unmergeIdentity
  <2>1. PICK m \in {o \in db.merge : o.open} : db' \in unmergeProfile(db, m)
    BY <1>2 DEF unmergeIdentity
  <2>2. Keeps(db, db')
    BY <1>0, <2>1, UnmergeKeeps
  <2>3. steps' = steps + 1
    BY <1>2 DEF unmergeIdentity, Projects, Consents, Steps
  <2> QED
    BY <1>0, <2>2, <2>3 DEF Keeps, ContactInv
<1>3. CASE Reach
  BY <1>3, ReachKeeps DEF ContactInv
<1>4. CASE Device \/ InApp \/ Synchronise \/ UNCHANGED contactsVars
  <2>1. db' = db /\ steps' \in {steps, steps + 1}
    <3>1. CASE Device
      BY <3>1 DEF Device, deactivateDeviceToken, RegisterDeviceToken, handlePushCallback, SyncList, Devices, Steps
    <3>2. CASE InApp
      BY <3>2 DEF InApp, createAdminMessage, CreateInAppMessage, EngagementProjected, reportMessageEngagement,
         Inboxes, Steps
    <3>3. CASE Synchronise
      BY <3>3 DEF Synchronise, SyncRegister, SyncRetire
    <3>4. CASE UNCHANGED contactsVars
      BY <3>4 DEF contactsVars
    <3> QED
      BY <1>4, <3>1, <3>2, <3>3, <3>4
  <2> QED
    BY <1>0, <2>1 DEF KeepsClosed, ContactInv
<1> QED
  BY <1>1, <1>2, <1>3, <1>4 DEF ContactsNext

LEMMA ContactInitially == ContactsInit => ContactInv
<1> SUFFICES ASSUME ContactsInit PROVE ContactInv
  OBVIOUS
<1>1. /\ DOMAIN db = Fields /\ db.profile = [p \in Profile |-> NoProfile]
      /\ db.suppression = [n \in Endpoint |-> Null] /\ db.merge = {} /\ db.blob = <<>> /\ steps = 0
  BY DEF ContactsInit, Fields
<1>2. NoProfile \in ProfileRow /\ NoProfile.merged = Null /\ NoProfile.ext = Null
  BY DEF NoProfile, ProfileRow
<1>3. TablesInv(db) /\ RowsInv(db)
  BY <1>1, <1>2 DEF TablesInv, RowsInv
<1>4. BlobsInv(db) /\ MergesInv(db)
  BY <1>1 DEF BlobsInv, MergesInv
<1> QED
  BY <1>1, <1>3, <1>4 DEF ContactInv, DbInv

\* Whatever events merge, link, alias and unmerge, a recorded merge that was
\* not undone still has what its reversal reads: the row of its source is the
\* tombstone it left, no other open merge claims that row, and the snapshot it
\* names is of that row (mergeProfiles, unmergeProfile).  Merges of several
\* candidates by one event are included, for any number of profiles and
\* identities.
THEOREM MergesKeepTheirSnapshots == ContactsSpec => []OpenMergesAreReversible
<1>1. ContactInv => OpenMergesAreReversible
  BY DEF ContactInv, DbInv, MergesInv, BlobsInv, OpenMergesAreReversible
<1>2. ContactInv /\ [ContactsNext]_contactsVars => ContactInv'
  BY ContactStep
<1> QED
  BY <1>1, <1>2, ContactInitially, PTL DEF ContactsSpec

\* A lookup by external id never finds a tombstone (ensureProfile and the
\* source of identity.merge in ProjectEvent), for any number of profiles.
THEOREM ExternalIdsFindLiveProfiles == ContactsSpec => []ExternalIdsNameLiveProfiles
<1>1. ContactInv => ExternalIdsNameLiveProfiles
  BY DEF ContactInv, DbInv, RowsInv, ExternalIdsNameLiveProfiles
<1>2. ContactInv /\ [ContactsNext]_contactsVars => ContactInv'
  BY ContactStep
<1> QED
  BY <1>1, <1>2, ContactInitially, PTL DEF ContactsSpec

\* No event, form or keyword opens an endpoint that bounced, complained or was
\* suppressed by an administrator: a step that does writes an audit event
\* (RemoveSuppression; the DELETE of consent.changed is for 'unsubscribe').
THEOREM AdministratorsReopen == ContactsSpec => OnlyAdministratorsReopen
<1>1. ContactInv /\ [ContactsNext]_contactsVars => ContactInv'
  BY ContactStep
<1>2. ContactInv /\ [ContactsNext]_contactsVars =>
        [\A n \in Endpoint :
           db.suppression[n] \in {"bounce", "complaint", "admin"} /\ db'.suppression[n] = Null
             => audits' = audits + 1]_contactsVars
  BY ContactStep, NullAssumption DEF KeepsClosed, Final, Reasons
<1> QED
  BY <1>1, <1>2, ContactInitially, PTL DEF ContactsSpec, OnlyAdministratorsReopen
=============================================================================
