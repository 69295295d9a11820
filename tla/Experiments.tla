---------------------------- MODULE Experiments ----------------------------
(***************************************************************************)
(* An experiment beside the versioned resource of Publishing: its report   *)
(* writes the recommended winner back, a proposal snapshots it, a human    *)
(* approves the proposal into an immutable assignment snapshot, or rolls   *)
(* the winner out, as a version of the journey bound to the experiment or  *)
(* as a campaign of its own.  A behaviour of kind "experiment" edits the   *)
(* experiment; one of kind "journey" has a running one with a winner and   *)
(* rolls it out between the edits and publications of the journey.         *)
(***************************************************************************)
EXTENDS Publishing, Sequences

CONSTANTS Labels,        \* variant labels
          Bound,         \* the documents whose graph names the experiment
          Pinned,        \* pinJourneyExperiment of a bound document and a label
          MaxProposals,  \* bound on proposals
          MaxRollouts,   \* bound on campaigns rolled out
          NoLabel, Holdout

ASSUME LabelAssumption == NoLabel \notin Labels /\ Holdout \notin Labels /\ Bound \subseteq Contents
ASSUME PinnedAssumption == Pinned \in [Bound \X Labels -> (Contents \ Bound) \cup {NoContent}]

VARIABLES exp,        \* the experiments row and its variants
          found,      \* the winner the report of each principal computed
          proposals,  \* optimization_proposals, in the order of insertion
          snapshots,  \* experiment_versions, by version
          campaigns   \* campaigns scheduled by rollouts

evars == <<exp, found, proposals, snapshots, campaigns>>

\* No operation tells a draft from a running experiment.
Experiment == [status: {"running", "completed"}, labels: SUBSET Labels,
               winner: Labels \cup {NoLabel, Holdout}, subject: {"campaign", "journey"}]

\* A request that has ended keeps nothing of its report.
Forgets == found' = [p \in Principals |-> IF session'[p].step = "idle" THEN NoLabel ELSE found[p]]

\* The resource of Publishing is left alone.
Elsewhere == UNCHANGED <<kind, row, versions, audit, policy, blobs>>

-----------------------------------------------------------------------------
(* Experiments                                                             *)

\* The client sends every field, the winner too.  The labels are the variants.
Sent == {e \in Experiment : e.status = "running" /\ e.winner # Holdout}

createExperiment(p) ==
    /\ kind = "experiment" /\ exp = NoRow
    /\ \E e \in Sent : exp' = e
    /\ Elsewhere /\ UNCHANGED <<session, found, proposals, snapshots, campaigns>>

\* Variants are deleted and inserted again; the seed, which a running
\* experiment must keep, is not told apart, and the subject is kept fixed here.
updateExperiment(p) ==
    /\ kind = "experiment" /\ exp # NoRow
    /\ \E e \in Sent : e.subject = exp.subject /\ exp' = e
    /\ Elsewhere /\ UNCHANGED <<session, found, proposals, snapshots, campaigns>>

\* What the statistics may recommend: a variant, nothing, or the holdout, which
\* is compared with the control as the variants are.
recommendWinner == exp.labels \cup {NoLabel, Holdout}

\* The report reads the experiment and compares its variants with the facts ...
ExperimentReport(p, s) ==
    /\ exp # NoRow /\ kind = "experiment"
    /\ \E w \in recommendWinner : found' = [found EXCEPT ![p] = w]
    /\ Begins(p, s, NoRow)
    /\ Elsewhere /\ UNCHANGED <<exp, proposals, snapshots, campaigns>>

getExperimentReport(p) == ExperimentReport(p, "reporting")
proposeExperimentOptimization(p) == ExperimentReport(p, "advising")

\* ... and writes the winner it recommends back, over any edit made meanwhile.
RecordsWinner(p) ==
    /\ session[p].step \in {"reporting", "advising"}
    /\ exp' = [exp EXCEPT !.winner = found[p]]
    /\ session' = [session EXCEPT ![p].step =
                     IF session[p].step = "reporting" \/ found[p] = NoLabel THEN "idle" ELSE "looking"]
    /\ Forgets /\ Elsewhere /\ UNCHANGED <<proposals, snapshots, campaigns>>

Awaiting(w) == \E i \in DOMAIN proposals : proposals[i] = [winner |-> w, status |-> "proposed"]

\* A proposal of the same winner awaiting review is returned.
LooksUpProposal(p) ==
    /\ session[p].step = "looking"
    /\ session' = [session EXCEPT ![p].step = IF Awaiting(found[p]) THEN "idle" ELSE "proposing"]
    /\ Forgets /\ Elsewhere /\ UNCHANGED <<exp, proposals, snapshots, campaigns>>

\* Nothing keeps a second proposal from being inserted since the look-up.
ProposeExperimentOptimization(p) ==
    /\ session[p].step = "proposing" /\ Len(proposals) < MaxProposals
    /\ proposals' = Append(proposals, [winner |-> found[p], status |-> "proposed"])
    /\ Ends(p) /\ Forgets
    /\ Elsewhere /\ UNCHANGED <<exp, snapshots, campaigns>>

\* Mutant: the proposal keeps its status.
SettlesUnmarked(i) == UNCHANGED proposals

Settles(i) == proposals' = [proposals EXCEPT ![i].status = "approved"]

\* Under the lock of the experiment and of the proposal.  The winner gets all
\* the weight, if it is still a variant; a proposal approved before returns
\* its snapshot.
ApproveExperimentOptimization(p, i) ==
    /\ proposals[i].status = "proposed"
    /\ snapshots' = Append(snapshots, [proposal |-> i, serves |-> exp.labels \cap {proposals[i].winner}])
    /\ Settles(i)
    /\ Elsewhere /\ UNCHANGED <<session, exp, found, campaigns>>

approveExperimentOptimization(p) ==
    isHuman(p) /\ \E i \in DOMAIN proposals : ApproveExperimentOptimization(p, i)

-----------------------------------------------------------------------------
(* Rollout                                                                 *)

\* One transaction holds the experiment's row, whatever its status.
Completes == exp' = [exp EXCEPT !.status = "completed"]

rolloutCampaign(p) ==
    /\ exp.subject = "campaign" /\ kind = "experiment"
    /\ campaigns < MaxRollouts
    /\ campaigns' = campaigns + 1
    /\ Completes
    /\ Elsewhere /\ UNCHANGED <<session, found, proposals, snapshots>>

pinJourneyExperiment(c) == IF c \in Bound THEN Pinned[c, exp.winner] ELSE NoContent

\* latest_version of the locked journey.
rolloutVersion == row.latest + 1

\* The current version is archived and a pinned copy of it takes its place; no
\* manifest is put and no checker is asked.  The draft keeps the experiment.
rolloutJourney(p) ==
    /\ exp.subject = "journey" /\ kind = "journey" /\ row # NoRow
    /\ row.current # 0 /\ rolloutVersion <= MaxVersions
    /\ LET pinned == pinJourneyExperiment(versions[row.current].content) IN
       /\ pinned # NoContent
       /\ versions' = [i \in DOMAIN versions \cup {rolloutVersion} |->
            IF i = rolloutVersion
            THEN [content |-> pinned, manifest |-> NoContent, status |-> "active",
                  eval |-> "pending"]
            ELSE IF i = row.current THEN [versions[i] EXCEPT !.status = "draft"] ELSE versions[i]]
    /\ row' = [row EXCEPT !.status = "published", !.current = rolloutVersion, !.latest = rolloutVersion]
    /\ Completes
    /\ UNCHANGED <<kind, audit, policy, blobs, session, found, proposals, snapshots, campaigns>>

RolloutExperiment(p) ==
    /\ exp # NoRow /\ exp.winner \in exp.labels
    /\ rolloutCampaign(p) \/ rolloutJourney(p)

rolloutExperiment(p) == isHuman(p) /\ RolloutExperiment(p)

-----------------------------------------------------------------------------
(* The specification                                                       *)

ExperimentRequests(p) ==
    \/ createExperiment(p) \/ updateExperiment(p)
    \/ getExperimentReport(p) \/ proposeExperimentOptimization(p)
    \/ approveExperimentOptimization(p) \/ rolloutExperiment(p)

ExperimentContinues(p) ==
    RecordsWinner(p) \/ LooksUpProposal(p) \/ ProposeExperimentOptimization(p)

\* A running experiment on a journey.
Running == [status: {"running"}, labels: {Labels}, winner: Labels, subject: {"journey"}]

ExperimentsInit ==
    /\ Init
    /\ exp \in IF kind = "journey" THEN Running ELSE {NoRow}
    /\ found = [p \in Principals |-> NoLabel]
    /\ proposals = <<>> /\ snapshots = <<>> /\ campaigns = 0

ExperimentsNext ==
    \/ Next /\ Forgets /\ UNCHANGED <<exp, proposals, snapshots, campaigns>>
    \/ \E p \in Principals : (Admits(p) /\ ExperimentRequests(p)) \/ ExperimentContinues(p)

ExperimentsSpec == ExperimentsInit /\ [][ExperimentsNext]_<<vars, evars>>

-----------------------------------------------------------------------------
(* Properties                                                              *)

\* An approval is counted once: the approved proposals and the immutable
\* snapshots are one to one, whatever was retried, proposed twice or edited
\* in between, and a snapshot serves its proposal's winner or nobody
\* (ApproveExperimentOptimization).
ApprovalsAreSnapshots ==
    /\ \A i \in DOMAIN proposals :
         Cardinality({n \in DOMAIN snapshots : snapshots[n].proposal = i})
           = IF proposals[i].status = "approved" THEN 1 ELSE 0
    /\ \A n \in DOMAIN snapshots : snapshots[n].serves \subseteq {proposals[snapshots[n].proposal].winner}
=============================================================================
