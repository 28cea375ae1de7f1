--------------------------- MODULE ReportWorkflow ---------------------------
(***************************************************************************)
(* Reports: drafted by their owner, frozen, submitted, and published by    *)
(* somebody else.  A body is known by the number of the patch that wrote   *)
(* it, a snapshot by the number in its id, and the evidence of a report by *)
(* which of its references are approved.                                   *)
(***************************************************************************)
EXTENDS Naturals

CONSTANTS Reports,
          People, Bots,     \* who asks; callers say truly which of them they are
          MaxRevision       \* bound of the model

ASSUME ReportAssumption == People \cap Bots = {}

VARIABLE reports            \* reports[r]: the report with id r

Actors == People \cup Bots
Statuses == {"draft", "snapshot", "submitted", "published"}
Manifests == (SUBSET BOOLEAN) \ {{}}
Absent == [status |-> "absent"]
Report == [status : Statuses, owner : Actors, evidence : Manifests, revision : Nat,
           snapshot : Nat, submitter : SUBSET Actors, reviewer : SUBSET Actors]

RepInit == reports = [r \in Reports |-> Absent]

In(r, status) == reports[r].status = status

CreateReport(r, owner, evidence) ==
    /\ In(r, "absent")
    /\ reports' = [reports EXCEPT ![r] =
                     [status |-> "draft", owner |-> owner, evidence |-> evidence, revision |-> 0,
                      snapshot |-> 0, submitter |-> {}, reviewer |-> {}]]

Patch_Frozen(r, actor) ==
    /\ In(r, "draft") \/ In(r, "snapshot")
    /\ actor = reports[r].owner /\ reports[r].revision < MaxRevision
    /\ reports' = [reports EXCEPT ![r].revision = @ + 1]

Patch(r, actor) ==
    /\ In(r, "draft") /\ actor = reports[r].owner /\ reports[r].revision < MaxRevision
    /\ reports' = [reports EXCEPT ![r].revision = @ + 1]

(* require_approved: every reference of the manifest. *)
Snapshot(r, actor) ==
    /\ In(r, "draft") /\ actor = reports[r].owner /\ FALSE \notin reports[r].evidence
    /\ reports' = [reports EXCEPT ![r].status = "snapshot", ![r].snapshot = reports[r].revision]

RequestSubmit(r, actor) ==
    /\ actor \notin Bots /\ In(r, "snapshot") /\ actor = reports[r].owner
    /\ reports' = [reports EXCEPT ![r].status = "submitted", ![r].submitter = {actor}]

ReviewAndPublish(r, reviewer) ==
    /\ reviewer \notin Bots /\ In(r, "submitted") /\ {reviewer} # reports[r].submitter
    /\ reports' = [reports EXCEPT ![r].status = "published", ![r].reviewer = {reviewer}]

RepNext == \E r \in Reports, actor \in Actors :
              \/ \E evidence \in Manifests : CreateReport(r, actor, evidence)
              \/ Patch(r, actor) \/ Snapshot(r, actor)
              \/ RequestSubmit(r, actor) \/ ReviewAndPublish(r, actor)

RepSpec == RepInit /\ [][RepNext]_reports

-----------------------------------------------------------------------------
RepTypeOK == reports \in [Reports -> Report \cup {Absent}]

(* Nothing changes between the snapshot and the publication: what is       *)
(* published is the body that was frozen, on approved evidence, submitted  *)
(* by its owner and published by another, both of them human.              *)
(* ARCHITECTURE.md:453, 511.                                               *)
PublishedAsReviewed ==
    \A r \in Reports :
       /\ reports[r].status \in Statuses \ {"draft"} =>
             reports[r].snapshot = reports[r].revision /\ reports[r].evidence = {TRUE}
       /\ reports[r].status \in {"submitted", "published"} =>
             reports[r].submitter = {reports[r].owner} \cap People /\ reports[r].submitter # {}
       /\ In(r, "published") =>
             \E reviewer \in People \ {reports[r].owner} : reports[r].reviewer = {reviewer}
=============================================================================
