--------------------------- MODULE SelfImprovement ---------------------------
(* SelfImprovementEngine: the protocol of a code change (E3), from the      *)
(* draft of a policy gap to the roll-back of its deployment.  Each handler  *)
(* is called on its own, by whoever knows the proposal's id, and looks for  *)
(* the steps before it in the audit log.                                    *)
(*                                                                          *)
(* Blank arguments, branch names and verification commands that do not      *)
(* match the proposal's make a handler raise and are left out.              *)
EXTENDS ImprovementTables

Known(p) == p \in proposals /\ p \in CodeChanges

\* create_code_change_drafts, for one policy-gap signal; the proposal's id is
\* a digest of the signal.
CreateDraft(c, p) ==
    /\ p \in gaps
    /\ Starts(c, IF p \in proposals THEN <<Propose(p)>>
                 ELSE <<Propose(p), Audit(p, "proposal_created", Blank)>>)

RecordApproval(c, p) ==
    /\ Known(p)
    /\ Starts(c, <<Approve(p, "approved"),
                   Audit(p, "human_approved", Blank)>>)

\* (Wrong variant: the approval is not looked up.)
PreparesUnapproved(p) == Known(p)

MayPrepare(p) == Known(p) /\ IsApproved(p)

PreparePackage(c, p) ==
    /\ MayPrepare(p)
    /\ Starts(c, <<Audit(p, "code_change_package_prepared", Blank)>>)

RecordVerification(c, p) ==
    /\ Known(p)
    /\ Has(p, "code_change_package_prepared")
    /\ \E result \in {"verification_passed", "verification_failed"} :
        Starts(c, <<Audit(p, "verification_started", Blank),
                    Audit(p, result, Blank)>>)

Reviewable(p) ==
    /\ Known(p) /\ IsApproved(p)
    /\ Has(p, "code_change_package_prepared")
    /\ Has(p, "verification_passed")

PrepareReviewPacket(c, p) ==
    /\ Reviewable(p)
    /\ Starts(c, <<Audit(p, "human_review_requested", Blank)>>)

RecordReviewDecision(c, p) ==
    /\ Known(p)
    /\ Has(p, "human_review_requested")
    /\ \E decision \in {"human_review_approved", "human_review_rejected"} :
        Starts(c, <<Audit(p, decision, Blank)>>)

RecordPublication(c, p, u) ==
    /\ Known(p)
    /\ Has(p, "human_review_approved")
    /\ Has(p, "code_change_package_prepared")
    /\ Starts(c, <<Audit(p, "branch_pushed", Blank),
                   Audit(p, "mr_created", PullRequest(u))>>)

\* (Wrong variant: any published pull request will do.)
MergesAny(p, u) == Known(p) /\ Has(p, "mr_created")

\* The pull request that is merged is the one of the newest publication.
Merges(p, u) == Known(p) /\ Newest(p, "mr_created", PullRequest(u))

RecordMerge(c, p, u, k) ==
    /\ Merges(p, u)
    /\ Starts(c, <<Audit(p, "mr_merged", Merged(u, k))>>)

PrepareDeploymentPlan(c, p, k, t) ==
    /\ Known(p)
    /\ \E u \in Urls : Newest(p, "mr_merged", Merged(u, k))
    /\ Starts(c, <<Audit(p, "deployment_plan_prepared", Plan(k, t))>>)

RecordDeployment(c, p, k, t) ==
    /\ Known(p)
    /\ Newest(p, "deployment_plan_prepared", Plan(k, t))
    /\ \E status \in {"deployment_succeeded", "deployment_failed"} :
        Starts(c, <<Audit(p, "deployment_started", Plan(k, t)),
                    Audit(p, status, Plan(k, t))>>)

\* A deployment of some plan was recorded, and the newest plan is for t.
Deployed(p, t) ==
    /\ Known(p)
    /\ \E k \in Commits : Newest(p, "deployment_plan_prepared", Plan(k, t))
    /\ Has(p, "deployment_succeeded") \/ Has(p, "deployment_failed")

RecordRollback(c, p, t) ==
    /\ Deployed(p, t)
    /\ Starts(c, <<Audit(p, "rollback_started", On(t)),
                   Audit(p, "rollback_succeeded", On(t))>>)

RecordMonitoring(c, p, t) ==
    /\ Deployed(p, t)
    /\ Starts(c, <<Audit(p, "post_deploy_monitor_recorded", On(t))>>)

CodeChange(c, p) ==
    \/ CreateDraft(c, p)
    \/ RecordApproval(c, p)
    \/ PreparePackage(c, p)
    \/ RecordVerification(c, p)
    \/ PrepareReviewPacket(c, p)
    \/ RecordReviewDecision(c, p)
    \/ \E u \in Urls : RecordPublication(c, p, u)
    \/ \E u \in Urls, k \in Commits : RecordMerge(c, p, u, k)
    \/ \E k \in Commits, t \in Targets : PrepareDeploymentPlan(c, p, k, t)
    \/ \E k \in Commits, t \in Targets : RecordDeployment(c, p, k, t)
    \/ \E t \in Targets : RecordRollback(c, p, t) \/ RecordMonitoring(c, p, t)

=============================================================================
