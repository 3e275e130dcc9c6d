----------------------------- MODULE Improvement -----------------------------
(* Self-improvement as a whole: code changes and configuration changes over *)
(* the same tables of proposals, approvals and audit rows, by several       *)
(* callers whose calls interleave and break off.                            *)
EXTENDS SelfImprovement, ConfigPatch

vars == <<tables, files, call>>

Init ==
    /\ TablesInit
    /\ FilesInit

\* One write of a call.
Write(c) ==
    /\ call[c] # <<>>
    /\ call' = [call EXCEPT ![c] = Tail(@)]
    /\ \/ Records(Head(call[c])) /\ UNCHANGED files
       \/ Writes(Head(call[c])) /\ UNCHANGED tables

\* A call in the middle of the write of the file.
HalfWrite(c) ==
    /\ call[c] # <<>>
    /\ HalfWrites(Head(call[c]))
    /\ UNCHANGED <<tables, call>>

\* The process of a call ends before its next write, or inside it.
BreakOff(c) ==
    /\ call[c] # <<>>
    /\ call' = [call EXCEPT ![c] = <<>>]
    /\ UNCHANGED files \/ TearsCopy(Head(call[c]))
    /\ UNCHANGED tables

Begin(c) ==
    \E p \in Proposals :
        \/ CodeChange(c, p) /\ UNCHANGED files
        \/ ConfigChange(c, p)

Next == \E c \in Callers :
            Begin(c) \/ Write(c) \/ HalfWrite(c) \/ BreakOff(c)

Spec == Init /\ [][Next]_vars

------------------------------------------------------------------------------

TypeOK ==
    /\ gaps \subseteq CodeChanges
    /\ proposals \subseteq Proposals
    /\ approvals \subseteq Decision
    /\ audit \subseteq Row
    /\ newest \in [Proposals -> [Events -> SUBSET Payload]]
    /\ call \in [Callers -> Seq(TableWrite \cup FileWrite)]
    /\ file \in Content
    /\ backups \in [Stamps -> Content \cup {NoFile}]
    /\ torn \in BOOLEAN
    /\ clashed \in BOOLEAN

\* The audit row of a step, and the steps it may not come without.
Recorded(p, e) == \E r \in audit : r.proposal = p /\ r.event = e

\* The gates of a code change stand in order, whoever calls which handler
\* when: nothing is packaged without an approval, verified without a package,
\* put to review without a verification that passed, published without a
\* review that approved, merged without a publication, planned without a
\* merge, deployed without a plan, or rolled back without a deployment
\* (the preconditions of the handlers of SelfImprovementEngine).  The approval
\* may be any: prepare_code_change_package does not ask for the repository,
\* the branch prefix and the commands that an approval record must include
\* (v0.4-self-improvement.md:204), and ImprovementEngine records it without.
GatesInOrder ==
    \A p \in CodeChanges :
        /\ Recorded(p, "code_change_package_prepared") => IsApproved(p)
        /\ Recorded(p, "verification_passed") =>
              Recorded(p, "code_change_package_prepared")
        /\ Recorded(p, "human_review_requested") =>
              Recorded(p, "verification_passed")
        /\ Recorded(p, "human_review_approved") =>
              Recorded(p, "human_review_requested")
        /\ Recorded(p, "branch_pushed") => Recorded(p, "human_review_approved")
        /\ Recorded(p, "mr_created") => Recorded(p, "branch_pushed")
        /\ Recorded(p, "mr_merged") => Recorded(p, "mr_created")
        /\ Recorded(p, "deployment_plan_prepared") => Recorded(p, "mr_merged")
        /\ \/ Recorded(p, "deployment_started")
           \/ Recorded(p, "deployment_succeeded")
           \/ Recorded(p, "deployment_failed")
           => Recorded(p, "deployment_plan_prepared")
        /\ Recorded(p, "rollback_succeeded") =>
              \/ Recorded(p, "deployment_succeeded")
              \/ Recorded(p, "deployment_failed")

\* What is deployed was planned, what is planned was merged, and what was
\* merged is a pull request published after a review that approved it: also
\* when a newer plan, merge or publication comes between a precondition and
\* the write (record_code_change_deployment, ..._deployment_plan, ..._merge).
DeploysWhatWasReviewed ==
    \A d \in audit :
        d.event \in {"deployment_started", "deployment_succeeded",
                     "deployment_failed"} =>
            /\ \E r \in audit : /\ r.proposal = d.proposal
                                /\ r.event = "deployment_plan_prepared"
                                /\ r.value = d.value
            /\ \E m, r \in audit :
                /\ m.proposal = d.proposal /\ m.event = "mr_merged"
                /\ m.value.commit = d.value.commit
                /\ r.proposal = d.proposal /\ r.event = "mr_created"
                /\ r.value.url = m.value.url
            /\ Recorded(d.proposal, "human_review_approved")

\* Where a value of the configuration may come from: it is the original one,
\* one of a low-risk patch that was approved, or the roll-back value of a
\* proposal.
ComesFrom(q, v) ==
    \/ v = Original[q]
    \/ \E p \in Whitelisted :
        /\ q \in DOMAIN Patch[p]
        /\ \/ v = Patch[p][q] /\ p \in LowRisk /\ IsApproved(p)
           \/ v = RollbackValue[p]

\* Every value of a configuration comes from there; once the file has been
\* half written, a value may also be missing, or the front of such a value.
Accounted(f) ==
    \A q \in Paths :
        \/ ComesFrom(q, f[q])
        \/ /\ torn
           /\ \/ f[q] = None
              \/ \E v \in Values : ComesFrom(q, v) /\ f[q] \in Cuts[v]

\* The configuration is accounted for, whatever calls interleave, take back
\* what others wrote or break off: before anybody is in the middle of a write
\* of the file every value of it is exact, and afterwards nothing that is not
\* a value, or the front of one, that an approved low-risk patch, a roll-back
\* or the original gave it (apply_config_patch, rollback_config_patch).
ValuesAreAccountedFor == IF file = Unreadable THEN torn ELSE Accounted(file)

\* The configuration that the first call found is in the file or in a backup,
\* whatever is torn and however calls interleave, until two calls use one
\* backup name.  Nothing keeps them from it (_backup_path): without created_at
\* every backup has the same name, and the second call of all loses it.
OriginalIsKept ==
    \/ file = Original
    \/ \E s \in Stamps : backups[s] = Original
    \/ clashed

=============================================================================
