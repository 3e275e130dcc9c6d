-------------------------- MODULE ImprovementTables --------------------------
(* The tables the improvement engines share: improvement_proposal,          *)
(* improvement_approval and improvement_audit of the state database, and    *)
(* the calls of the people and programs that use the engines.  Every        *)
(* record_* function of WardenStateStore is a transaction of its own, so a  *)
(* call checks its preconditions, and then makes its writes one by one; it  *)
(* may break off before each.  A call that raises ValueError or             *)
(* ConfigPatchError writes nothing and is a stuttering step.                *)
(*                                                                          *)
(* The recent_* functions read the newest 1000 rows.  Rows never go away,   *)
(* so an older row is one a precondition no longer sees: the call raises.   *)
EXTENDS Naturals, Sequences, FiniteSets

CONSTANTS
    Callers,        \* whoever calls the engines: operators, scripts
    CodeChanges,    \* proposals of type code_change, level E3
    ConfigChanges,  \* proposals of type config_change, level E2
    Urls, Commits, Targets,   \* pull requests, merge commits, profiles
    None,           \* no value: a column or a payload field that is not set
    Kept,           \* events whose rows the model keeps; nobody reads others
    MaxRows,        \* bound: calls begin while audit has fewer kept rows
    Starting        \* choices of what is there at the start: configuration
                    \* changes recorded, policy gaps signalled

Proposals == CodeChanges \cup ConfigChanges

VARIABLES
    gaps,        \* improvement_signal: code changes with a policy gap at E3
    proposals,   \* improvement_proposal: the proposals recorded
    approvals,   \* improvement_approval: [proposal, decision]
    audit,       \* improvement_audit: its rows, in no order
    newest,      \* per proposal and event, the payload of the newest row
    call         \* the writes each caller still has to make

tables == <<gaps, proposals, approvals, audit, newest>>

Events ==
    {"proposal_created", "human_approved", "human_rejected",
     "code_change_package_prepared", "verification_started",
     "verification_passed", "verification_failed", "human_review_requested",
     "human_review_approved", "human_review_rejected", "branch_pushed",
     "mr_created", "mr_merged", "deployment_plan_prepared",
     "deployment_started", "deployment_succeeded", "deployment_failed",
     "rollback_started", "rollback_succeeded", "post_deploy_monitor_recorded",
     "config_patch_prepared", "config_patch_applied", "dry_run_before",
     "dry_run_after", "rollback_prepared"}

\* What the preconditions below and the properties of the gates look for.
Read == {"branch_pushed", "code_change_package_prepared", "verification_passed",
         "human_review_requested", "human_review_approved", "mr_created",
         "mr_merged", "deployment_plan_prepared", "deployment_started",
         "deployment_succeeded", "deployment_failed"}

ASSUME ProposalAssumption ==
    /\ CodeChanges \cap ConfigChanges = {}
    /\ Starting \subseteq SUBSET Proposals
    /\ None \notin Urls \cup Commits \cup Targets
    /\ Read \subseteq Kept /\ Kept \subseteq Events

\* What later calls compare of a payload.
Payload == [url : Urls \cup {None}, commit : Commits \cup {None},
            target : Targets \cup {None}]

Blank == [url |-> None, commit |-> None, target |-> None]

PullRequest(u) == [Blank EXCEPT !.url = u]

Merged(u, k) == [Blank EXCEPT !.url = u, !.commit = k]

\* (Wrong variant: the two are swapped.)
PlanSwapped(k, t) == [Blank EXCEPT !.commit = t, !.target = k]

Plan(k, t) == [Blank EXCEPT !.commit = k, !.target = t]

On(t) == [Blank EXCEPT !.target = t]

Row == [proposal : Proposals, event : Events, value : Payload]

Decision == [proposal : Proposals, decision : {"approved", "rejected"}]

------------------------------------------------------------------------------
(* Writes a call has in hand.                                               *)

Propose(p) == [table |-> "proposal", row |-> p]

Approve(p, d) ==
    [table |-> "approval", row |-> [proposal |-> p, decision |-> d]]

Audit(p, e, v) ==
    [table |-> "audit", row |-> [proposal |-> p, event |-> e, value |-> v]]

TableWrite ==
    [table : {"proposal"}, row : Proposals]
        \cup [table : {"approval"}, row : Decision]
        \cup [table : {"audit"}, row : Row]

\* A call whose preconditions hold: it goes on to its writes.
Starts(c, writes) ==
    /\ Cardinality(audit) < MaxRows
    /\ call[c] = <<>>
    /\ call' = [call EXCEPT ![c] = writes]
    /\ UNCHANGED tables

\* One transaction of a call: insert or ignore.  Rows are read by created_at,
\* which is the caller's or the clock of the call: when calls overlap, a row
\* may be older than one that is there, which then stays the newest.
Records(w) ==
    \/ /\ w.table = "proposal"
       /\ proposals' = proposals \cup {w.row}
       /\ UNCHANGED <<gaps, approvals, audit, newest>>
    \/ /\ w.table = "approval"
       /\ approvals' = approvals \cup {w.row}
       /\ UNCHANGED <<gaps, proposals, audit, newest>>
    \/ /\ w.table = "audit"
       /\ IF w.row.event \in Kept
          THEN /\ audit' = audit \cup {w.row}
               /\ \E v \in {w.row.value} \cup newest[w.row.proposal][w.row.event] :
                      newest' = [newest EXCEPT
                                    ![w.row.proposal][w.row.event] = {v}]
          ELSE UNCHANGED <<audit, newest>>
       /\ UNCHANGED <<gaps, proposals, approvals>>

------------------------------------------------------------------------------
(* What the engines read.                                                   *)

\* _audit_payload(p, e) is not None.
Has(p, e) == newest[p][e] # {}

\* _audit_payload(p, e) is a row with this payload.
Newest(p, e, v) == newest[p][e] = {v}

\* (Wrong variant: whoever was asked counts.)
AskedFor(p) == \E a \in approvals : a.proposal = p

\* _is_approved and _approval_by_id: any row that approves, however many
\* reject.
IsApproved(p) == [proposal |-> p, decision |-> "approved"] \in approvals

NoRows == [p \in Proposals |-> [e \in Events |-> {}]]

TablesInit ==
    /\ \E there \in Starting : /\ gaps = there \cap CodeChanges
                               /\ proposals = there \cap ConfigChanges
    /\ approvals = {}
    /\ audit = {}
    /\ newest = NoRows
    /\ call = [c \in Callers |-> <<>>]

=============================================================================
