----------------------------- MODULE Remediation -----------------------------
(* run_deadlock_remediation (remediation.py): the second reading of the     *)
(* board in a health sweep.  It returns proposals for the status report and *)
(* changes nothing.  What the texts of a task and its comments say is       *)
(* reduced to what the regular expressions and searches find in them.       *)
EXTENDS BoardHealth

VARIABLE says   \* what the cards say, as a record of the sets below

TextFacts == [fix : SUBSET Tasks,       \* the card is a fix
              review : SUBSET Tasks,    \* the card is a review
              changes : SUBSET Tasks,   \* card or comments need changes
              required : SUBSET Tasks,  \* card, comments or events ask for
                                        \* a review
              rejected : SUBSET Tasks,  \* a claim was rejected: parents_not_done
              mentions : SUBSET (Tasks \X Tasks)]   \* <<card, mentioned>>

NeedsChanges(c, p) == c \in says.changes \/ p \in says.changes

ReferencesParent(c, p) ==
    <<c, p>> \in says.mentions \/ <<p, c>> \in says.mentions

\* The guards of _build_edge_proposal on an edge whose parent is not done.
\* The age of a card that waits is its age since it was made.
Suspect(c, p) ==
    /\ <<p, c>> \in links
    /\ status[c] \in {"todo", "ready"}
    /\ c \in says.rejected \/ age[c] >= 1
    /\ ReferencesParent(c, p) \/ NeedsChanges(c, p) \/ p \in says.required
    /\ status[p] \in {"todo", "running", "blocked"}

UnlinkRecoveryParent(c, p) ==
    Suspect(c, p) /\ (c \in says.fix \/ NeedsChanges(c, p))

UnlinkReviewerParent(c, p) ==
    /\ Suspect(c, p) /\ ~UnlinkRecoveryParent(c, p)
    /\ c \in says.review
    /\ p \in says.required \/ ReferencesParent(c, p)

\* (Wrong variant: a parent that does not run any more will do.)
PromoteStaleBehind(t) ==
    /\ status[t] = "todo"
    /\ Parents(t) # {}
    /\ \A p \in Present(Parents(t)) : status[p] # "running"
    /\ age[t] >= 1

\* _build_stale_ready_proposal.  Here only "done" and "archived" are done.
PromoteStaleTodo(t) ==
    /\ status[t] = "todo"
    /\ Parents(t) # {}
    /\ \A p \in Present(Parents(t)) : status[p] \in {"done", "archived"}
    /\ age[t] >= 1

\* The tasks of edge proposals, and of promotions: every edge proposal would
\* mutate, so a child of one is not looked at again.
Unlinked ==
    {c \in Tasks : \E p \in Tasks :
        UnlinkRecoveryParent(c, p) \/ UnlinkReviewerParent(c, p)}

Promoted == {t \in Tasks \ Unlinked : PromoteStaleTodo(t)}

=============================================================================
