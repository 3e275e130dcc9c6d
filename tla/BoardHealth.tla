----------------------------- MODULE BoardHealth -----------------------------
(* A board as the supervisor reads it, and what analyze_health and          *)
(* build_relationship make of it (board.py).  The board is written by       *)
(* Hermes, its workers and time; the supervisor only reads it, and asks     *)
(* Hermes to archive and to purge tasks (cleanup).                          *)
EXTENDS Naturals, Sequences, FiniteSets

CONSTANTS Tasks     \* ids; their order is the order of the ids as text

ASSUME TasksAssumption == Tasks \subseteq Nat /\ IsFiniteSet(Tasks)

VARIABLES
    status,     \* tasks.status, or "absent" when the row was purged
    links,      \* task_links: <<parent, child>>
    age,        \* since it started, blocked or was made: 1 when past
                \* stale_claim_seconds, 2 when past task_timeout_seconds too
    beating,    \* tasks with a heartbeat within stale_claim_seconds
    approved    \* tasks whose comments approve a review, and that nobody
                \* unblocked

board == <<status, links, age, beating, approved>>

Statuses == {"triage", "todo", "scheduled", "ready", "running", "blocked",
             "review", "gave_up", "failed", "done", "completed", "cancelled",
             "archived", "absent"}

Parents(t) == {p \in Tasks : <<p, t>> \in links}

Children(t) == {c \in Tasks : <<t, c>> \in links}

Present(S) == {t \in S : status[t] # "absent"}

------------------------------------------------------------------------------
(* The findings of analyze_health, by kind.                                 *)

RunningWithoutRecentHeartbeat(t) ==
    status[t] = "running" /\ age[t] >= 1 /\ t \notin beating

RunningExceededTaskTimeout(t) == status[t] = "running" /\ age[t] = 2

LongTermBlocked(t) == status[t] = "blocked" /\ age[t] = 2

ReviewApprovedButStillBlocked(t) == status[t] = "blocked" /\ t \in approved

\* (Wrong variant: a parent that failed is forgotten.)
BlockedByBlockedParent(t) ==
    /\ status[t] \in {"todo", "ready", "blocked"}
    /\ \E p \in Parents(t) : status[p] \in {"blocked", "gave_up"}

DependencyBlockedByStuckParent(t) ==
    /\ status[t] \in {"todo", "ready", "blocked"}
    /\ \E p \in Parents(t) : status[p] \in {"blocked", "gave_up", "failed"}

\* (Wrong variant: an archived parent is not done.)
BlockedWithParentsCompleted(t) ==
    /\ status[t] \in {"todo", "blocked"}
    /\ Parents(t) # {}
    /\ \A p \in Present(Parents(t)) :
          status[p] \in {"done", "completed", "cancelled"}

\* A link to a purged parent counts as a link, and its parent as done.
BlockedWithAllParentsDone(t) ==
    /\ status[t] \in {"todo", "blocked"}
    /\ Parents(t) # {}
    /\ \A p \in Present(Parents(t)) :
          status[p] \in {"done", "completed", "cancelled", "archived"}

\* For this finding an archived task is closed neither as a root nor as a
\* child.
RootNotClosedAfterChildrenDone(t) ==
    /\ status[t] \notin {"done", "completed", "cancelled", "absent"}
    /\ Parents(t) = {}
    /\ Present(Children(t)) # {}
    /\ \A c \in Present(Children(t)) :
          status[c] \in {"done", "completed", "cancelled"}

Kinds == {"running_without_recent_heartbeat", "running_exceeded_task_timeout",
          "long_term_blocked", "review_approved_but_still_blocked",
          "dependency_blocked_by_stuck_parent", "blocked_with_all_parents_done",
          "root_not_closed_after_children_done"}

Finding == [task : Tasks, kind : Kinds]

Found(kind, t) ==
    \/ /\ kind = "running_without_recent_heartbeat"
       /\ RunningWithoutRecentHeartbeat(t)
    \/ /\ kind = "running_exceeded_task_timeout"
       /\ RunningExceededTaskTimeout(t)
    \/ kind = "long_term_blocked" /\ LongTermBlocked(t)
    \/ /\ kind = "review_approved_but_still_blocked"
       /\ ReviewApprovedButStillBlocked(t)
    \/ /\ kind = "dependency_blocked_by_stuck_parent"
       /\ DependencyBlockedByStuckParent(t)
    \/ kind = "blocked_with_all_parents_done" /\ BlockedWithAllParentsDone(t)
    \/ /\ kind = "root_not_closed_after_children_done"
       /\ RootNotClosedAfterChildrenDone(t)

Findings == {f \in Finding : Found(f.kind, f.task)}

------------------------------------------------------------------------------
(* build_relationship: the root of a task.                                  *)

\* order by parent_id.
Sorted(S) ==
    CHOOSE s \in [1 .. Cardinality(S) -> S] :
        \A i, j \in DOMAIN s : i < j => s[i] < s[j]

\* What the walk over the parents keeps.
Walk == [frontier : Seq(Tasks), seen : SUBSET Tasks, root : Tasks]

\* (Wrong variant: the frontier is a stack.)
TurnInDepth(w) ==
    LET parent == Head(w.frontier)
    IN  IF parent \in w.seen THEN [w EXCEPT !.frontier = Tail(@)]
        ELSE [frontier |-> Sorted(Parents(parent)) \o Tail(w.frontier),
              seen |-> w.seen \cup {parent}, root |-> parent]

\* One turn of its loop: the frontier is a queue.
Turn(w) ==
    LET parent == Head(w.frontier)
    IN  IF parent \in w.seen THEN [w EXCEPT !.frontier = Tail(@)]
        ELSE [frontier |-> Tail(w.frontier) \o Sorted(Parents(parent)),
              seen |-> w.seen \cup {parent}, root |-> parent]

\* The last task that a breadth-first walk over the parents reaches.
Root(t) ==
    LET walk[w \in Walk] ==
            IF w.frontier = <<>> THEN w.root ELSE walk[Turn(w)]
    IN  walk[[frontier |-> Sorted(Parents(t)), seen |-> {t}, root |-> t]]

=============================================================================
