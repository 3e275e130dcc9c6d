----------------------------- MODULE HealthSweep -----------------------------
(* The health sweep of a supervisor (supervisor.py): collect() reads the    *)
(* board, plans for its findings and applies the plan; then the remediation *)
(* scan reads the board again, and the cleanup archives and purges tasks    *)
(* and prunes the state database.  One supervisor sweeps at a time          *)
(* (LeaderLock).  Board, tables and days are those of BoardHealth and       *)
(* Retention; a sweep is short beside a day.                                *)
(*                                                                          *)
(* Left out: dry-run (nothing is applied or archived, but the state is      *)
(* pruned), several boards, vacuum and gc.                                  *)
EXTENDS Remediation, Retention

CONSTANTS
    DoneRetention, ArchivedRetention,   \* cleanup.*_retention_days
    CleanupInterval,    \* cleanup.min_interval_seconds, in days
    Never,              \* _last_cleanup before the first one
    MaxFaults,          \* bound on the sweeps that break off
    Starting            \* boards to start from, with who watches them: a
                        \* record of the variables below; no changes and
                        \* no supervisor to look at the board alone

ASSUME SweepAssumption ==
    /\ Cards \subseteq Tasks
    /\ DoneRetention \in Nat /\ ArchivedRetention \in Nat
    /\ CleanupInterval \in Nat /\ Never \notin Nat /\ MaxFaults \in Nat

VARIABLES
    completed,  \* tasks.completed_at, of tasks that are done or archived
    changes,    \* bound: changes to a task that may still come, once each
    supervised, \* a supervisor is running
    pc,         \* where its sweep is
    plan,       \* the keys it has still to apply
    hand,       \* the key it works on
    tidy,       \* the cleanup plan: tasks to archive, tasks to purge
    report,     \* last_health_report: tasks to unlink, tasks to promote
    cleaned,    \* _last_cleanup
    faults      \* how many sweeps broke off

sweep == <<pc, plan, hand, tidy, cleaned>>

vars == <<board, says, completed, changes, supervised, now, rows, history,
          sweep, report, faults>>

Change == [task : Tasks, status : Statuses \ {"archived", "absent"},
           age : 0 .. 2, beats : BOOLEAN]

\* What Init takes from a choice of Starting.
ASSUME StartingAssumption ==
    Starting \subseteq
        [status : [Tasks -> Statuses], links : SUBSET (Tasks \X Tasks),
         age : [Tasks -> 0 .. 2], beating : SUBSET Tasks,
         approved : SUBSET Tasks, says : TextFacts, completed : [Tasks -> Days],
         changes : SUBSET Change, supervised : BOOLEAN]

\* health:<board>:<task>:<kind>:<action>, with the attempt of a retry.
Key == [task : Cards, kind : Kinds, action : Followed,
        attempt : 0 .. MaxRetries]

GoTo(step) == pc' = step

Nothing == [archive |-> {}, purge |-> {}]

------------------------------------------------------------------------------
(* The board and the clock.                                                 *)

\* Hermes, a worker or time changes a task: it takes a status, is in it for so
\* long, and has a heartbeat or not.
TaskChanges(c) ==
    /\ c \in changes
    /\ status[c.task] # "absent"
    /\ status' = [status EXCEPT ![c.task] = c.status]
    /\ age' = [age EXCEPT ![c.task] = c.age]
    /\ beating' = (beating \ {c.task}) \cup {t \in {c.task} : c.beats}
    /\ completed' = [completed EXCEPT ![c.task] = now]
    /\ changes' = changes \ {c}
    /\ UNCHANGED <<links, approved, says, supervised, now, rows, history,
                   sweep, report, faults>>

DayPasses ==
    /\ supervised /\ now < LastDay
    /\ pc = "idle"
    /\ now' = now + 1
    /\ UNCHANGED <<board, says, completed, changes, supervised, rows, history,
                   sweep, report, faults>>

\* A drain settles a row.
Deliver(k) ==
    /\ Settle(k)
    /\ UNCHANGED <<board, says, completed, changes, supervised, sweep, report,
                   faults>>

------------------------------------------------------------------------------
(* collect(): analyze_health, plan_for_health and apply.                    *)

KeyOf(f, action, attempt) ==
    [task |-> f.task, kind |-> f.kind, action |-> action, attempt |-> attempt]

Stale == {"running_without_recent_heartbeat", "running_exceeded_task_timeout"}

\* One recovery for a task: of its first finding, which is the missing
\* heartbeat if there are two.
Recovers(f) ==
    /\ f.kind \in Stale
    /\ f.kind = "running_without_recent_heartbeat"
          \/ ~RunningWithoutRecentHeartbeat(f.task)

\* (Wrong variant: there is always another attempt.)
RecoveryUnbounded(f) == KeyOf(f, "retry", budget[f.task].attempts + 1)

\* _bounded_recovery.
Recovery(f) ==
    LET attempt == budget[f.task].attempts + 1
    IN  IF attempt <= MaxRetries THEN KeyOf(f, "retry", attempt)
                                 ELSE KeyOf(f, "escalate", 0)

\* plan_for_health.
PlanFor(f) ==
    {KeyOf(f, "ensure_subscription", 0)}
    \cup {Recovery(g) : g \in {h \in {f} : Recovers(h)}}
    \cup {KeyOf(g, "promote", 0) :
            g \in {h \in {f} : h.kind = "blocked_with_all_parents_done"}}
    \cup {KeyOf(g, "finalize", 0) :
            g \in {h \in {f} : h.kind = "root_not_closed_after_children_done"}}

Plan ==
    {k \in UNION {PlanFor(f) : f \in {g \in Findings : g.task \in Cards}} :
        k.action \in Followed}

BeginSweep ==
    /\ supervised
    /\ pc = "idle"
    /\ plan' = Plan
    /\ GoTo("apply")
    /\ UNCHANGED <<board, says, completed, changes, supervised, now, rows,
                   history, hand, tidy, cleaned, report, faults>>

\* The rows of a finding come in no set order, and so do their actions.
Start(k) ==
    /\ pc = "apply"
    /\ k \in plan
    /\ plan' = plan \ {k}
    /\ IF MayStart(k)
       THEN /\ log' = Put(log, k, "started")
            /\ hand' = {k}
            /\ GoTo(IF k.action = "retry" THEN "bump" ELSE "queue")
       ELSE UNCHANGED <<log, hand, pc>>
    /\ UNCHANGED <<board, says, completed, changes, supervised, now, outbox,
                   budget, history, tidy, cleaned, report, faults>>

Bump(k) ==
    /\ pc = "bump"
    /\ k \in hand
    /\ Bumps(k.task)
    /\ GoTo("queue")
    /\ UNCHANGED <<board, says, completed, changes, supervised, now, log,
                   outbox, history, plan, hand, tidy, cleaned, report, faults>>

Queue(k) ==
    /\ pc = "queue"
    /\ k \in hand
    /\ Queues(k)
    /\ GoTo("finish")
    /\ UNCHANGED <<board, says, completed, changes, supervised, now, log,
                   budget, settled, plan, hand, tidy, cleaned, report, faults>>

MarkDone(k) ==
    /\ pc = "finish"
    /\ k \in hand
    /\ log' = Put(log, k, "done")
    /\ hand' = {}
    /\ GoTo("apply")
    /\ UNCHANGED <<board, says, completed, changes, supervised, now, outbox,
                   budget, history, plan, tidy, cleaned, report, faults>>

------------------------------------------------------------------------------
(* The rest of _health_sweep.                                               *)

\* plan_cleanup, on what the board is now.
Archivable == {t \in Tasks : status[t] = "done"
                                /\ completed[t] + DoneRetention < now}

Purgeable == {t \in Tasks : status[t] = "archived"
                                /\ completed[t] + ArchivedRetention < now}

CleanupIsDue == cleaned = Never \/ now >= cleaned + CleanupInterval

\* run_deadlock_remediation, and whether the cleanup is due.
Remediate ==
    /\ pc = "apply"
    /\ plan = {}
    /\ report' = [unlink |-> Unlinked, promote |-> Promoted]
    /\ IF CleanupIsDue
       THEN /\ tidy' = [archive |-> Archivable, purge |-> Purgeable]
            /\ GoTo("archive")
       ELSE UNCHANGED tidy /\ GoTo("idle")
    /\ UNCHANGED <<board, says, completed, changes, supervised, now, rows,
                   history, plan, hand, cleaned, faults>>

\* `kanban archive`: the command may fail for some of them, and the failure
\* is only logged.
Archive ==
    /\ pc = "archive"
    /\ \E S \in SUBSET tidy.archive :
            status' = [t \in Tasks |->
                IF t \in S /\ status[t] # "absent" THEN "archived" ELSE status[t]]
    /\ GoTo("purge")
    /\ UNCHANGED <<links, age, beating, approved, says, completed, changes,
                   supervised, now, rows, history, plan, hand, tidy, cleaned,
                   report, faults>>

\* `kanban archive --rm`: the links of a task that is gone go or stay.
Purge ==
    /\ pc = "purge"
    /\ \E S \in SUBSET tidy.purge :
        /\ status' = [t \in Tasks |-> IF t \in S THEN "absent" ELSE status[t]]
        /\ links' \in {links, {l \in links : l[1] \notin S /\ l[2] \notin S}}
    /\ tidy' = Nothing
    /\ GoTo("prune")
    /\ UNCHANGED <<age, beating, approved, says, completed, changes,
                   supervised, now, rows, history, plan, hand, cleaned, report,
                   faults>>

Prune ==
    /\ pc = "prune"
    /\ Prunes
    /\ cleaned' = now
    /\ GoTo("idle")
    /\ UNCHANGED <<board, says, completed, changes, supervised, now, history,
                   plan, hand, tidy, report, faults>>

\* The sweep raises out of what it is at, and the loop goes on: the action that
\* _apply_one was at is marked as failed.  Or the process dies: its action
\* stays started, and the next process does not know when the last cleanup
\* was.
BreakOff ==
    /\ faults < MaxFaults
    /\ pc # "idle"
    /\ GoTo("idle")
    /\ plan' = {} /\ hand' = {} /\ tidy' = Nothing
    /\ faults' = faults + 1
    /\ \/ /\ pc \in {"bump", "queue"}
          /\ \E k \in hand : log' = Put(log, k, "failed")
          /\ UNCHANGED cleaned
       \/ UNCHANGED log /\ cleaned' \in {cleaned, Never}
    /\ UNCHANGED <<board, says, completed, changes, supervised, now, outbox,
                   budget, history, report>>

------------------------------------------------------------------------------

Init ==
    /\ \E s \in Starting :
        /\ status = s.status /\ links = s.links /\ age = s.age
        /\ beating = s.beating /\ approved = s.approved /\ says = s.says
        /\ completed = s.completed
        /\ changes = s.changes /\ supervised = s.supervised
    /\ now = 0
    /\ log = <<>> /\ outbox = <<>>
    /\ budget = [t \in Cards |-> [attempts |-> 0, at |-> 0]]
    /\ sent = {} /\ settled = {}
    /\ pc = "idle" /\ plan = {} /\ hand = {} /\ tidy = Nothing
    /\ report = [unlink |-> {}, promote |-> {}]
    /\ cleaned = Never
    /\ faults = 0

Apply == \E k \in plan \cup hand : Start(k) \/ Bump(k) \/ Queue(k) \/ MarkDone(k)

Sweep == BeginSweep \/ Apply \/ Remediate \/ Archive \/ Purge \/ Prune

Next ==
    \/ \E c \in changes : TaskChanges(c)
    \/ DayPasses
    \/ \E k \in DOMAIN outbox : Deliver(k)
    \/ Sweep
    \/ BreakOff

\* The supervisor keeps ticking, and a sweep that began goes on.
Spec == Init /\ [][Next]_vars /\ WF_vars(Sweep)

------------------------------------------------------------------------------

TypeOK ==
    /\ status \in [Tasks -> Statuses]
    /\ links \subseteq Tasks \X Tasks
    /\ age \in [Tasks -> 0 .. 2]
    /\ beating \subseteq Tasks /\ approved \subseteq Tasks
    /\ says \in TextFacts
    /\ completed \in [Tasks -> Days]
    /\ changes \subseteq Change /\ supervised \in BOOLEAN
    /\ now \in Days
    /\ \A table \in {log, outbox} : DOMAIN table \subseteq Key
    /\ \A k \in DOMAIN log :
          log[k] \in [status : {"started", "done", "failed"}, at : Days]
    /\ \A k \in DOMAIN outbox :
          outbox[k] \in [status : {"queued", "settled"}, at : Days]
    /\ budget \in [Cards -> [attempts : 0 .. MaxRetries, at : Days]]
    /\ sent \subseteq [key : Key, day : Days] /\ settled \subseteq Key
    /\ pc \in {"idle", "apply", "bump", "queue", "finish", "archive", "purge",
               "prune"}
    /\ plan \subseteq Key
    /\ hand \subseteq Key
    /\ hand = {} \/ \E k \in hand : hand = {k}
    /\ hand # {} <=> pc \in {"bump", "queue", "finish"}
    /\ tidy \in [archive : SUBSET Tasks, purge : SUBSET Tasks]
    /\ report \in [unlink : SUBSET Tasks, promote : SUBSET Tasks]
    /\ cleaned \in Days \cup {Never}
    /\ faults \in 0 .. MaxFaults

------------------------------------------------------------------------------
(* What a health sweep promises.                                            *)

\* A proposal that was queued is not queued again before the retention is
\* over, whatever breaks off between the log and the outbox and whenever the
\* cleanup runs: one table at least still has its row (mark_action_started,
\* enqueue_notification, prune_state_store).
RepeatsAfterRetention ==
    \A r, s \in sent :
        r.key = s.key /\ r.day < s.day => s.day > r.day + StateRetention

\* Pruning gives a stale task a fresh budget, but in no span of time as long
\* as the retention are there more retries than max_retries.
RetriesPerRetention ==
    \A t \in Cards : \A d \in Days :
        Cardinality({s \in sent : /\ s.key.task = t /\ s.key.action = "retry"
                                  /\ s.day \in d .. d + StateRetention})
            <= MaxRetries

\* No proposal is pruned before a drain has delivered it or given it up,
\* however long it waits ("no longer actionable", prune_state_store).
NothingIsForgotten ==
    \A s \in sent : s.key \in DOMAIN outbox \cup settled

\* The ancestors of a task by distance, the task itself first, each at its
\* shortest distance.
Layers(t) ==
    LET above[n \in 0 .. Cardinality(Tasks)] ==
            IF n = 0 THEN [all |-> {t}, last |-> {t}]
            ELSE LET below == above[n - 1]
                     new == (UNION {Parents(u) : u \in below.last}) \ below.all
                 IN  [all |-> below.all \cup new,
                      last |-> IF new = {} THEN below.last ELSE new]
    IN  above[Cardinality(Tasks)]

Acyclic == \A t \in Tasks : \A p \in Parents(t) : t \notin Layers(p).all

\* A task that nothing is wrong with: it works, waits for a worker or for
\* Hermes, or was blocked not long ago.
Moving(t) ==
    \/ status[t] \in {"ready", "running"}
    \/ status[t] = "todo" /\ Parents(t) = {}
    \/ status[t] = "blocked" /\ age[t] < 2

\* A task in one of the active statuses (config.py:64) that no query of
\* analyze_health selects: neither it nor a task that waits for it is found.
Unwatched(t) == status[t] \in {"triage", "scheduled", "review"}

\* Triage, scheduled and review are the one blind spot of the findings: behind
\* every task that waits there is, on an acyclic board, a task that still
\* moves, a finding, or a task in one of these three (analyze_health).
WaitingIsExplained ==
    LET found == {f.task : f \in Findings}
    IN  Acyclic =>
            \A t \in Tasks :
                status[t] \in {"todo", "blocked"} =>
                    \E u \in Layers(t).all :
                        Moving(u) \/ u \in found \/ Unwatched(u)

\* The two readings of one board, if it does not change between them, agree,
\* although they have different notions of done: what the remediation scan
\* promotes is promoted by the findings too, and what it unlinks is not
\* promoted by them.
ScansAgree ==
    \A t \in Tasks :
        /\ t \in Promoted => BlockedWithAllParentsDone(t)
        /\ t \in Unlinked => ~BlockedWithAllParentsDone(t)

\* The root of a task is one of its farthest ancestors: on boards whose
\* ancestors are in levels, a task without parents (build_relationship).
RootIsFarthest == \A t \in Tasks : Root(t) \in Layers(t).last

\* An action about a task was proposed, not longer ago than the retention.
Proposed(t, action) ==
    \E k \in DOMAIN log :
        /\ k.task = t /\ k.action = action
        /\ log[k].status = "done" /\ ~Expired(log[k].at)
        /\ k \in DOMAIN outbox \cup settled

\* What stands is proposed, and proposed anew when the retention is over: the
\* promotion that every sweep finds, or that every report of the remediation
\* scan advises, and the finalization that every sweep finds, although the
\* board changes between the two readings, and sweeps break off between any
\* two of their steps.
FindingsAreProposed ==
    \A t \in Cards :
        /\ <>[](supervised /\ (BlockedWithAllParentsDone(t) \/ t \in report.promote))
              => []<>Proposed(t, "promote")
        /\ <>[](supervised /\ RootNotClosedAfterChildrenDone(t))
              => []<>Proposed(t, "finalize")

=============================================================================
