------------------------------ MODULE Retention ------------------------------
(* The tables of the state database that apply() writes for health findings *)
(* and prune_state_store deletes from: action_log, notification_outbox and  *)
(* retry_budgets, with the day each row was last updated.                   *)
EXTENDS Naturals, FiniteSets

CONSTANTS
    Cards,              \* tasks that findings are about
    Followed,           \* actions whose keys are followed; keys do not meet
    MaxRetries,         \* limits.max_retries
    StateRetention,     \* cleanup.state_retention_days
    LastDay             \* bound on the days

ASSUME RetentionAssumption ==
    /\ IsFiniteSet(Cards)
    /\ Followed \subseteq {"ensure_subscription", "retry", "escalate",
                           "promote", "finalize"}
    /\ MaxRetries \in Nat /\ StateRetention \in Nat /\ LastDay \in Nat

VARIABLES
    now,        \* the day
    log,        \* action_log
    outbox,     \* notification_outbox: queued, or settled (delivered or
                \* exhausted)
    budget,     \* retry_budgets
    sent,       \* history: what was queued, and when
    settled     \* history: what was delivered or exhausted

rows == <<log, outbox, budget>>

history == <<sent, settled>>

Days == 0 .. LastDay

None == [status |-> "none", at |-> 0]

Is(s) == [status |-> s, at |-> now]

Get(table, k) == IF k \in DOMAIN table THEN table[k] ELSE None

Put(table, k, s) ==
    [j \in DOMAIN table \cup {k} |-> IF j = k THEN Is(s) ELSE table[j]]

\* (Wrong variant: a row that is there is refused, whatever became of it.)
MayStartOnce(k) == k \notin DOMAIN log

\* mark_action_started refuses what is done.
MayStart(k) == Get(log, k).status # "done"

\* bump_retry.
Bumps(t) ==
    budget' = [budget EXCEPT ![t] = [attempts |-> @.attempts + 1, at |-> now]]

\* enqueue_notification: a key that is there is refused.
Queues(k) ==
    IF k \in DOMAIN outbox
    THEN UNCHANGED <<outbox, sent>>
    ELSE /\ outbox' = Put(outbox, k, "queued")
         /\ sent' = sent \cup {[key |-> k, day |-> now]}

\* A drain delivers a row or gives it up (module Outbox).
Settle(k) ==
    /\ Get(outbox, k).status = "queued"
    /\ outbox' = Put(outbox, k, "settled")
    /\ settled' = settled \cup {k}
    /\ UNCHANGED <<now, log, budget, sent>>

\* (Wrong variant: the last day of the retention is not kept.)
ExpiredOnTheDay(at) == at + StateRetention <= now

\* updated_at < now - retention_days.
Expired(at) == at + StateRetention < now

\* (Wrong variant: rows go by their age alone.)
PrunableByAge(s) == s # "none"

\* The statuses of rows that may go: nothing queued and nothing started.
Prunable(s) == s \in {"done", "failed", "settled"}

\* (Wrong variant: the budgets go every time.)
BudgetAlways(t) == budget[t].at <= now

BudgetExpired(t) == Expired(budget[t].at)

Live(table) ==
    {k \in DOMAIN table : ~(Prunable(table[k].status) /\ Expired(table[k].at))}

\* prune_state_store, one transaction.  processed_keys are in EventPipeline.
Prunes ==
    /\ log' = [k \in Live(log) |-> log[k]]
    /\ outbox' = [k \in Live(outbox) |-> outbox[k]]
    /\ budget' = [t \in Cards |-> IF BudgetExpired(t)
                                  THEN [attempts |-> 0, at |-> 0]
                                  ELSE budget[t]]

=============================================================================
