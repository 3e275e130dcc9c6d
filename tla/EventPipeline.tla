---------------------------- MODULE EventPipeline ----------------------------
(***************************************************************************)
(* One collection pass over a board: WardenSupervisor.collect              *)
(* (supervisor.py), BoardEventTailer.tail (board.py), the planning and the *)
(* applying of KanbanActionEngine (actions.py), and the tables they share  *)
(* in the state store (state.py): board_cursors, processed_keys,           *)
(* action_log, retry_budgets and the keys of notification_outbox.          *)
(*                                                                         *)
(* Supervisors take turns (what LeaderLock shows).  A preview is the       *)
(* command `dry-run`: the same pass, without the lock and with every       *)
(* action planned as dry-run, so that it may run beside a supervisor.      *)
(* Every transaction is one step, so a pass can break off between any two. *)
(*                                                                         *)
(* Events are those that plan something: a worker failure, a block and the *)
(* verdict of a reviewer.  Health findings are those that plan a recovery: *)
(* stale running tasks; the others are in HealthSweep.  Loop traces,       *)
(* reports and message texts are left out; the outbox is drained in        *)
(* Outbox.                                                                 *)
(***************************************************************************)
EXTENDS Integers, Sequences, FiniteSets

CONSTANTS
    Collectors,      \* supervisors and previews
    Previews,        \* those of them that run `dry-run`
    Tasks,           \* cards of the board
    Subscribed,      \* those of them that have a native subscription
    ForReview,       \* whose title or comments speak of a review
    Reviewers,       \* whose verdicts name a source card, each always the same
    Generated,       \* that a remediation of the warden made
    Wordy,           \* whose texts are longer than what Hermes shows of them
    MaxRetries,      \* limits.max_retries
    MaxPerTick,      \* blocked_remediation.max_per_tick
    TailLimit,       \* the limit of tail()
    Occurring,       \* bound: the kinds of events that come
    MaxEvents,       \* bound on the events of the board
    MaxFaults        \* bound on the passes that break off

\* What a text says is reduced to what the searches of actions.py find in it:
\* the reason of a block asks for a review, or it makes nothing follow, needs
\* a human, or is something an agent can resolve.
Blocks == {"blocked", "human-needed", "agent-actionable", "review-required"}

Verdicts == {"approve", "needs-changes"}

EventKinds == {"crashed"} \cup Blocks \cup Verdicts

ASSUME PipelineAssumption ==
    /\ Previews \subseteq Collectors
    /\ Subscribed \cup ForReview \cup Reviewers \cup Generated \cup Wordy
          \subseteq Tasks
    /\ Occurring \subseteq EventKinds
    /\ IsFiniteSet(Tasks)
    /\ MaxRetries \in Nat
    /\ MaxPerTick \in Nat
    /\ TailLimit \in Nat \ {0}
    /\ MaxEvents \in Nat
    /\ MaxFaults \in Nat

VARIABLES
    status,        \* tasks.status
    board,         \* table task_events; an event's id is its position
    cursor,        \* table board_cursors
    processed,     \* table processed_keys: the ids of events
    logged,        \* table action_log: the keys that have a row ...
    done,          \* ... and those of them whose status is done
    retry,         \* table retry_budgets: attempts by task and recovery kind
    outbox,        \* table notification_outbox: the keys queued
    pc,            \* where each pass is
    sweep,         \* it is past its events and works on health findings
    seen,          \* its local cursor: what tail() read
    batch,         \* the events it read and has not marked yet
    todo,          \* the events or findings it has still to plan for
    plan,          \* the actions it has still to apply
    hand,          \* the events it marked and has not served yet
    lost,          \* history: events in the hand of a pass that broke off
    faults         \* how many passes broke off

tables == <<cursor, processed, logged, done, retry, outbox>>

locals == <<pc, sweep, seen, batch, todo, plan, hand>>

vars == <<status, board, tables, locals, lost, faults>>

-----------------------------------------------------------------------------
(* Idempotency keys.  The key of an event's action holds the event; the    *)
(* key of a finding's action holds the task, here with event 0, and so do  *)
(* those of a review: the card to be reviewed, or the reviewer (with its   *)
(* source card) and the verdict.  The key of a retry holds the attempt as  *)
(* well.                                                                   *)
Key == [kind : {"ensure_subscription", "notify", "retry", "escalate",
                "create_blocked_remediation", "comment", "create_reviewer",
                "approve-comment", "approve-unblock", "approve-finalize",
                "needs-changes-comment", "create_implementer_followup",
                "needs-changes-unblock"},
        event : Nat, task : Tasks, attempt : Nat]

\* The budget an action is counted against.
RecoveryKind(event) == IF event = 0 THEN "stale-running" ELSE "worker-failure"

\* What a pass plans for: an event, with the status its task had when the
\* event was read, or a health finding, with event 0.
Item == [event : Nat, task : Tasks, kind : EventKinds \cup {"stale"},
         status : {"ready", "running", "blocked", "done"}]

TypeOK ==
    /\ status \in [Tasks -> {"ready", "running", "blocked", "done"}]
    /\ board \in Seq([task : Tasks, kind : EventKinds])
    /\ cursor \in Nat
    /\ processed \subseteq Nat
    /\ logged \subseteq Key
    /\ done \subseteq logged
    /\ retry \in [Tasks -> [{"stale-running", "worker-failure"} -> Nat]]
    /\ outbox \subseteq Key
    /\ pc \in [Collectors -> {"idle", "read", "mark", "save", "plan",
                              "apply", "bump", "queue", "finish"}]
    /\ sweep \in [Collectors -> BOOLEAN]
    /\ seen \in [Collectors -> Nat]
    /\ batch \in [Collectors -> Seq(Item)]
    /\ todo \in [Collectors -> Seq(Item)]
    /\ plan \in [Collectors -> Seq(Key)]
    /\ hand \in [Collectors -> SUBSET Nat]
    /\ lost \subseteq Nat
    /\ faults \in Nat

Init ==
    /\ status = [t \in Tasks |-> "running"]
    /\ board = <<>>
    /\ cursor = 0
    /\ processed = {}
    /\ logged = {}
    /\ done = {}
    /\ retry = [t \in Tasks |-> [r \in {"stale-running", "worker-failure"} |-> 0]]
    /\ outbox = {}
    /\ pc = [c \in Collectors |-> "idle"]
    /\ sweep = [c \in Collectors |-> FALSE]
    /\ seen = [c \in Collectors |-> 0]
    /\ batch = [c \in Collectors |-> <<>>]
    /\ todo = [c \in Collectors |-> <<>>]
    /\ plan = [c \in Collectors |-> <<>>]
    /\ hand = [c \in Collectors |-> {}]
    /\ lost = {}
    /\ faults = 0

GoTo(c, step) == pc' = [pc EXCEPT ![c] = step]

-----------------------------------------------------------------------------
(* The board, written by Hermes.                                           *)

\* A worker crashes, times out or gives up, blocks its task, or is a reviewer
\* and completes it with a verdict.
WorkerStops(t, kind) ==
    /\ Len(board) < MaxEvents
    /\ status[t] = "running"
    /\ status' = [status EXCEPT ![t] =
            IF kind \in Blocks THEN "blocked"
            ELSE IF kind \in Verdicts THEN "done" ELSE "ready"]
    /\ board' = Append(board, [task |-> t, kind |-> kind])
    /\ UNCHANGED <<tables, locals, lost, faults>>

\* Hermes or an operator sets the task going again.
Resume(t) ==
    /\ status[t] # "running"
    /\ status' = [status EXCEPT ![t] = "running"]
    /\ UNCHANGED <<board, tables, locals, lost, faults>>

-----------------------------------------------------------------------------
(* tail().                                                                 *)

\* A pass begins: get_cursor.  Supervisors take turns, previews do not.
Begin(c) ==
    /\ pc[c] = "idle"
    /\ c \notin Previews => \A d \in Collectors \ Previews : pc[d] = "idle"
    /\ GoTo(c, "read")
    /\ seen' = [seen EXCEPT ![c] = cursor]
    /\ UNCHANGED <<status, board, tables, sweep, batch, todo, plan, hand, lost, faults>>

\* (Wrong variant: it waits until there are as many rows as the limit.)
LastReadFull(n) == IF Len(board) < n + TailLimit THEN n ELSE n + TailLimit

\* The last id of the events a tail from cursor n returns.
LastRead(n) == IF Len(board) < n + TailLimit THEN Len(board) ELSE n + TailLimit

ItemOf(e) == [event |-> e, task |-> board[e].task, kind |-> board[e].kind,
              status |-> status[board[e].task]]

\* _read_events: the events past the cursor, each with the status its task
\* has now.
ReadEvents(c) ==
    /\ pc[c] = "read"
    /\ batch' = [batch EXCEPT ![c] =
            [i \in 1 .. LastRead(seen[c]) - seen[c] |-> ItemOf(seen[c] + i)]]
    /\ GoTo(c, IF LastRead(seen[c]) > seen[c] THEN "mark" ELSE "plan")
    /\ UNCHANGED <<status, board, tables, sweep, seen, todo, plan, hand, lost, faults>>

\* (Wrong variant: a key that is there already is overwritten.)
Overwrites(e) == e \in Nat

\* mark_processed inserts the key, and refuses one that is there already.
Inserts(e) == e \notin processed

\* The next event: if its key is refused it is left to whoever inserted it.
MarkProcessed(c) ==
    /\ pc[c] = "mark"
    /\ LET i == Head(batch[c])
       IN  /\ processed' = processed \cup {i.event}
           /\ \/ /\ ~Inserts(i.event)
                 /\ UNCHANGED <<todo, hand>>
              \/ /\ Inserts(i.event)
                 /\ todo' = [todo EXCEPT ![c] = Append(@, i)]
                 /\ hand' = [hand EXCEPT ![c] = @ \cup {i.event}]
           /\ seen' = [seen EXCEPT ![c] = i.event]
    /\ batch' = [batch EXCEPT ![c] = Tail(@)]
    /\ GoTo(c, IF Len(batch[c]) = 1 THEN "save" ELSE "mark")
    /\ UNCHANGED <<status, board, cursor, logged, done, retry, outbox, sweep, plan, lost, faults>>

\* (Wrong variant: the newest event of the board.)
NewestEvent(c) == IF c \in Collectors THEN Len(board) ELSE cursor

\* max_event_id of the rows that tail() went through.
MaxEventId(c) == seen[c]

\* set_cursor, whatever the cursor has become since it was read.
SetCursor(c) ==
    /\ pc[c] = "save"
    /\ cursor' = MaxEventId(c)
    /\ GoTo(c, "plan")
    /\ UNCHANGED <<status, board, processed, logged, done, retry, outbox,
                   sweep, seen, batch, todo, plan, hand, lost, faults>>

-----------------------------------------------------------------------------
(* plan_for_events and plan_for_health.                                    *)

Action(kind, i, attempt) ==
    [kind |-> kind, event |-> i.event, task |-> i.task, attempt |-> attempt]

\* (Wrong variants: the key of an escalation holds the budget left; the
\* attempt is the one before; the budget ends one attempt early.)
RecoveryRemaining(i) ==
    LET attempt == retry[i.task][RecoveryKind(i.event)] + 1
    IN  IF attempt <= MaxRetries THEN Action("retry", i, attempt)
                                 ELSE Action("escalate", i, MaxRetries - attempt)

RecoveryUncounted(i) ==
    LET attempt == retry[i.task][RecoveryKind(i.event)]
    IN  IF attempt <= MaxRetries THEN Action("retry", i, attempt)
                                 ELSE Action("escalate", i, 0)

RecoveryEarly(i) ==
    LET attempt == retry[i.task][RecoveryKind(i.event)] + 1
    IN  IF attempt < MaxRetries THEN Action("retry", i, attempt)
                                ELSE Action("escalate", i, 0)

\* _bounded_recovery: peek_retry + 1 is the next attempt; past the budget
\* there is an escalation instead.
BoundedRecovery(i) ==
    LET attempt == retry[i.task][RecoveryKind(i.event)] + 1
    IN  IF attempt <= MaxRetries THEN Action("retry", i, attempt)
                                 ELSE Action("escalate", i, 0)

\* _is_review_required.
ReviewRequired(i) ==
    i.status = "blocked" /\ (i.kind = "review-required" \/ i.task \in ForReview)

\* (Wrong variant: every action counts.)
PlannedSoFar(c) == 1 .. Len(plan[c])

\* The remediation proposals a pass has planned so far.
Remediations(c) ==
    {j \in 1 .. Len(plan[c]) : plan[c][j].kind = "create_blocked_remediation"}

\* For a block without a review, if its card is still blocked and no
\* remediation itself: a comment if a remediation of the card is open, and else
\* what the reason calls for, a remediation only while the cap allows one.
BlockedRemediation(c, i) ==
    IF \/ i.kind \notin Blocks \/ i.status # "blocked" \/ ReviewRequired(i)
       \/ i.task \in Generated
    THEN {<<>>}
    ELSE {<<Action("comment", i, 0)>>} \cup
         CASE i.kind = "human-needed" -> {}
           [] i.kind = "agent-actionable"
                /\ Cardinality(Remediations(c)) < MaxPerTick ->
                    {<<Action("create_blocked_remediation", i, 0)>>}
           [] OTHER -> {<<>>}

Subscription(i) ==
    IF i.kind \in Verdicts THEN <<>> ELSE <<Action("ensure_subscription", i, 0)>>

\* The rest of a text that Hermes cuts off.
Continuation(i) ==
    IF i.task \in Wordy
           /\ (i.kind \in Verdicts \/ (i.kind \in Blocks /\ i.status = "blocked"))
    THEN <<Action("notify", i, 0)>> ELSE <<>>

TaskAction(kind, t) == [kind |-> kind, event |-> 0, task |-> t, attempt |-> 0]

\* A reviewer for the card.
Review(i) ==
    IF ReviewRequired(i) THEN <<TaskAction("create_reviewer", i.task)>> ELSE <<>>

\* The three actions of a verdict about the source card.
Answers(verdict, t) ==
    IF verdict = "approve"
    THEN <<TaskAction("approve-comment", t), TaskAction("approve-unblock", t),
           TaskAction("approve-finalize", t)>>
    ELSE <<TaskAction("needs-changes-comment", t),
           TaskAction("create_implementer_followup", t),
           TaskAction("needs-changes-unblock", t)>>

\* (Wrong variant: no answer when the reviewer has been set going again.)
AnswerIfDone(i) ==
    IF i.kind \in Verdicts /\ i.task \in Reviewers /\ i.status = "done"
    THEN Answers(i.kind, i.task) ELSE <<>>

Answer(i) ==
    IF i.kind \in Verdicts /\ i.task \in Reviewers
    THEN Answers(i.kind, i.task) ELSE <<>>

\* (Wrong variant: no recovery for a task that Hermes has put back to ready.)
RecoveryIfRunning(i) ==
    IF i.kind \in {"crashed", "stale"} /\ i.status = "running"
    THEN <<BoundedRecovery(i)>> ELSE <<>>

Recovery(i) ==
    IF i.kind \in {"crashed", "stale"} THEN <<BoundedRecovery(i)>> ELSE <<>>

\* _plan_event, and plan_for_health for a stale task.
Plans(c, i) ==
    {Subscription(i) \o Continuation(i) \o p \o Review(i) \o Answer(i)
        \o Recovery(i) : p \in BlockedRemediation(c, i)}

\* The next event or finding of the pass.
PlanNext(c) ==
    /\ pc[c] = "plan"
    /\ todo[c] # <<>>
    /\ \E p \in Plans(c, Head(todo[c])) :
            plan' = [plan EXCEPT ![c] = @ \o p]
    /\ todo' = [todo EXCEPT ![c] = Tail(@)]
    /\ UNCHANGED <<status, board, tables, pc, sweep, seen, batch, hand, lost, faults>>

\* Everything is planned.  A preview skips every action of its plan: the
\* events it marked are nobody's any more.
PlanEnds(c) ==
    /\ pc[c] = "plan"
    /\ todo[c] = <<>>
    /\ GoTo(c, "apply")
    /\ IF c \in Previews
       THEN /\ plan' = [plan EXCEPT ![c] = <<>>]
            /\ lost' = lost \cup hand[c]
       ELSE UNCHANGED <<plan, lost>>
    /\ UNCHANGED <<status, board, tables, sweep, seen, batch, todo, hand, faults>>

-----------------------------------------------------------------------------
(* apply() on the next action of the plan.                                 *)

\* mark_action_started refuses an action that is done.
Duplicate(c) ==
    /\ pc[c] = "apply"
    /\ plan[c] # <<>>
    /\ Head(plan[c]) \in done
    /\ plan' = [plan EXCEPT ![c] = Tail(@)]
    /\ UNCHANGED <<status, board, tables, pc, sweep, seen, batch, todo, hand, lost, faults>>

\* (Wrong variant: retries are not counted.)
CountsUnblocks(k) == k.kind = "unblock"

\* The actions that _apply_one counts before it queues them, but for the count
\* of unblocks, which nobody reads.
Counts(k) == k.kind = "retry"

StartAction(c) ==
    /\ pc[c] = "apply"
    /\ plan[c] # <<>>
    /\ Head(plan[c]) \notin done
    /\ logged' = logged \cup {Head(plan[c])}
    /\ GoTo(c, IF Counts(Head(plan[c])) THEN "bump" ELSE "queue")
    /\ UNCHANGED <<status, board, cursor, processed, done, retry, outbox,
                   sweep, seen, batch, todo, plan, hand, lost, faults>>

\* bump_retry.
BumpRetry(c) ==
    /\ pc[c] = "bump"
    /\ LET k == Head(plan[c])
       IN  retry' = [retry EXCEPT ![k.task][RecoveryKind(k.event)] = @ + 1]
    /\ GoTo(c, "queue")
    /\ UNCHANGED <<status, board, cursor, processed, logged, done, outbox,
                   sweep, seen, batch, todo, plan, hand, lost, faults>>

\* (Wrong variant: a comment is recorded without a proposal.)
NeedlessComment(k) ==
    k.kind \in {"ensure_subscription", "comment"} /\ k.task \in Tasks

\* A task that has a subscription needs no proposal of one.
Needless(k) == k.kind = "ensure_subscription" /\ k.task \in Subscribed

\* enqueue_notification.
Queue(c) ==
    /\ pc[c] = "queue"
    /\ LET k == Head(plan[c])
       IN  outbox' = IF Needless(k) THEN outbox ELSE outbox \cup {k}
    /\ GoTo(c, "finish")
    /\ UNCHANGED <<status, board, cursor, processed, logged, done, retry,
                   sweep, seen, batch, todo, plan, hand, lost, faults>>

MarkDone(c) ==
    /\ pc[c] = "finish"
    /\ done' = done \cup {Head(plan[c])}
    /\ plan' = [plan EXCEPT ![c] = Tail(@)]
    /\ GoTo(c, "apply")
    /\ UNCHANGED <<status, board, cursor, processed, logged, retry, outbox,
                   sweep, seen, batch, todo, hand, lost, faults>>

-----------------------------------------------------------------------------
Findings(S) ==
    {f \in [1 .. Cardinality(S) -> S] :
        \A i, j \in DOMAIN f : f[i] = f[j] => i = j}

\* The events are served; analyze_health finds some running tasks stale.
AnalyzeHealth(c) ==
    /\ pc[c] = "apply"
    /\ plan[c] = <<>>
    /\ ~sweep[c]
    /\ hand' = [hand EXCEPT ![c] = {}]
    /\ sweep' = [sweep EXCEPT ![c] = TRUE]
    /\ \E S \in SUBSET {t \in Tasks : status[t] = "running"} :
       \E f \in Findings(S) :
            todo' = [todo EXCEPT ![c] =
                [i \in DOMAIN f |-> [event |-> 0, task |-> f[i],
                                     kind |-> "stale", status |-> "running"]]]
    /\ GoTo(c, "plan")
    /\ UNCHANGED <<status, board, tables, seen, batch, plan, lost, faults>>

\* A pass is over; nothing of it is kept.
Leave(c) ==
    /\ GoTo(c, "idle")
    /\ sweep' = [sweep EXCEPT ![c] = FALSE]
    /\ seen' = [seen EXCEPT ![c] = 0]
    /\ batch' = [batch EXCEPT ![c] = <<>>]
    /\ todo' = [todo EXCEPT ![c] = <<>>]
    /\ plan' = [plan EXCEPT ![c] = <<>>]
    /\ hand' = [hand EXCEPT ![c] = {}]

EndPass(c) ==
    /\ pc[c] = "apply"
    /\ plan[c] = <<>>
    /\ sweep[c]
    /\ Leave(c)
    /\ UNCHANGED <<status, board, tables, lost, faults>>

\* The process dies, or a database error is raised out of the pass.  An
\* action that had started keeps its row, as started or as failed.
BreakOff(c) ==
    /\ faults < MaxFaults
    /\ pc[c] # "idle"
    /\ Leave(c)
    /\ lost' = lost \cup hand[c]
    /\ faults' = faults + 1
    /\ UNCHANGED <<status, board, tables>>

-----------------------------------------------------------------------------
Pass(c) == \/ ReadEvents(c) \/ MarkProcessed(c) \/ SetCursor(c)
           \/ PlanNext(c) \/ PlanEnds(c)
           \/ Duplicate(c) \/ StartAction(c) \/ BumpRetry(c) \/ Queue(c)
           \/ MarkDone(c) \/ AnalyzeHealth(c) \/ EndPass(c)

Next ==
    \/ \E t \in Tasks : Resume(t) \/ \E kind \in Occurring : WorkerStops(t, kind)
    \/ \E c \in Collectors : Begin(c) \/ Pass(c) \/ BreakOff(c)

Spec == Init /\ [][Next]_vars

\* Some supervisor keeps ticking, and a pass that began goes on.
Fairness ==
    /\ WF_vars(\E c \in Collectors \ Previews : Begin(c))
    /\ \A c \in Collectors : WF_vars(Pass(c))

FairSpec == Spec /\ Fairness

-----------------------------------------------------------------------------
(* What the pipeline promises.                                             *)

Events == 1 .. Len(board)

InHand == UNION {hand[c] : c \in Collectors}

\* The recoveries an event asked for: retries and escalations in the outbox.
Recoveries(e) == {k \in outbox : k.event = e /\ k.kind \in {"retry", "escalate"}}

\* The cursor never runs past an event that nobody has marked, through
\* breaks between marking and saving and through previews that write an old
\* cursor back.
NothingSkipped == \A e \in Events : e <= cursor => e \in processed

\* "Replayed events do not duplicate ..." (README.md:50): an event asks for
\* one recovery, although the key of a retry holds the attempt and a replay
\* would find another attempt.
OneRecoveryPerEvent == \A e \in Events : Cardinality(Recoveries(e)) <= 1

\* A failure that was marked has its recovery in the outbox, unless a pass
\* has it in hand or broke off with it.
FailuresAreAnswered ==
    \A e \in processed :
        (board[e].kind = "crashed" /\ e \notin InHand \cup lost)
            => Recoveries(e) # {}

\* The same whatever happened: what a reader may expect of a command that
\* README.md:20 calls "a read-only preview", when no pass breaks off.
NoFailureIsMissed ==
    \A e \in processed :
        (board[e].kind = "crashed" /\ e \notin InHand) => Recoveries(e) # {}

\* The task of an event has been blocked since.
StillBlocked(e) ==
    /\ status[board[e].task] = "blocked"
    /\ \A d \in Events : d > e => board[d].task # board[e].task

\* What an event asks for that no other event can take back: the answers to a
\* verdict, and a reviewer while the card waits for one.
Owed(e) ==
    LET t == board[e].task
        v == board[e].kind
    IN  IF v \in Verdicts /\ t \in Reviewers
        THEN {Answers(v, t)[n] : n \in 1 .. 3}
        ELSE IF (v = "review-required" \/ t \in ForReview) /\ StillBlocked(e)
        THEN {TaskAction("create_reviewer", t)}
        ELSE {}

\* A review does not get stuck in the pipeline: a verdict that was marked has
\* all three of its answers in the outbox, whatever became of the reviewer's
\* card, and a card that still waits for its review has a reviewer proposed,
\* unless a pass has the event in hand or broke off with it.
ReviewsAreAnswered ==
    \A e \in processed : e \notin InHand \cup lost => Owed(e) \subseteq outbox

\* The cap only drops a remediation when it is used up: a block that an agent
\* can resolve, that is still there, and whose card is no remediation itself,
\* was answered with a comment or a remediation, or max_per_tick others were
\* proposed.
RemediationsUpToTheCap ==
    \A e \in processed :
        /\ board[e].kind = "agent-actionable" /\ e \notin InHand \cup lost
        /\ StillBlocked(e) /\ board[e].task \notin ForReview \cup Generated
        => \/ \E k \in outbox :
                k.event = e /\ k.kind \in {"comment", "create_blocked_remediation"}
           \/ Cardinality({k \in outbox : k.kind = "create_blocked_remediation"})
                   >= MaxPerTick

Retries(t, r) ==
    {k \in outbox : k.kind = "retry" /\ k.task = t /\ RecoveryKind(k.event) = r}

\* Every retry in the outbox was paid for, so that a break between the count
\* and the queue can only waste budget and never exceed it.
RetriesArePaid ==
    \A t \in Tasks : \A r \in {"stale-running", "worker-failure"} :
        Cardinality(Retries(t, r)) <= retry[t][r]

\* The budget of health recoveries holds, also when a pass breaks off between
\* the plan and the count and another pass plans again: the attempt is in the
\* key, so a retry that was not counted is the same retry.
StaleRetriesWithinBudget ==
    \A t \in Tasks : Cardinality(Retries(t, "stale-running")) <= MaxRetries

\* "limits.max_retries: retry budget before escalation" (README.md:171), for
\* every recovery.
RetriesWithinBudget ==
    \A t \in Tasks : \A r \in {"stale-running", "worker-failure"} :
        Cardinality(Retries(t, r)) <= MaxRetries

\* Nothing is escalated while its retry budget is not used up.
EscalationIsLast ==
    \A k \in outbox :
        k.kind = "escalate" => retry[k.task][RecoveryKind(k.event)] >= MaxRetries

\* An action counts as done only with its row in the outbox: a break between
\* the two repeats the action, and the repeat is refused by the outbox.
DoneIsQueued ==
    \A k \in done :
        (k.kind = "ensure_subscription" /\ k.task \in Subscribed) \/ k \in outbox

\* Every event of the board is marked in the end: a pass that broke off is
\* followed by one that goes on from where the cursor is.
EveryEventIsSeen ==
    \A e \in 1 .. MaxEvents : (e <= Len(board)) ~> (e \in processed)

=============================================================================
