------------------------------- MODULE Outbox -------------------------------
(***************************************************************************)
(* The notification outbox: table notification_outbox of the state store   *)
(* (kanban_warden/state.py) and the drainers that empty it                 *)
(* (kanban_warden/outbox.py) through the message sender (delivery.py).     *)
(*                                                                         *)
(* A drainer is one run of NotificationOutboxDrainer.drain at a time, in   *)
(* the tick of one supervisor.  Claiming is two steps because the code     *)
(* selects the eligible rows before the transaction that marks them; every *)
(* send and every mark is a step of its own, and a drain can end between   *)
(* any two of them.                                                        *)
(*                                                                         *)
(* delivery_enabled is true and dry_run is false: otherwise drain returns  *)
(* at once.  Every row the code claims carries its lease, so the           *)
(* updated_at fallback for legacy rows is left out, as are message texts.  *)
(***************************************************************************)
EXTENDS Integers, Sequences, FiniteSets

CONSTANTS
    Drainers,          \* supervisors that may drain
    Keys,              \* idempotency keys of rows, in key order
    Targets,           \* subscriber targets
    Blank,             \* a subscription whose chat_id is empty
    Subs,              \* the subscribers of each row's task, in send order
    GatewayRequired,   \* rows without the origin channel
    Untargeted,        \* rows without a task id
    Unsafe,            \* rows whose text looks like a secret
    BatchSize,         \* delivery_batch_size
    MaxAttempts,       \* delivery_max_attempts
    Backoff,           \* delivery_backoff_seconds
    LeaseSeconds,      \* delivery_lease_seconds
    Exclusive,         \* TRUE: drains do not overlap (what the leader lock is for)
    FaultHorizon,      \* bound: rows arrive and drains break off until then
    MaxClock           \* bound: later times are not told apart

ASSUME OutboxAssumption ==
    /\ Keys \subseteq Nat
    /\ Subs \in [Keys -> Seq(Targets)]
    /\ \A k \in Keys : Subs[k] # <<>>
    /\ GatewayRequired \subseteq Keys
    /\ Untargeted \subseteq Keys
    /\ Unsafe \subseteq Keys
    /\ BatchSize \in Nat
    /\ MaxAttempts \in Nat \ {0}
    /\ Backoff \in Nat
    /\ LeaseSeconds \in Nat
    /\ Exclusive \in BOOLEAN
    /\ FaultHorizon \in Nat
    /\ MaxClock \in Nat

VARIABLES
    clock,      \* time.time()
    outbox,     \* the table: Absent, or the row of each key
    sent,       \* the targets each row's message has reached
    phase,      \* where each drain is
    now,        \* its current_time: the clock reading that opened the tick
    batch,      \* its rows still to do, as they were when selected
    at,         \* how many targets of the current row it has sent to
    verdict     \* how the current row ended

vars == <<clock, outbox, sent, phase, now, batch, at, verdict>>

-----------------------------------------------------------------------------
Absent == [status |-> "absent", attempts |-> 0, created_at |-> 0,
           next_attempt_at |-> 0]

Pending == {"queued", "retrying", "in_progress"}

Final == {"delivered", "exhausted"}

Row == [status : Pending \cup Final, attempts : Nat, created_at : Nat,
        next_attempt_at : Nat]

\* What claim_notification_batch returns of a row.
Claim == [key : Keys, attempts : Nat, created_at : Nat]

TypeOK ==
    /\ clock \in Nat
    /\ outbox \in [Keys -> Row \cup {Absent}]
    /\ sent \in [Keys -> SUBSET Targets]
    /\ phase \in [Drainers -> {"idle", "tick", "claiming", "draining",
                               "sending", "marking"}]
    /\ now \in [Drainers -> Nat]
    /\ batch \in [Drainers -> SUBSET Claim]
    /\ at \in [Drainers -> Nat]
    /\ verdict \in [Drainers -> {"none", "delivered", "retryable", "permanent"}]

Init ==
    /\ clock = 0
    /\ outbox = [k \in Keys |-> Absent]
    /\ sent = [k \in Keys |-> {}]
    /\ phase = [d \in Drainers |-> "idle"]
    /\ now = [d \in Drainers |-> 0]
    /\ batch = [d \in Drainers |-> {}]
    /\ at = [d \in Drainers |-> 0]
    /\ verdict = [d \in Drainers |-> "none"]

\* Times past the bound are not told apart: once there, every wait is over.
Cap(t) == IF t > MaxClock THEN MaxClock ELSE t

\* attempts + 1; counts past the limit are not told apart.
Bump(n) == IF n > MaxAttempts THEN n ELSE n + 1

\* ORDER BY created_at, key
Before(q, r) == \/ q.created_at < r.created_at
                \/ q.created_at = r.created_at /\ q.key < r.key

\* The row the loop over the claimed rows is at: the first one left.
IsCurrent(d, r) == r \in batch[d] /\ \A q \in batch[d] : q # r => Before(r, q)

-----------------------------------------------------------------------------
\* enqueue_notification: INSERT; a key that is there already is refused.
Enqueue(k) ==
    /\ clock <= FaultHorizon
    /\ outbox[k] = Absent
    /\ outbox' = [outbox EXCEPT ![k] = [status |-> "queued", attempts |-> 0,
                        created_at |-> clock, next_attempt_at |-> 0]]
    /\ UNCHANGED <<clock, sent, phase, now, batch, at, verdict>>

\* A supervisor opens a tick; it drains at the end of it, with that time.
Begin(d) ==
    /\ phase[d] = "idle"
    /\ Exclusive => \A e \in Drainers : phase[e] = "idle"
    /\ phase' = [phase EXCEPT ![d] = "tick"]
    /\ now' = [now EXCEPT ![d] = clock]
    /\ UNCHANGED <<clock, outbox, sent, batch, at, verdict>>

\* (Wrong variants: settled rows are claimed again; rows of a broken drain are
\* not; the claim does not carry the attempts.)
EligibleSettled(t) ==
    {[key |-> k, attempts |-> outbox[k].attempts,
      created_at |-> outbox[k].created_at] :
        k \in {j \in Keys : outbox[j] # Absent /\ outbox[j].next_attempt_at <= t}}

EligibleUnclaimed(t) ==
    {[key |-> k, attempts |-> outbox[k].attempts,
      created_at |-> outbox[k].created_at] :
        k \in {j \in Keys : /\ outbox[j].status \in Pending \ {"in_progress"}
                            /\ outbox[j].next_attempt_at <= t}}

EligibleUncounted(t) ==
    {[key |-> k, attempts |-> 0, created_at |-> outbox[k].created_at] :
        k \in {j \in Keys : /\ outbox[j].status \in Pending
                            /\ outbox[j].next_attempt_at <= t}}

\* The rows a claim may take: due, or claimed with a lease that ran out.
Eligible(t) ==
    {[key |-> k, attempts |-> outbox[k].attempts,
      created_at |-> outbox[k].created_at] :
        k \in {j \in Keys : /\ outbox[j].status \in Pending
                            /\ outbox[j].next_attempt_at <= t}}

\* SELECT ... LIMIT of claim_notification_batch, in autocommit.
Select(d) ==
    /\ phase[d] = "tick"
    /\ LET E == Eligible(now[d])
       IN  batch' = [batch EXCEPT ![d] =
                {r \in E : Cardinality({q \in E : Before(q, r)}) < BatchSize}]
    /\ phase' = [phase EXCEPT ![d] =
                    IF batch'[d] = {} THEN "idle" ELSE "claiming"]
    /\ now' = [now EXCEPT ![d] = IF batch'[d] = {} THEN 0 ELSE now[d]]
    /\ UNCHANGED <<clock, outbox, sent, at, verdict>>

\* UPDATE ... SET status = 'in_progress' WHERE key IN (...): whatever the
\* rows have become since the SELECT.
ClaimRows(d) ==
    /\ phase[d] = "claiming"
    /\ outbox' = [k \in Keys |->
            IF outbox[k] # Absent /\ \E r \in batch[d] : r.key = k
            THEN [outbox[k] EXCEPT
                    !.status = "in_progress",
                    !.next_attempt_at = Cap(now[d] + LeaseSeconds)]
            ELSE outbox[k]]
    /\ phase' = [phase EXCEPT ![d] = "draining"]
    /\ UNCHANGED <<clock, sent, now, batch, at, verdict>>

-----------------------------------------------------------------------------
(* _deliver_one on the current row.                                        *)

\* It returned or raised: the drain is about to mark the row.
Ends(d, v) ==
    /\ phase' = [phase EXCEPT ![d] = "marking"]
    /\ verdict' = [verdict EXCEPT ![d] = v]

\* No origin channel: _deliver_one returns False, and drain goes on to mark
\* the row delivered although nothing was sent.
Skip(d) ==
    /\ phase[d] = "draining"
    /\ \E r \in batch[d] : IsCurrent(d, r) /\ r.key \in GatewayRequired
    /\ Ends(d, "delivered")
    /\ UNCHANGED <<clock, outbox, sent, now, batch, at>>

\* The rows of a permanent failure: _PermanentDeliveryError, if nothing that
\* is checked before raises first.
Unsendable == (Untargeted \cup Unsafe) \ GatewayRequired

\* No task id, or the secret scanner objects.
Reject(d) ==
    /\ phase[d] = "draining"
    /\ \E r \in batch[d] : IsCurrent(d, r) /\ r.key \in Unsendable
    /\ Ends(d, "permanent")
    /\ UNCHANGED <<clock, outbox, sent, now, batch, at>>

\* The board is not discovered, its task is gone, or nobody subscribes.
Unreachable(d) ==
    /\ phase[d] = "draining"
    /\ \E r \in batch[d] :
         IsCurrent(d, r) /\ r.key \notin GatewayRequired \cup Untargeted
    /\ Ends(d, "retryable")
    /\ UNCHANGED <<clock, outbox, sent, now, batch, at>>

\* Subscribers were found and the text is safe: start sending.
Open(d) ==
    /\ phase[d] = "draining"
    /\ \E r \in batch[d] :
         IsCurrent(d, r) /\ r.key \notin GatewayRequired \cup Unsendable
    /\ phase' = [phase EXCEPT ![d] = "sending"]
    /\ UNCHANGED <<clock, outbox, sent, now, batch, at, verdict>>

\* The target of the next send of the current row.
NextTarget(d, r) == Subs[r.key][at[d] + 1]

\* (Wrong variant: the last subscriber is left out.)
MoreButOne(d, r) == at[d] + 1 < Len(Subs[r.key])

MoreTargets(d, r) == at[d] < Len(Subs[r.key])

\* The next send: acknowledged, or reported as failed, or reported as failed
\* although the message got through.
Send(d) ==
    /\ phase[d] = "sending"
    /\ \E r \in batch[d] :
        /\ IsCurrent(d, r)
        /\ MoreTargets(d, r)
        /\ NextTarget(d, r) # Blank
        /\ \/ /\ sent' = [sent EXCEPT ![r.key] = @ \cup {NextTarget(d, r)}]
              /\ at' = [at EXCEPT ![d] = @ + 1]
              /\ UNCHANGED <<phase, verdict>>
           \/ /\ sent' \in {sent, [sent EXCEPT ![r.key] = @ \cup {NextTarget(d, r)}]}
              /\ Ends(d, "retryable")
              /\ at' = [at EXCEPT ![d] = 0]
    /\ UNCHANGED <<clock, outbox, now, batch>>

\* Every target was sent to: _deliver_one returns True.
AllSent(d) ==
    /\ phase[d] = "sending"
    /\ \E r \in batch[d] : IsCurrent(d, r) /\ ~MoreTargets(d, r)
    /\ Ends(d, "delivered")
    /\ at' = [at EXCEPT ![d] = 0]
    /\ UNCHANGED <<clock, outbox, sent, now, batch>>

-----------------------------------------------------------------------------
(* The mark_notification_ updates: only rows still in progress change.     *)

\* (Wrong variants: the limit is one attempt short, or one late.)
LimitEarly(r) == r.attempts + 1 >= MaxAttempts - 1

LimitLate(r) == r.attempts + 1 > MaxAttempts

\* attempts_after >= max_attempts, by the count the claim returned.
LimitReached(r) == r.attempts + 1 >= MaxAttempts

\* (Wrong variant: the backoff is subtracted.)
RetryBefore(r, d) == now[d] - Backoff * (r.attempts + 1)

\* The backoff runs from the clock reading of the tick.
RetryAt(r, d) == Cap(now[d] + Backoff * (r.attempts + 1))

Marked(row, r, d) ==
    CASE verdict[d] = "delivered" ->
           [row EXCEPT !.status = "delivered",
                       !.attempts = Bump(@),
                       !.next_attempt_at = 0]
      [] verdict[d] = "permanent" \/ LimitReached(r) ->
           [row EXCEPT !.status = "exhausted",
                       !.attempts = Bump(@),
                       !.next_attempt_at = 0]
      [] OTHER ->
           [row EXCEPT !.status = "retrying",
                       !.attempts = Bump(@),
                       !.next_attempt_at = RetryAt(r, d)]

\* The end of a drain forgets its rows.
Leave(d) ==
    /\ phase' = [phase EXCEPT ![d] = "idle"]
    /\ now' = [now EXCEPT ![d] = 0]
    /\ batch' = [batch EXCEPT ![d] = {}]
    /\ at' = [at EXCEPT ![d] = 0]
    /\ verdict' = [verdict EXCEPT ![d] = "none"]

Mark(d) ==
    /\ phase[d] = "marking"
    /\ \E r \in batch[d] :
        /\ IsCurrent(d, r)
        /\ outbox' = IF outbox[r.key].status = "in_progress"
                     THEN [outbox EXCEPT ![r.key] = Marked(@, r, d)]
                     ELSE outbox
        /\ \/ /\ batch[d] # {r}
              /\ batch' = [batch EXCEPT ![d] = @ \ {r}]
              /\ phase' = [phase EXCEPT ![d] = "draining"]
              /\ verdict' = [verdict EXCEPT ![d] = "none"]
              /\ UNCHANGED <<now, at>>
           \/ /\ batch[d] = {r}
              /\ Leave(d)
    /\ UNCHANGED <<clock, sent>>

\* A blank subscription raises ValueError, which drain does not catch: the
\* tick is abandoned with this row and the rest of the batch in progress.
Raise(d) ==
    /\ phase[d] = "sending"
    /\ \E r \in batch[d] :
        /\ IsCurrent(d, r)
        /\ MoreTargets(d, r)
        /\ NextTarget(d, r) = Blank
    /\ Leave(d)
    /\ UNCHANGED <<clock, outbox, sent>>

\* The process dies, or a database error is raised out of the drain.
Break(d) ==
    /\ clock <= FaultHorizon
    /\ phase[d] # "idle"
    /\ Leave(d)
    /\ UNCHANGED <<clock, outbox, sent>>

Advance ==
    /\ clock < MaxClock
    /\ clock' = clock + 1
    /\ UNCHANGED <<outbox, sent, phase, now, batch, at, verdict>>

-----------------------------------------------------------------------------
Work(d) == \/ Select(d) \/ ClaimRows(d) \/ Skip(d) \/ Reject(d)
           \/ Unreachable(d) \/ Open(d) \/ Send(d) \/ AllSent(d)
           \/ Mark(d) \/ Raise(d)

Next ==
    \/ \E k \in Keys : Enqueue(k)
    \/ \E d \in Drainers : Begin(d) \/ Work(d) \/ Break(d)
    \/ Advance

Spec == Init /\ [][Next]_vars

\* Time passes, some supervisor keeps ticking, and a drain goes on.
Fairness ==
    /\ WF_vars(Advance)
    /\ WF_vars(\E d \in Drainers : Begin(d))
    /\ \A d \in Drainers : WF_vars(Work(d))

FairSpec == Spec /\ Fairness

-----------------------------------------------------------------------------
(* What the outbox promises.                                               *)

Recipients(k) == {Subs[k][i] : i \in 1 .. Len(Subs[k])}

\* "Every target send must succeed before the outbox row is marked
\* delivered" (plugin-send-delivery-design.md:51), for the rows that are sent
\* at all: through breaks, retries, lost answers and late marks, delivered
\* means that every subscriber has the message.
DeliveredReachedAll ==
    \A k \in Keys \ GatewayRequired :
        outbox[k].status = "delivered" => Recipients(k) \subseteq sent[k]

\* A row is given up only for a reason: its retry limit is used up or it can
\* never be sent.  A reclaimed row keeps its count and is not cut short.
ExhaustedIsJustified ==
    \A k \in Keys :
        outbox[k].status = "exhausted" =>
            outbox[k].attempts >= MaxAttempts \/ k \in Unsendable

\* Without overlapping drains the retry limit is exact, although the count
\* that decides is the one read when the batch was selected.
AttemptsBounded ==
    \A k \in Keys :
        /\ outbox[k].attempts <= MaxAttempts
        /\ outbox[k].status \in Pending => outbox[k].attempts < MaxAttempts

Held(d) == phase[d] \in {"draining", "sending", "marking"}

\* The rows a drain works on are still in progress and still have the count
\* it read: nothing it does is based on a stale row.
HeldRowsAreFresh ==
    \A d \in Drainers : \A r \in batch[d] :
        /\ outbox[r.key].attempts = r.attempts
        /\ Held(d) => outbox[r.key].status = "in_progress"

\* Every notification is eventually delivered or given up: failures, lost
\* leases and abandoned batches are all retried, and retries end.
EveryRowSettles ==
    \A k \in Keys :
        outbox[k].status \in Pending ~> outbox[k].status \in Final

\* What a row is to the rest of the system.
StateOf(k) == IF outbox[k].status \in Pending THEN "pending" ELSE outbox[k].status

Queue == INSTANCE Notifications WITH
            state <- [k \in Keys |-> StateOf(k)],
            reached <- sent,
            NotSent <- GatewayRequired,
            Audience <- [k \in Keys |-> Recipients(k)]

\* Drains that do not overlap implement Notifications: no send after a row is
\* settled, and a settled row stays settled.
ImplementsNotifications == Queue!Spec

=============================================================================
