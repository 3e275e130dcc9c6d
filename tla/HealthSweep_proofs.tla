-------------------------- MODULE HealthSweep_proofs --------------------------
(* Proofs about HealthSweep: its type invariant (and in it that no task is  *)
(* retried past max_retries between two prunings), that a proposal is not   *)
(* repeated within the retention, that none is pruned before a drain had    *)
(* it, and that the two readings of a board agree.                          *)
(*                                                                          *)
(* The log alone does not keep a proposal from being queued twice: a crash  *)
(* leaves its row started.  What does is the row of the outbox, which stays *)
(* until it is settled and as old as the retention.                         *)
EXTENDS HealthSweep, FiniteSetTheorems, TLAPS

\* Rows of the outbox and what is remembered of them.
OutboxKept ==
    /\ \A k \in DOMAIN outbox : outbox[k].status = "settled" => k \in settled
    /\ \A s \in sent :
        /\ s.day <= now
        /\ s.key \in DOMAIN outbox \cup settled
        /\ \/ s.key \in DOMAIN outbox /\ s.day <= outbox[s.key].at
           \/ s.day + StateRetention < now

\* A retry that is planned is the next attempt of its task, and the only one
\* in the plan.
AttemptsInOrder ==
    /\ \A k \in plan \cup hand : k.action = "retry" =>
          \A j \in plan \cup hand :
              j.action = "retry" /\ j.task = k.task => j = k
    /\ \A k \in plan : k.action = "retry" =>
          k.attempt = budget[k.task].attempts + 1
    /\ pc = "bump" => \A k \in hand : /\ k.action = "retry"
                                      /\ k.attempt = budget[k.task].attempts + 1
    /\ plan \cap hand = {}
    /\ pc \notin {"apply", "bump", "queue", "finish"} => plan = {}

IInv ==
    /\ TypeOK
    /\ OutboxKept
    /\ AttemptsInOrder
    /\ RepeatsAfterRetention

------------------------------------------------------------------------------
(* The tables and the plan.                                                 *)

\* The plan holds keys of Key, whose retries are the next attempts of tasks
\* of their own.
LEMMA PlanIsSound ==
    ASSUME TypeOK
    PROVE  /\ Plan \subseteq Key
           /\ \A k \in Plan : k.action = "retry" =>
                 /\ k.attempt = budget[k.task].attempts + 1
                 /\ \A j \in Plan : j.action = "retry" /\ j.task = k.task => j = k
PROOF
<1>1. ASSUME NEW k \in Plan
      PROVE  \E f \in Findings :
                /\ f.task \in Cards /\ k.action \in Followed
                /\ k.task = f.task /\ k.kind = f.kind
                /\ k.kind \in Kinds
                /\ \/ k.action # "retry" /\ k.attempt = 0
                   \/ /\ k.action = "retry" /\ Recovers(f)
                      /\ k.attempt = budget[f.task].attempts + 1
                      /\ k.attempt <= MaxRetries
                /\ k = [task |-> k.task, kind |-> k.kind, action |-> k.action,
                        attempt |-> k.attempt]
  <2>1. PICK f \in Findings : f.task \in Cards /\ k \in PlanFor(f)
    BY DEF Plan
  <2>2. f.kind \in Kinds
    BY DEF Findings, Finding
  <2>3. k.action \in Followed
    BY DEF Plan
  <2>4. \/ k = KeyOf(f, "ensure_subscription", 0)
        \/ k = KeyOf(f, "promote", 0)
        \/ k = KeyOf(f, "finalize", 0)
        \/ k = KeyOf(f, "escalate", 0)
        \/ /\ k = KeyOf(f, "retry", budget[f.task].attempts + 1)
           /\ Recovers(f) /\ budget[f.task].attempts + 1 <= MaxRetries
    BY <2>1 DEF PlanFor, Recovery
  <2> QED
    BY <2>1, <2>2, <2>3, <2>4 DEF KeyOf
<1>2. \A t \in Cards : budget[t].attempts + 1 \in Nat
  BY RetentionAssumption DEF TypeOK
<1>3. Plan \subseteq Key
  BY <1>1, <1>2, RetentionAssumption DEF Key
<1>4. ASSUME NEW k \in Plan, NEW j \in Plan, k.action = "retry",
             j.action = "retry", j.task = k.task
      PROVE  j = k
  <2>1. PICK f \in Findings :
           /\ k.task = f.task /\ k.kind = f.kind /\ Recovers(f)
           /\ k.attempt = budget[f.task].attempts + 1
           /\ k = [task |-> k.task, kind |-> k.kind, action |-> k.action,
                   attempt |-> k.attempt]
    BY <1>1, <1>4
  <2>2. PICK g \in Findings :
           /\ j.task = g.task /\ j.kind = g.kind /\ Recovers(g)
           /\ j.attempt = budget[g.task].attempts + 1
           /\ j = [task |-> j.task, kind |-> j.kind, action |-> j.action,
                   attempt |-> j.attempt]
    BY <1>1, <1>4
  <2>3. f.kind = g.kind
    BY <1>4, <2>1, <2>2 DEF Recovers, Stale, Findings, Found
  <2> QED
    BY <1>4, <2>1, <2>2, <2>3
<1> QED
  BY <1>1, <1>3, <1>4

------------------------------------------------------------------------------
(* What does not change.                                                    *)

\* A step that leaves the outbox and its history alone.
LEMMA OutboxStays ==
    ASSUME OutboxKept, RepeatsAfterRetention,
           UNCHANGED <<now, outbox, sent, settled>>
    PROVE  OutboxKept' /\ RepeatsAfterRetention'
PROOF
BY DEF OutboxKept, RepeatsAfterRetention

\* A step that leaves the plan and the budgets alone.
LEMMA AttemptsStay ==
    ASSUME AttemptsInOrder, UNCHANGED <<pc, plan, hand, budget>>
    PROVE  AttemptsInOrder'
PROOF
BY DEF AttemptsInOrder

\* A table that a row of the day was put into keeps its type.
LEMMA LogIsTyped ==
    ASSUME TypeOK, NEW k \in Key, NEW s \in {"started", "done", "failed"},
           log' = Put(log, k, s)
    PROVE  /\ DOMAIN log' \subseteq Key
           /\ \A j \in DOMAIN log' :
                 log'[j] \in [status : {"started", "done", "failed"}, at : Days]
PROOF
<1>1. /\ DOMAIN log' = DOMAIN log \cup {k}
      /\ \A j \in DOMAIN log' :
            log'[j] = IF j = k THEN [status |-> s, at |-> now] ELSE log[j]
  BY DEF Put, Is
<1>2. now \in Days
  BY DEF TypeOK
<1> QED
  BY <1>1, <1>2 DEF TypeOK

\* So does the outbox.
LEMMA OutboxIsTyped ==
    ASSUME TypeOK, NEW k \in Key, NEW s \in {"queued", "settled"},
           outbox' = Put(outbox, k, s)
    PROVE  /\ DOMAIN outbox' \subseteq Key
           /\ \A j \in DOMAIN outbox' :
                 outbox'[j] \in [status : {"queued", "settled"}, at : Days]
PROOF
<1>1. /\ DOMAIN outbox' = DOMAIN outbox \cup {k}
      /\ \A j \in DOMAIN outbox' :
            outbox'[j] = IF j = k THEN [status |-> s, at |-> now] ELSE outbox[j]
  BY DEF Put, Is
<1>2. now \in Days
  BY DEF TypeOK
<1> QED
  BY <1>1, <1>2 DEF TypeOK

------------------------------------------------------------------------------
(* The steps.                                                               *)

\* At the start the tables are empty.
LEMMA InitInv == Init => IInv
PROOF
<1> SUFFICES ASSUME Init
             PROVE  IInv
  OBVIOUS
<1> USE DEF Init
<1>1. PICK s \in Starting :
        /\ status = s.status /\ links = s.links /\ age = s.age
        /\ beating = s.beating /\ approved = s.approved /\ says = s.says
        /\ completed = s.completed
        /\ changes = s.changes /\ supervised = s.supervised
  OBVIOUS
<1>2. /\ status \in [Tasks -> Statuses]
      /\ links \subseteq Tasks \X Tasks
      /\ age \in [Tasks -> 0 .. 2]
      /\ beating \subseteq Tasks /\ approved \subseteq Tasks
      /\ says \in TextFacts
      /\ completed \in [Tasks -> Days]
      /\ changes \subseteq Change /\ supervised \in BOOLEAN
  BY <1>1, StartingAssumption
<1>3. 0 \in Days /\ 0 \in 0 .. MaxRetries /\ 0 \in 0 .. MaxFaults
  BY RetentionAssumption, SweepAssumption DEF Days
<1>4. DOMAIN log = {} /\ DOMAIN outbox = {}
  OBVIOUS
<1>5. TypeOK
  BY <1>2, <1>3, <1>4 DEF TypeOK, Nothing
<1>6. OutboxKept /\ AttemptsInOrder /\ RepeatsAfterRetention
  BY <1>4 DEF OutboxKept, AttemptsInOrder, RepeatsAfterRetention
<1> QED
  BY <1>5, <1>6 DEF IInv

\* The board changes, or a day passes.
LEMMA WorldInv ==
    ASSUME IInv, (\E c \in changes : TaskChanges(c)) \/ DayPasses
    PROVE  IInv'
PROOF
<1> USE DEF IInv
<1>1. ASSUME NEW c \in changes, TaskChanges(c)
      PROVE  IInv'
  <2>1. /\ UNCHANGED <<now, log, outbox, budget, sent, settled, pc, plan, hand,
                       tidy, cleaned, report, faults, links, approved, says,
                       supervised>>
        /\ status' = [status EXCEPT ![c.task] = c.status]
        /\ age' = [age EXCEPT ![c.task] = c.age]
        /\ beating' = (beating \ {c.task}) \cup {t \in {c.task} : c.beats}
        /\ completed' = [completed EXCEPT ![c.task] = now]
        /\ changes' = changes \ {c}
    BY <1>1 DEF TaskChanges, rows, history, sweep
  <2>2. c.task \in Tasks /\ c.status \in Statuses /\ c.age \in 0 .. 2
    BY DEF TypeOK, Change
  <2>3. /\ status' \in [Tasks -> Statuses] /\ age' \in [Tasks -> 0 .. 2]
        /\ beating' \subseteq Tasks /\ completed' \in [Tasks -> Days]
        /\ changes' \subseteq Change
    BY <2>1, <2>2 DEF TypeOK
  <2>4. TypeOK'
    BY <2>1, <2>3 DEF TypeOK
  <2> QED
    BY <2>1, <2>4, OutboxStays, AttemptsStay
<1>2. CASE DayPasses
  <2>1. /\ UNCHANGED <<status, links, age, beating, approved, says, completed,
                       changes, supervised, log, outbox, budget, sent, settled,
                       pc, plan, hand, tidy, cleaned, report, faults>>
        /\ now < LastDay /\ now' = now + 1
    BY <1>2 DEF DayPasses, board, rows, history, sweep
  <2>2. now \in Nat /\ now' \in Days /\ StateRetention \in Nat
    BY <2>1, RetentionAssumption DEF TypeOK, Days
  <2>3. TypeOK'
    BY <2>1, <2>2 DEF TypeOK
  <2>4. \A s \in sent : s.day \in Nat
    BY DEF TypeOK, Days
  <2>5. OutboxKept'
    BY <2>1, <2>2, <2>4 DEF OutboxKept
  <2>6. RepeatsAfterRetention'
    BY <2>1 DEF RepeatsAfterRetention
  <2> QED
    BY <2>1, <2>3, <2>5, <2>6, AttemptsStay
<1> QED
  BY <1>1, <1>2

\* A drain settles a row: it is settled in the history too.
LEMMA DeliverInv ==
    ASSUME IInv, NEW k \in DOMAIN outbox, Deliver(k)
    PROVE  IInv'
PROOF
<1> USE DEF IInv
<1>1. /\ UNCHANGED <<status, links, age, beating, approved, says, completed,
                     changes, supervised, now, log, budget, sent, pc, plan,
                     hand, tidy, cleaned, report, faults>>
      /\ outbox' = Put(outbox, k, "settled")
      /\ settled' = settled \cup {k}
  BY DEF Deliver, Settle, board, sweep
<1>2. k \in Key /\ now \in Nat
  BY DEF TypeOK, Days
<1>3. /\ DOMAIN outbox' \subseteq Key
      /\ \A j \in DOMAIN outbox' :
            outbox'[j] \in [status : {"queued", "settled"}, at : Days]
  BY <1>1, <1>2, OutboxIsTyped
<1>4. settled' \subseteq Key
  BY <1>1, <1>2 DEF TypeOK
<1>5. TypeOK'
  BY <1>1, <1>3, <1>4 DEF TypeOK
<1>6. /\ DOMAIN outbox' = DOMAIN outbox
      /\ outbox'[k].at = now
      /\ \A j \in DOMAIN outbox : j # k => outbox'[j] = outbox[j]
  BY <1>1 DEF Put, Is
<1>7. OutboxKept'
  BY <1>1, <1>6 DEF OutboxKept
<1>8. RepeatsAfterRetention'
  BY <1>1 DEF RepeatsAfterRetention
<1> QED
  BY <1>1, <1>5, <1>7, <1>8, AttemptsStay

\* The plan of a sweep.
LEMMA BeginSweepInv ==
    ASSUME IInv, BeginSweep
    PROVE  IInv'
PROOF
<1> USE DEF IInv
<1>1. /\ UNCHANGED <<status, links, age, beating, approved, says, completed,
                     changes, supervised, now, log, outbox, budget, sent,
                     settled, hand, tidy, cleaned, report, faults>>
      /\ pc = "idle" /\ pc' = "apply" /\ plan' = Plan
  BY DEF BeginSweep, GoTo, board, rows, history
<1>2. hand = {}
  BY <1>1 DEF TypeOK
<1>3. TypeOK'
  BY <1>1, <1>2, PlanIsSound DEF TypeOK
<1>4. AttemptsInOrder'
  BY <1>1, <1>2, PlanIsSound DEF AttemptsInOrder
<1> QED
  BY <1>1, <1>3, <1>4, OutboxStays

\* An action is marked as started, or not.
LEMMA StartInv ==
    ASSUME IInv, NEW k \in plan \cup hand, Start(k)
    PROVE  IInv'
PROOF
<1> USE DEF IInv
<1>1. /\ UNCHANGED <<status, links, age, beating, approved, says, completed,
                     changes, supervised, now, outbox, budget, sent, settled,
                     tidy, cleaned, report, faults>>
      /\ pc = "apply" /\ k \in plan /\ plan' = plan \ {k}
  BY DEF Start, board, history
<1>2. k \in Key /\ hand = {}
  BY <1>1 DEF TypeOK
<1>3. CASE MayStart(k)
  <2>1. /\ log' = Put(log, k, "started") /\ hand' = {k}
        /\ pc' = IF k.action = "retry" THEN "bump" ELSE "queue"
    BY <1>3 DEF Start, GoTo
  <2>2. /\ DOMAIN log' \subseteq Key
        /\ \A j \in DOMAIN log' :
              log'[j] \in [status : {"started", "done", "failed"}, at : Days]
    BY <1>2, <2>1, LogIsTyped
  <2>3. TypeOK'
    BY <1>1, <1>2, <2>1, <2>2 DEF TypeOK
  <2>4. AttemptsInOrder'
    BY <1>1, <1>2, <2>1 DEF AttemptsInOrder
  <2> QED
    BY <1>1, <2>3, <2>4, OutboxStays
<1>4. CASE ~ MayStart(k)
  <2>1. UNCHANGED <<log, hand, pc>>
    BY <1>4 DEF Start
  <2>2. TypeOK'
    BY <1>1, <2>1 DEF TypeOK
  <2>3. AttemptsInOrder'
    BY <1>1, <2>1 DEF AttemptsInOrder
  <2> QED
    BY <1>1, <2>2, <2>3, OutboxStays
<1> QED
  BY <1>3, <1>4

\* The attempt is counted: no other retry of the task is planned.
LEMMA BumpInv ==
    ASSUME IInv, NEW k \in plan \cup hand, Bump(k)
    PROVE  IInv'
PROOF
<1> USE DEF IInv
<1>1. /\ UNCHANGED <<status, links, age, beating, approved, says, completed,
                     changes, supervised, now, log, outbox, sent, settled,
                     plan, hand, tidy, cleaned, report, faults>>
      /\ pc = "bump" /\ k \in hand /\ pc' = "queue"
      /\ budget' = [budget EXCEPT ![k.task] = [attempts |-> @.attempts + 1,
                                               at |-> now]]
  BY DEF Bump, Bumps, GoTo, board, history
<1>2. /\ k \in Key /\ k.action = "retry"
      /\ k.attempt = budget[k.task].attempts + 1
  BY <1>1 DEF TypeOK, AttemptsInOrder
<1>3. k.task \in Cards /\ k.attempt \in 0 .. MaxRetries
  BY <1>2 DEF Key
<1>4. budget' \in [Cards -> [attempts : 0 .. MaxRetries, at : Days]]
  BY <1>1, <1>2, <1>3 DEF TypeOK
<1>5. TypeOK'
  BY <1>1, <1>4 DEF TypeOK
<1>6. \A j \in plan : j.action = "retry" =>
          j.task # k.task /\ budget'[j.task] = budget[j.task]
  <2>1. ASSUME NEW j \in plan, j.action = "retry"
        PROVE  j.task # k.task
    BY <1>1, <1>2, <2>1 DEF AttemptsInOrder
  <2>2. \A j \in plan : j.task \in Cards
    BY DEF TypeOK, Key
  <2> QED
    BY <1>1, <2>1, <2>2 DEF TypeOK
<1>7. AttemptsInOrder'
  BY <1>1, <1>6 DEF AttemptsInOrder
<1> QED
  BY <1>1, <1>5, <1>7, OutboxStays

\* The proposal is queued, unless a row with its key is there.
LEMMA QueueInv ==
    ASSUME IInv, NEW k \in plan \cup hand, Queue(k)
    PROVE  IInv'
PROOF
<1> USE DEF IInv
<1>1. /\ UNCHANGED <<status, links, age, beating, approved, says, completed,
                     changes, supervised, now, log, budget, settled, plan,
                     hand, tidy, cleaned, report, faults>>
      /\ pc = "queue" /\ k \in hand /\ pc' = "finish"
  BY DEF Queue, GoTo, board
<1>2. k \in Key /\ now \in Days /\ now \in Nat /\ StateRetention \in Nat
  BY RetentionAssumption DEF TypeOK, Days
<1>3. AttemptsInOrder'
  BY <1>1 DEF AttemptsInOrder
<1>4. CASE k \in DOMAIN outbox
  <2>1. UNCHANGED <<outbox, sent>>
    BY <1>4 DEF Queue, Queues
  <2>2. TypeOK'
    BY <1>1, <2>1 DEF TypeOK
  <2> QED
    BY <1>1, <1>3, <2>1, <2>2, OutboxStays
<1>5. CASE k \notin DOMAIN outbox
  <2>1. /\ outbox' = Put(outbox, k, "queued")
        /\ sent' = sent \cup {[key |-> k, day |-> now]}
    BY <1>5 DEF Queue, Queues
  <2>2. /\ DOMAIN outbox' \subseteq Key
        /\ \A j \in DOMAIN outbox' :
              outbox'[j] \in [status : {"queued", "settled"}, at : Days]
    BY <1>2, <2>1, OutboxIsTyped
  <2>3. sent' \subseteq [key : Key, day : Days]
    BY <1>2, <2>1 DEF TypeOK
  <2>4. TypeOK'
    BY <1>1, <2>1, <2>2, <2>3 DEF TypeOK
  <2>5. /\ DOMAIN outbox' = DOMAIN outbox \cup {k}
        /\ outbox'[k] = [status |-> "queued", at |-> now]
        /\ \A j \in DOMAIN outbox : outbox'[j] = outbox[j]
    BY <1>5, <2>1 DEF Put, Is
  <2>6. OutboxKept'
    <3>1. \A j \in DOMAIN outbox' :
              outbox'[j].status = "settled" => j \in settled'
      BY <1>1, <2>5 DEF OutboxKept
    <3>2. \A s \in sent' :
            /\ s.day <= now'
            /\ s.key \in DOMAIN outbox' \cup settled'
            /\ \/ s.key \in DOMAIN outbox' /\ s.day <= outbox'[s.key].at
               \/ s.day + StateRetention < now'
      BY <1>1, <1>2, <2>1, <2>5 DEF OutboxKept
    <3> QED
      BY <3>1, <3>2 DEF OutboxKept
  <2>7. RepeatsAfterRetention'
    <3>1. ASSUME NEW r \in sent, r.key = k
          PROVE  now > r.day + StateRetention
      <4>1. r.day + StateRetention < now
        BY <1>5, <3>1 DEF OutboxKept
      <4>2. r.day \in Nat
        BY DEF TypeOK, Days
      <4> QED
        BY <1>2, <4>1, <4>2
    <3>2. \A r \in sent : r.day <= now /\ r.day \in Nat
      BY DEF OutboxKept, TypeOK, Days
    <3>3. ASSUME NEW r \in sent', NEW s \in sent', r.key = s.key, r.day < s.day
          PROVE  s.day > r.day + StateRetention
      <4>1. CASE r \in sent /\ s \in sent
        BY <3>3, <4>1 DEF RepeatsAfterRetention
      <4>2. CASE s \notin sent
        <5>1. s.key = k /\ s.day = now
          BY <2>1, <4>2
        <5>2. r \in sent
          BY <1>2, <2>1, <3>3, <5>1
        <5> QED
          BY <3>1, <3>3, <5>1, <5>2
      <4>3. CASE r \notin sent /\ s \in sent
        <5>1. r.day = now
          BY <2>1, <4>3
        <5> QED
          BY <1>2, <3>2, <3>3, <4>3, <5>1
      <4> QED
        BY <4>1, <4>2, <4>3
    <3> QED
      BY <3>3 DEF RepeatsAfterRetention
  <2> QED
    BY <1>3, <2>4, <2>6, <2>7
<1> QED
  BY <1>4, <1>5

\* The action is done.
LEMMA MarkDoneInv ==
    ASSUME IInv, NEW k \in plan \cup hand, MarkDone(k)
    PROVE  IInv'
PROOF
<1> USE DEF IInv
<1>1. /\ UNCHANGED <<status, links, age, beating, approved, says, completed,
                     changes, supervised, now, outbox, budget, sent, settled,
                     plan, tidy, cleaned, report, faults>>
      /\ log' = Put(log, k, "done") /\ hand' = {} /\ pc' = "apply"
  BY DEF MarkDone, GoTo, board, history
<1>2. k \in Key
  BY DEF TypeOK
<1>3. /\ DOMAIN log' \subseteq Key
      /\ \A j \in DOMAIN log' :
            log'[j] \in [status : {"started", "done", "failed"}, at : Days]
  BY <1>1, <1>2, LogIsTyped
<1>4. TypeOK'
  BY <1>1, <1>3 DEF TypeOK
<1>5. AttemptsInOrder'
  BY <1>1 DEF AttemptsInOrder
<1> QED
  BY <1>1, <1>4, <1>5, OutboxStays

\* The remediation scan, and the tasks that a cleanup archives and purges.
LEMMA TidyInv ==
    ASSUME IInv, Remediate \/ Archive \/ Purge
    PROVE  IInv'
PROOF
<1> USE DEF IInv
<1>1. /\ UNCHANGED <<age, beating, approved, says, completed, changes,
                     supervised, now, log, outbox, budget, sent, settled, plan,
                     hand, cleaned, faults>>
      /\ pc' \in {"idle", "archive", "purge", "prune"}
      /\ plan = {} /\ hand = {}
  BY DEF Remediate, Archive, Purge, GoTo, board, rows, history, TypeOK,
         AttemptsInOrder
<1>2. status' \in [Tasks -> Statuses]
  <2>1. CASE Remediate
    BY <2>1 DEF Remediate, board, TypeOK
  <2>2. CASE Archive
    BY <2>2 DEF Archive, TypeOK, Statuses
  <2>3. CASE Purge
    BY <2>3 DEF Purge, TypeOK, Statuses
  <2> QED
    BY <2>1, <2>2, <2>3
<1>3. links' \subseteq Tasks \X Tasks
  <2>1. links' \subseteq links
    BY DEF Remediate, Archive, Purge, board
  <2> QED
    BY <2>1 DEF TypeOK
<1>4. /\ tidy' \in [archive : SUBSET Tasks, purge : SUBSET Tasks]
      /\ report' \in [unlink : SUBSET Tasks, promote : SUBSET Tasks]
  BY DEF Remediate, Archive, Purge, Archivable, Purgeable, Nothing, Unlinked,
         Promoted, TypeOK
<1>5. TypeOK'
  BY <1>1, <1>2, <1>3, <1>4 DEF TypeOK
<1>6. AttemptsInOrder'
  BY <1>1 DEF AttemptsInOrder
<1> QED
  BY <1>1, <1>5, <1>6, OutboxStays

\* A settled row is pruned when it is older than the retention, and so is
\* everything that was queued with its key.
LEMMA PruneInv ==
    ASSUME IInv, Prune
    PROVE  IInv'
PROOF
<1> USE DEF IInv
<1>1. /\ UNCHANGED <<status, links, age, beating, approved, says, completed,
                     changes, supervised, now, sent, settled, plan, hand, tidy,
                     report, faults>>
      /\ pc = "prune" /\ pc' = "idle" /\ cleaned' = now
      /\ log' = [k \in Live(log) |-> log[k]]
      /\ outbox' = [k \in Live(outbox) |-> outbox[k]]
      /\ budget' = [t \in Cards |-> IF BudgetExpired(t)
                                    THEN [attempts |-> 0, at |-> 0]
                                    ELSE budget[t]]
  BY DEF Prune, Prunes, GoTo, board, history
<1>2. plan = {} /\ hand = {}
  BY <1>1 DEF AttemptsInOrder, TypeOK
<1>3. Live(log) \subseteq DOMAIN log /\ Live(outbox) \subseteq DOMAIN outbox
  BY DEF Live
<1>4. 0 \in Days /\ 0 \in 0 .. MaxRetries
  BY RetentionAssumption DEF Days
<1>5. budget' \in [Cards -> [attempts : 0 .. MaxRetries, at : Days]]
  BY <1>1, <1>4 DEF TypeOK
<1>6. TypeOK'
  BY <1>1, <1>3, <1>5 DEF TypeOK
<1>7. AttemptsInOrder'
  BY <1>1, <1>2 DEF AttemptsInOrder
<1>8. ASSUME NEW k \in DOMAIN outbox, k \notin DOMAIN outbox'
      PROVE  k \in settled /\ outbox[k].at + StateRetention < now
  <2>1. Prunable(outbox[k].status) /\ Expired(outbox[k].at)
    BY <1>1, <1>8 DEF Live
  <2>2. outbox[k].status \in {"queued", "settled"}
    BY DEF TypeOK
  <2> QED
    BY <2>1, <2>2 DEF Prunable, Expired, OutboxKept
<1>9. OutboxKept'
  <2>1. \A k \in DOMAIN outbox' : k \in DOMAIN outbox /\ outbox'[k] = outbox[k]
    BY <1>1, <1>3
  <2>2. ASSUME NEW s \in sent
        PROVE  /\ s.key \in DOMAIN outbox' \cup settled
               /\ \/ s.key \in DOMAIN outbox' /\ s.day <= outbox'[s.key].at
                  \/ s.day + StateRetention < now
    <3>1. CASE s.key \in DOMAIN outbox /\ s.key \notin DOMAIN outbox'
      <4>1. s.key \in settled /\ outbox[s.key].at + StateRetention < now
        BY <1>8, <3>1
      <4>2. s.day <= outbox[s.key].at \/ s.day + StateRetention < now
        BY DEF OutboxKept
      <4>3. s.day \in Nat /\ outbox[s.key].at \in Nat /\ now \in Nat
            /\ StateRetention \in Nat
        BY <3>1, RetentionAssumption DEF TypeOK, Days
      <4> QED
        BY <4>1, <4>2, <4>3
    <3>2. CASE ~ (s.key \in DOMAIN outbox /\ s.key \notin DOMAIN outbox')
      BY <2>1, <3>2 DEF OutboxKept
    <3> QED
      BY <3>1, <3>2
  <2> QED
    BY <1>1, <2>1, <2>2 DEF OutboxKept
<1>10. RepeatsAfterRetention'
  BY <1>1 DEF RepeatsAfterRetention
<1> QED
  BY <1>6, <1>7, <1>9, <1>10

\* A sweep breaks off: an action in hand is failed or stays started.
LEMMA BreakOffInv ==
    ASSUME IInv, BreakOff
    PROVE  IInv'
PROOF
<1> USE DEF IInv
<1>1. /\ UNCHANGED <<status, links, age, beating, approved, says, completed,
                     changes, supervised, now, outbox, budget, sent, settled,
                     report>>
      /\ pc' = "idle" /\ plan' = {} /\ hand' = {} /\ tidy' = Nothing
      /\ faults < MaxFaults /\ faults' = faults + 1
      /\ cleaned' \in {cleaned, Never}
  BY DEF BreakOff, GoTo, board, history
<1>2. /\ DOMAIN log' \subseteq Key
      /\ \A j \in DOMAIN log' :
            log'[j] \in [status : {"started", "done", "failed"}, at : Days]
  <2>1. CASE UNCHANGED log
    BY <2>1 DEF TypeOK
  <2>2. ASSUME NEW k \in hand, log' = Put(log, k, "failed")
        PROVE  /\ DOMAIN log' \subseteq Key
               /\ \A j \in DOMAIN log' :
                     log'[j] \in [status : {"started", "done", "failed"},
                                  at : Days]
    BY <2>2, LogIsTyped DEF TypeOK
  <2> QED
    BY <2>1, <2>2 DEF BreakOff
<1>3. faults' \in 0 .. MaxFaults
  BY <1>1, SweepAssumption DEF TypeOK
<1>4. TypeOK'
  BY <1>1, <1>2, <1>3 DEF TypeOK, Nothing
<1>5. AttemptsInOrder'
  BY <1>1 DEF AttemptsInOrder
<1> QED
  BY <1>1, <1>4, <1>5, OutboxStays

\* The invariant holds in every state of every behaviour.
LEMMA Invariance == Spec => []IInv
PROOF
<1>1. IInv /\ [Next]_vars => IInv'
  <2> SUFFICES ASSUME IInv, [Next]_vars
               PROVE  IInv'
    OBVIOUS
  <2>1. CASE Next
    <3>1. CASE Sweep
      BY <3>1, BeginSweepInv, StartInv, BumpInv, QueueInv, MarkDoneInv, TidyInv,
         PruneInv DEF Sweep, Apply
    <3> QED
      BY <2>1, <3>1, WorldInv, DeliverInv, BreakOffInv DEF Next
  <2>2. CASE UNCHANGED vars
    <3>1. UNCHANGED <<status, links, age, beating, approved, says, completed,
                      changes, supervised, now, log, outbox, budget, sent,
                      settled, pc, plan, hand, tidy, cleaned, report, faults>>
      BY <2>2 DEF vars, board, rows, history, sweep
    <3>2. TypeOK'
      BY <3>1 DEF IInv, TypeOK
    <3> QED
      BY <3>1, <3>2, OutboxStays, AttemptsStay DEF IInv
  <2> QED
    BY <2>1, <2>2
<1> QED
  BY <1>1, InitInv, PTL DEF Spec

------------------------------------------------------------------------------

\* The tables keep their types: no task has more attempts than max_retries.
THEOREM TypeCorrect == Spec => []TypeOK
PROOF
<1>1. IInv => TypeOK
  BY DEF IInv
<1> QED
  BY <1>1, Invariance, PTL

\* A proposal that was queued is not queued again within the retention,
\* whatever breaks off and whenever pruning runs.
THEOREM RepeatedAfterRetention == Spec => []RepeatsAfterRetention
PROOF
<1>1. IInv => RepeatsAfterRetention
  BY DEF IInv
<1> QED
  BY <1>1, Invariance, PTL

\* No proposal is pruned before a drain has settled it.
THEOREM NothingForgotten == Spec => []NothingIsForgotten
PROOF
<1>1. IInv => NothingIsForgotten
  BY DEF IInv, OutboxKept, NothingIsForgotten
<1> QED
  BY <1>1, Invariance, PTL

\* On every board, of any number of tasks, what the remediation scan promotes
\* is found by analyze_health too, and what it unlinks is not.
THEOREM BothScansAgree == Spec => []ScansAgree
PROOF
<1>1. TypeOK => ScansAgree
  <2> SUFFICES ASSUME TypeOK, NEW t \in Tasks
               PROVE  /\ t \in Promoted => BlockedWithAllParentsDone(t)
                      /\ t \in Unlinked => ~ BlockedWithAllParentsDone(t)
    BY DEF ScansAgree
  <2>1. t \in Promoted => BlockedWithAllParentsDone(t)
    BY DEF Promoted, PromoteStaleTodo, BlockedWithAllParentsDone
  <2>2. ASSUME t \in Unlinked
        PROVE  ~ BlockedWithAllParentsDone(t)
    <3>1. PICK p \in Tasks :
             <<p, t>> \in links /\ status[p] \in {"todo", "running", "blocked"}
      BY <2>2 DEF Unlinked, UnlinkRecoveryParent, UnlinkReviewerParent, Suspect
    <3>2. p \in Present(Parents(t))
      BY <3>1 DEF Present, Parents
    <3> QED
      BY <3>1, <3>2 DEF BlockedWithAllParentsDone
  <2> QED
    BY <2>1, <2>2
<1> QED
  BY <1>1, TypeCorrect, PTL

------------------------------------------------------------------------------
(* Retries within a span of the retention have attempts of their own, since *)
(* a budget begins anew only when its last attempt is older than that.      *)

Retry(k) == k.action = "retry"

Past(s) == s.day + StateRetention < now

Bumped(s) ==
    /\ s.key.attempt <= budget[s.key.task].attempts
    /\ s.day <= budget[s.key.task].at

InNumber(k) ==
    /\ k.attempt >= 1
    /\ k.attempt = budget[k.task].attempts /\ budget[k.task].at = now
    /\ \A s \in sent : Retry(s.key) /\ s.key.task = k.task =>
          s.key.attempt < k.attempt \/ Past(s)

Apart(r, s) ==
    \/ r = s
    \/ r.key.attempt # s.key.attempt
    \/ r.day + StateRetention < s.day
    \/ s.day + StateRetention < r.day

RetriesApart ==
    /\ \A s \in sent : Retry(s.key) => /\ s.key.attempt >= 1
                                       /\ Bumped(s) \/ Past(s)
    /\ pc = "queue" => \A k \in hand : Retry(k) => InNumber(k)
    /\ \A r, s \in sent :
          Retry(r.key) /\ Retry(s.key) /\ r.key.task = s.key.task => Apart(r, s)

\* The types that the arithmetic of retries needs.
LEMMA RetryTypes ==
    ASSUME TypeOK
    PROVE  /\ now \in Nat /\ StateRetention \in Nat /\ MaxRetries \in Nat
           /\ \A s \in sent : /\ s.day \in Nat /\ s.key \in Key
                              /\ s.key.attempt \in Nat /\ s.key.task \in Cards
           /\ \A k \in hand : k.attempt \in Nat /\ k.task \in Cards
           /\ \A t \in Cards : budget[t].attempts \in Nat /\ budget[t].at \in Nat
PROOF
BY RetentionAssumption DEF TypeOK, Days, Key

\* A step that leaves the budgets and the history alone, and hands no retry to
\* the outbox.
LEMMA RetriesStay ==
    ASSUME RetriesApart, UNCHANGED <<now, budget, sent>>,
           pc' # "queue" \/ UNCHANGED <<pc, hand>>
    PROVE  RetriesApart'
PROOF
BY DEF RetriesApart, InNumber, Bumped, Past, Apart

\* The attempt that is counted is above all that are not yet past.
LEMMA BumpRetries ==
    ASSUME IInv, RetriesApart, NEW k \in plan \cup hand, Bump(k)
    PROVE  RetriesApart'
PROOF
<1> USE DEF IInv
<1>1. /\ UNCHANGED <<now, sent, hand>>
      /\ k \in hand
      /\ budget' = [budget EXCEPT ![k.task] = [attempts |-> @.attempts + 1,
                                               at |-> now]]
      /\ k.attempt = budget[k.task].attempts + 1
  BY DEF Bump, Bumps, history, AttemptsInOrder
<1>2. /\ k.task \in Cards
      /\ budget'[k.task].attempts = budget[k.task].attempts + 1
      /\ budget'[k.task].at = now
      /\ \A t \in Cards : t # k.task => budget'[t] = budget[t]
  BY <1>1, RetryTypes DEF TypeOK
<1>3. ASSUME NEW s \in sent, Retry(s.key), ~ Past(s)
      PROVE  Bumped(s)' /\ (s.key.task = k.task => s.key.attempt < k.attempt)
  <2>1. Bumped(s)
    BY <1>3 DEF RetriesApart
  <2>2. s.day <= now
    BY DEF OutboxKept
  <2>3. CASE s.key.task = k.task
    <3>1. /\ s.key.attempt <= budget[k.task].attempts
          /\ s.key.attempt \in Nat /\ budget[k.task].attempts \in Nat
      BY <1>2, <2>1, <2>3, RetryTypes DEF Bumped
    <3>2. s.key.attempt <= budget[k.task].attempts + 1
          /\ s.key.attempt < budget[k.task].attempts + 1
      BY <3>1
    <3> QED
      BY <1>1, <1>2, <2>2, <2>3, <3>2 DEF Bumped
  <2>4. CASE s.key.task # k.task
    BY <1>2, <2>1, <2>4, RetryTypes DEF Bumped
  <2> QED
    BY <2>3, <2>4
<1>4. \A j \in hand : j = k
  BY <1>1 DEF TypeOK
<1>5. InNumber(k)'
  <2>1. k.attempt >= 1
    BY <1>1, <1>2, RetryTypes
  <2> QED
    BY <1>1, <1>2, <1>3, <2>1 DEF InNumber, Past
<1>6. \A s \in sent : Retry(s.key) => (Bumped(s) \/ Past(s))'
  BY <1>1, <1>3 DEF Past
<1> QED
  BY <1>1, <1>4, <1>5, <1>6 DEF RetriesApart, Apart

\* What is queued is apart from what was.
LEMMA QueueRetries ==
    ASSUME IInv, RetriesApart, NEW k \in plan \cup hand, Queue(k)
    PROVE  RetriesApart'
PROOF
<1> USE DEF IInv
<1>1. /\ UNCHANGED <<now, budget, hand>> /\ pc = "queue" /\ pc' = "finish"
      /\ k \in hand
  BY DEF Queue, GoTo
<1>2. CASE k \in DOMAIN outbox
  <2>1. UNCHANGED sent
    BY <1>2 DEF Queue, Queues
  <2> QED
    BY <1>1, <2>1, RetriesStay
<1>3. CASE k \notin DOMAIN outbox
  <2>1. PICK new :
           sent' = sent \cup {new} /\ new.key = k /\ new.day = now
    <3>1. sent' = sent \cup {[key |-> k, day |-> now]}
      BY <1>3 DEF Queue, Queues
    <3>2. PICK new : new = [key |-> k, day |-> now]
      OBVIOUS
    <3>3. new.key = k /\ new.day = now
      BY <3>2
    <3> QED
      BY <3>1, <3>2, <3>3
  <2>2. Retry(k) => InNumber(k)
    BY <1>1 DEF RetriesApart
  <2>3. Retry(k) => k.attempt >= 1
    BY <2>2 DEF InNumber
  <2>4. Retry(k) => Bumped(new)'
    BY <1>1, <2>1, <2>2, RetryTypes DEF InNumber, Bumped
  <2>5. \A s \in sent' : Retry(s.key) => /\ s.key.attempt >= 1
                                         /\ (Bumped(s) \/ Past(s))'
    BY <1>1, <2>1, <2>3, <2>4 DEF RetriesApart, Bumped, Past
  <2>6. ASSUME NEW s \in sent, Retry(k), Retry(s.key), s.key.task = k.task
        PROVE  Apart(s, new) /\ Apart(new, s)
    BY <2>1, <2>2, <2>6, RetryTypes, <1>1 DEF InNumber, Past, Apart
  <2>7. \A r, s \in sent' :
            Retry(r.key) /\ Retry(s.key) /\ r.key.task = s.key.task => Apart(r, s)
    BY <2>1, <2>6 DEF RetriesApart, Apart
  <2> QED
    BY <1>1, <2>5, <2>7 DEF RetriesApart, Apart
<1> QED
  BY <1>2, <1>3

\* A budget that begins anew had no attempt within the retention.
LEMMA PruneRetries ==
    ASSUME IInv, RetriesApart, Prune
    PROVE  RetriesApart'
PROOF
<1> USE DEF IInv
<1>1. /\ UNCHANGED <<now, sent>> /\ pc' = "idle"
      /\ \A t \in Cards : budget'[t] = IF BudgetExpired(t)
                                       THEN [attempts |-> 0, at |-> 0]
                                       ELSE budget[t]
  BY DEF Prune, Prunes, GoTo, history
<1>2. ASSUME NEW s \in sent, Retry(s.key), ~ Past(s)
      PROVE  Bumped(s)'
  <2>1. Bumped(s) /\ s.key.task \in Cards
    BY <1>2, RetryTypes DEF RetriesApart
  <2>2. ~ BudgetExpired(s.key.task)
    BY <1>2, <2>1, RetryTypes DEF BudgetExpired, Expired, Past, Bumped
  <2> QED
    BY <1>1, <2>1, <2>2 DEF Bumped
<1> QED
  BY <1>1, <1>2 DEF RetriesApart, Past, Apart

\* What is past stays past.
LEMMA DayRetries ==
    ASSUME IInv, RetriesApart, DayPasses
    PROVE  RetriesApart'
PROOF
<1> USE DEF IInv
<1>1. UNCHANGED <<budget, sent, pc>> /\ pc = "idle" /\ now' = now + 1
  BY DEF DayPasses, rows, history, sweep
<1>2. \A s \in sent : Past(s) => Past(s)'
  BY <1>1, RetryTypes DEF Past
<1> QED
  BY <1>1, <1>2 DEF RetriesApart, Bumped, Apart

\* A retry goes to the outbox only after it was counted.
LEMMA RetriesInv ==
    ASSUME IInv, RetriesApart, [Next]_vars
    PROVE  RetriesApart'
PROOF
<1> USE DEF IInv
<1>1. ASSUME NEW c \in changes, TaskChanges(c)
      PROVE  RetriesApart'
  BY <1>1, RetriesStay DEF TaskChanges, rows, history, sweep
<1>2. ASSUME NEW k \in DOMAIN outbox, Deliver(k)
      PROVE  RetriesApart'
  BY <1>2, RetriesStay DEF Deliver, Settle, sweep
<1>3. CASE BeginSweep \/ BreakOff \/ Remediate \/ Archive \/ Purge
  <2>1. UNCHANGED <<now, budget, sent>> /\ pc' # "queue"
    BY <1>3 DEF BeginSweep, BreakOff, Remediate, Archive, Purge, GoTo, rows,
                history
  <2> QED
    BY <2>1, RetriesStay
<1>4. ASSUME NEW k \in plan \cup hand, Start(k)
      PROVE  RetriesApart'
  <2>1. UNCHANGED <<now, budget, sent>> /\ pc = "apply" /\ hand = {}
    BY <1>4 DEF Start, history, TypeOK
  <2>2. \/ pc' # "queue"
        \/ hand' = {k} /\ ~ Retry(k)
    BY <1>4, <2>1 DEF Start, GoTo, Retry
  <2> QED
    BY <2>1, <2>2 DEF RetriesApart, InNumber, Bumped, Past, Apart
<1>5. ASSUME NEW k \in plan \cup hand, MarkDone(k)
      PROVE  RetriesApart'
  BY <1>5, RetriesStay DEF MarkDone, GoTo, history
<1>6. CASE UNCHANGED vars
  BY <1>6, RetriesStay DEF vars, rows, history, sweep
<1> QED
  BY <1>1, <1>2, <1>3, <1>4, <1>5, <1>6, BumpRetries, QueueRetries, PruneRetries,
     DayRetries DEF Next, Sweep, Apply

\* Pruning gives a fresh budget, and still no span as long as the retention
\* has more retries of a task than max_retries.
THEOREM RetriesAreBounded == Spec => []RetriesPerRetention
PROOF
<1>1. Init => RetriesApart
  BY DEF Init, RetriesApart
<1>2. IInv /\ RetriesApart => RetriesPerRetention
  <2> SUFFICES ASSUME IInv, RetriesApart, NEW t \in Cards, NEW d \in Days
               PROVE  Cardinality({s \in sent :
                          /\ s.key.task = t /\ s.key.action = "retry"
                          /\ s.day \in d .. d + StateRetention}) <= MaxRetries
    BY DEF RetriesPerRetention
  <2> DEFINE S == {s \in sent : /\ s.key.task = t /\ s.key.action = "retry"
                                /\ s.day \in d .. d + StateRetention}
             f == [s \in S |-> s.key.attempt]
  <2>1. d \in Nat /\ StateRetention \in Nat /\ MaxRetries \in Nat
    BY RetentionAssumption DEF Days
  <2>2. \A s \in S : s.key.attempt \in 1 .. MaxRetries
    BY RetryTypes DEF IInv, RetriesApart, Retry, TypeOK, Key
  <2>3. ASSUME NEW r \in S, NEW s \in S, r.key.attempt = s.key.attempt
        PROVE  r = s
    <3>1. Apart(r, s)
      BY DEF RetriesApart, Retry
    <3>2. /\ r.day \in Nat /\ s.day \in Nat
          /\ r.day <= d + StateRetention /\ s.day <= d + StateRetention
          /\ d <= r.day /\ d <= s.day
      BY <2>1, RetryTypes DEF IInv
    <3> QED
      BY <2>1, <2>3, <3>1, <3>2 DEF Apart
  <2>4. f \in Injection(S, 1 .. MaxRetries)
    BY <2>2, <2>3 DEF Injection, IsInjective
  <2>5. IsFiniteSet(1 .. MaxRetries) /\ Cardinality(1 .. MaxRetries) = MaxRetries
    BY <2>1, FS_Interval
  <2>6. Cardinality(S) <= Cardinality(1 .. MaxRetries)
    BY <2>4, <2>5, FS_Injection
  <2> QED
    BY <2>5, <2>6
<1>3. IInv /\ RetriesApart /\ [Next]_vars => RetriesApart'
  BY RetriesInv
<1> QED
  BY <1>1, <1>2, <1>3, Invariance, PTL DEF Spec

=============================================================================
