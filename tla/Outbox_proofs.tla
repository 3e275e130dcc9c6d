---------------------------- MODULE Outbox_proofs ----------------------------
(***************************************************************************)
(* Proofs about Outbox, for any drainers, rows, subscriptions and limits.  *)
(* The theorems of the first part hold whether or not drains overlap.      *)
(***************************************************************************)
EXTENDS Outbox, TLAPS

-----------------------------------------------------------------------------
(* Type correctness.                                                       *)

\* The fields of rows, and what bounds them.
LEMMA RowTypes ==
    /\ Absent \notin Row
    /\ Absent.status = "absent" /\ Absent.attempts = 0
    /\ \A t \in Nat : Cap(t) \in Nat
    /\ \A n \in Nat : Bump(n) \in Nat /\ Bump(n) >= n
BY OutboxAssumption DEF Absent, Row, Pending, Final, Cap, Bump

\* A mark leaves a row.
LEMMA MarkedIsRow ==
    ASSUME TypeOK, NEW row \in Row, NEW r \in Claim, NEW d \in Drainers
    PROVE  Marked(row, r, d) \in Row
<1>1. /\ row.attempts \in Nat /\ Bump(row.attempts) \in Nat
      /\ r.attempts + 1 \in Nat /\ now[d] \in Nat
  BY RowTypes DEF Row, Claim, TypeOK
<1>2. Backoff * (r.attempts + 1) \in Nat
  BY <1>1, OutboxAssumption
<1>3. Cap(now[d] + Backoff * (r.attempts + 1)) \in Nat
  <2>1. now[d] + Backoff * (r.attempts + 1) \in Nat
    BY <1>1, <1>2
  <2> QED
    BY <2>1, RowTypes
<1> QED
  BY <1>1, <1>3 DEF Marked, LimitReached, RetryAt, Row, Pending, Final

\* Types are inductive.
LEMMA TypeStep == TypeOK /\ [Next]_vars => TypeOK'
<1> SUFFICES ASSUME TypeOK, [Next]_vars PROVE TypeOK'
  OBVIOUS
<1> USE DEF TypeOK
<1>1. ASSUME NEW k \in Keys, Enqueue(k) PROVE TypeOK'
  BY <1>1 DEF Enqueue, Row, Pending, Final
<1>2. ASSUME NEW d \in Drainers, Begin(d) PROVE TypeOK'
  BY <1>2 DEF Begin
<1>3. ASSUME NEW d \in Drainers, Select(d) PROVE TypeOK'
  <2>1. \A k \in Keys : outbox[k].attempts \in Nat /\ outbox[k].created_at \in Nat
    BY DEF Row, Absent
  <2>2. Eligible(now[d]) \subseteq Claim
    BY <2>1 DEF Eligible, Claim
  <2>3. batch' \in [Drainers -> SUBSET Claim]
    BY <1>3, <2>2 DEF Select
  <2> QED
    BY <1>3, <2>3 DEF Select
<1>4. ASSUME NEW d \in Drainers, ClaimRows(d) PROVE TypeOK'
  <2>1. Cap(now[d] + LeaseSeconds) \in Nat
    <3>1. now[d] + LeaseSeconds \in Nat
      BY OutboxAssumption
    <3> QED
      BY <3>1, RowTypes
  <2>2. \A k \in Keys : outbox'[k] \in Row \cup {Absent}
    <3> SUFFICES ASSUME NEW k \in Keys PROVE outbox'[k] \in Row \cup {Absent}
      OBVIOUS
    <3>1. CASE outbox[k] = Absent
      BY <1>4, <3>1 DEF ClaimRows
    <3>2. CASE outbox[k] # Absent
      <4>1. outbox[k] \in Row
        BY <3>2
      <4>2. [outbox[k] EXCEPT !.status = "in_progress",
                !.next_attempt_at = Cap(now[d] + LeaseSeconds)] \in Row
        BY <4>1, <2>1 DEF Row, Pending
      <4> QED
        BY <1>4, <4>1, <4>2 DEF ClaimRows
    <3> QED
      BY <3>1, <3>2
  <2>3. outbox' \in [Keys -> Row \cup {Absent}]
    BY <1>4, <2>2 DEF ClaimRows
  <2> QED
    BY <1>4, <2>3 DEF ClaimRows
<1>5. ASSUME NEW d \in Drainers,
             Skip(d) \/ Reject(d) \/ Unreachable(d) \/ Open(d) \/ AllSent(d)
      PROVE  TypeOK'
  <2>1. CASE Open(d)
    BY <2>1 DEF Open
  <2>2. CASE Skip(d) \/ Reject(d) \/ Unreachable(d) \/ AllSent(d)
    <3>1. PICK v \in {"delivered", "retryable", "permanent"} : Ends(d, v)
      BY <2>2 DEF Skip, Reject, Unreachable, AllSent
    <3>2. /\ UNCHANGED <<clock, outbox, sent, now, batch>>
          /\ at' \in {at, [at EXCEPT ![d] = 0]}
      BY <2>2 DEF Skip, Reject, Unreachable, AllSent
    <3> QED
      BY <3>1, <3>2 DEF Ends
  <2> QED
    BY <1>5, <2>1, <2>2
<1>6. ASSUME NEW d \in Drainers, Send(d) PROVE TypeOK'
  <2>1. PICK r \in batch[d] :
          /\ MoreTargets(d, r)
          /\ sent' \in {sent, [sent EXCEPT ![r.key] = @ \cup {NextTarget(d, r)}]}
    BY <1>6 DEF Send
  <2>2. r.key \in Keys
    BY DEF Claim
  <2>3. NextTarget(d, r) \in Targets
    <3>1. Subs[r.key] \in Seq(Targets)
      BY <2>2, OutboxAssumption
    <3>2. at[d] + 1 \in 1 .. Len(Subs[r.key])
      BY <2>1, <3>1 DEF MoreTargets
    <3> QED
      BY <3>1, <3>2 DEF NextTarget
  <2>4. sent' \in [Keys -> SUBSET Targets]
    BY <2>1, <2>2, <2>3
  <2>5. /\ UNCHANGED <<clock, outbox, now, batch>>
        /\ at' \in {[at EXCEPT ![d] = @ + 1], [at EXCEPT ![d] = 0]}
        /\ UNCHANGED <<phase, verdict>> \/ Ends(d, "retryable")
    BY <1>6 DEF Send
  <2> QED
    BY <2>4, <2>5 DEF Ends
<1>7. ASSUME NEW d \in Drainers, Mark(d) PROVE TypeOK'
  <2> PICK r \in batch[d] :
        /\ outbox' = IF outbox[r.key].status = "in_progress"
                     THEN [outbox EXCEPT ![r.key] = Marked(@, r, d)]
                     ELSE outbox
        /\ \/ /\ batch' = [batch EXCEPT ![d] = @ \ {r}]
              /\ phase' = [phase EXCEPT ![d] = "draining"]
              /\ verdict' = [verdict EXCEPT ![d] = "none"]
              /\ UNCHANGED <<now, at>>
           \/ Leave(d)
    BY <1>7 DEF Mark
  <2>1. r \in Claim /\ r.key \in Keys
    BY DEF Claim
  <2>2. outbox' \in [Keys -> Row \cup {Absent}]
    <3>1. CASE outbox[r.key].status = "in_progress"
      <4>1. outbox[r.key] \in Row
        BY <3>1, <2>1, RowTypes
      <4>2. Marked(outbox[r.key], r, d) \in Row
        BY <4>1, <2>1, MarkedIsRow
      <4> QED
        BY <3>1, <4>2
    <3> QED
      BY <3>1
  <2>3. UNCHANGED <<clock, sent>>
    BY <1>7 DEF Mark
  <2>4. /\ phase' \in [Drainers -> {"idle", "tick", "claiming", "draining",
                                    "sending", "marking"}]
        /\ now' \in [Drainers -> Nat]
        /\ at' \in [Drainers -> Nat]
    BY DEF Leave
  <2>5. batch' \in [Drainers -> SUBSET Claim]
    BY DEF Leave
  <2>6. verdict' \in [Drainers -> {"none", "delivered", "retryable", "permanent"}]
    BY DEF Leave
  <2> QED
    BY <2>2, <2>3, <2>4, <2>5, <2>6
<1>8. ASSUME NEW d \in Drainers, Raise(d) \/ Break(d) PROVE TypeOK'
  BY <1>8 DEF Raise, Break, Leave
<1>9. CASE Advance
  BY <1>9 DEF Advance
<1>10. CASE UNCHANGED vars
  BY <1>10 DEF vars
<1> QED
  BY <1>1, <1>2, <1>3, <1>4, <1>5, <1>6, <1>7, <1>8, <1>9, <1>10
  DEF Next, Work

\* Every step of the drainers keeps the table and the drains in their types.
THEOREM TypeCorrect == Spec => []TypeOK
<1>1. Init => TypeOK
  BY DEF Init, TypeOK
<1> QED
  BY <1>1, TypeStep, PTL DEF Spec

-----------------------------------------------------------------------------
(* Delivered rows reached their recipients, overlapping drains or not.     *)

\* What a drain has sent of its current row is on record.
SendInv ==
    \A d \in Drainers :
        /\ phase[d] \notin {"sending"} => at[d] = 0
        /\ \A r \in batch[d] : IsCurrent(d, r) =>
             /\ phase[d] = "sending" =>
                  /\ at[d] <= Len(Subs[r.key])
                  /\ \A i \in 1 .. at[d] : Subs[r.key][i] \in sent[r.key]
             /\ phase[d] = "marking" /\ verdict[d] = "delivered"
                  /\ r.key \notin GatewayRequired
                  => Recipients(r.key) \subseteq sent[r.key]

DInv == TypeOK /\ SendInv /\ DeliveredReachedAll

\* What a drain knows of a row it has selected.
LEMMA ClaimFields ==
    ASSUME TypeOK, NEW d \in Drainers, NEW r \in batch[d]
    PROVE  /\ r \in Claim
           /\ r.key \in Keys /\ r.key \in Nat
           /\ r.attempts \in Nat /\ r.created_at \in Nat
           /\ Subs[r.key] \in Seq(Targets)
           /\ Len(Subs[r.key]) \in Nat
<1>1. r \in Claim
  BY DEF TypeOK
<1>2. r.key \in Keys /\ r.attempts \in Nat /\ r.created_at \in Nat
  BY <1>1 DEF Claim
<1>3. r.key \in Nat /\ Subs[r.key] \in Seq(Targets)
  BY <1>2, OutboxAssumption
<1> QED
  BY <1>1, <1>2, <1>3

\* A drain has one current row.
LEMMA OneCurrent ==
    ASSUME TypeOK, NEW d \in Drainers, NEW r \in batch[d], NEW q \in batch[d],
           IsCurrent(d, r), IsCurrent(d, q)
    PROVE  r = q
<1>1. /\ r.key \in Nat /\ r.created_at \in Nat
      /\ q.key \in Nat /\ q.created_at \in Nat
  BY ClaimFields
<1> QED
  BY <1>1 DEF IsCurrent, Before

\* A step of one drain leaves the others' view of what was sent intact.
LEMMA SendInvOthers ==
    ASSUME TypeOK, SendInv, NEW d \in Drainers,
           \A e \in Drainers \ {d} :
               /\ phase'[e] = phase[e] /\ at'[e] = at[e]
               /\ batch'[e] = batch[e] /\ verdict'[e] = verdict[e],
           \A k \in Keys : sent[k] \subseteq sent'[k],
           phase'[d] # "sending" => at'[d] = 0,
           \A r \in batch'[d] : IsCurrent(d, r)' =>
             /\ phase'[d] = "sending" =>
                  /\ at'[d] <= Len(Subs[r.key])
                  /\ \A i \in 1 .. at'[d] : Subs[r.key][i] \in sent'[r.key]
             /\ phase'[d] = "marking" /\ verdict'[d] = "delivered"
                  /\ r.key \notin GatewayRequired
                  => Recipients(r.key) \subseteq sent'[r.key]
    PROVE  SendInv'
<1> SUFFICES ASSUME NEW e \in Drainers \ {d}
             PROVE
        /\ phase'[e] \notin {"sending"} => at'[e] = 0
        /\ \A r \in batch'[e] : IsCurrent(e, r)' =>
             /\ phase'[e] = "sending" =>
                  /\ at'[e] <= Len(Subs[r.key])
                  /\ \A i \in 1 .. at'[e] : Subs[r.key][i] \in sent'[r.key]
             /\ phase'[e] = "marking" /\ verdict'[e] = "delivered"
                  /\ r.key \notin GatewayRequired
                  => Recipients(r.key) \subseteq sent'[r.key]
  BY DEF SendInv, Recipients
<1>1. \A r \in batch[e] : r.key \in Keys
  BY ClaimFields
<1>2. ASSUME NEW r \in batch'[e], IsCurrent(e, r)'
      PROVE  r \in batch[e] /\ IsCurrent(e, r)
  BY <1>2 DEF IsCurrent
<1>3. phase'[e] # "sending" => at'[e] = 0
  BY DEF SendInv
<1>4. ASSUME NEW r \in batch'[e], IsCurrent(e, r)'
      PROVE  /\ phase'[e] = "sending" =>
                  /\ at'[e] <= Len(Subs[r.key])
                  /\ \A i \in 1 .. at'[e] : Subs[r.key][i] \in sent'[r.key]
             /\ phase'[e] = "marking" /\ verdict'[e] = "delivered"
                  /\ r.key \notin GatewayRequired
                  => Recipients(r.key) \subseteq sent'[r.key]
  <2>1. r \in batch[e] /\ IsCurrent(e, r) /\ sent[r.key] \subseteq sent'[r.key]
    BY <1>1, <1>2, <1>4
  <2> QED
    BY <2>1 DEF SendInv
<1> QED
  BY <1>3, <1>4

\* Every step keeps what a sending drain knows of its targets.
LEMMA SendInvStep == TypeOK /\ SendInv /\ [Next]_vars => SendInv'
<1> SUFFICES ASSUME TypeOK, SendInv, [Next]_vars PROVE SendInv'
  OBVIOUS
<1>1. ASSUME NEW k \in Keys, Enqueue(k) PROVE SendInv'
  BY <1>1 DEF Enqueue, SendInv, IsCurrent, Recipients
<1>2. CASE Advance
  BY <1>2 DEF Advance, SendInv, IsCurrent, Recipients
<1>3. CASE UNCHANGED vars
  BY <1>3 DEF vars, SendInv, IsCurrent, Recipients
<1>4. ASSUME NEW d \in Drainers, Begin(d) PROVE SendInv'
  BY <1>4, SendInvOthers DEF Begin, SendInv, TypeOK
<1>5. ASSUME NEW d \in Drainers, Select(d) PROVE SendInv'
  BY <1>5, SendInvOthers DEF Select, SendInv, TypeOK
<1>6. ASSUME NEW d \in Drainers, ClaimRows(d) PROVE SendInv'
  BY <1>6, SendInvOthers DEF ClaimRows, SendInv, TypeOK
<1>7. ASSUME NEW d \in Drainers, Skip(d) PROVE SendInv'
  <2>1. PICK r \in batch[d] : IsCurrent(d, r) /\ r.key \in GatewayRequired
    BY <1>7 DEF Skip
  <2>2. \A q \in batch[d] : IsCurrent(d, q) => q.key \in GatewayRequired
    BY <2>1, OneCurrent
  <2>3. \A q \in batch'[d] : IsCurrent(d, q)' => q \in batch[d] /\ IsCurrent(d, q)
    BY <1>7 DEF Skip, IsCurrent
  <2> QED
    BY <1>7, <2>2, <2>3, SendInvOthers DEF Skip, Ends, SendInv, TypeOK
<1>8. ASSUME NEW d \in Drainers, Reject(d) \/ Unreachable(d) PROVE SendInv'
  BY <1>8, SendInvOthers DEF Reject, Unreachable, Ends, SendInv, TypeOK
<1>9. ASSUME NEW d \in Drainers, Open(d) PROVE SendInv'
  <2>1. \A q \in batch[d] : 0 <= Len(Subs[q.key])
    BY ClaimFields
  <2>2. at[d] = 0 /\ at' = at /\ batch' = batch
    BY <1>9 DEF Open, SendInv
  <2>3. \A q \in batch'[d] :
          /\ at'[d] <= Len(Subs[q.key])
          /\ \A i \in 1 .. at'[d] : Subs[q.key][i] \in sent'[q.key]
    BY <2>1, <2>2
  <2>4. /\ phase'[d] = "sending" /\ sent' = sent
        /\ \A e \in Drainers \ {d} :
             /\ phase'[e] = phase[e] /\ at'[e] = at[e]
             /\ batch'[e] = batch[e] /\ verdict'[e] = verdict[e]
    BY <1>9 DEF Open, TypeOK
  <2> QED
    BY <2>3, <2>4, SendInvOthers
<1>10. ASSUME NEW d \in Drainers, Send(d) PROVE SendInv'
  <2>1. PICK r \in batch[d] :
          /\ IsCurrent(d, r)
          /\ MoreTargets(d, r)
          /\ \/ /\ sent' = [sent EXCEPT ![r.key] = @ \cup {NextTarget(d, r)}]
                /\ at' = [at EXCEPT ![d] = @ + 1]
                /\ UNCHANGED <<phase, verdict>>
             \/ /\ sent' \in {sent, [sent EXCEPT ![r.key] = @ \cup {NextTarget(d, r)}]}
                /\ Ends(d, "retryable")
                /\ at' = [at EXCEPT ![d] = 0]
    BY <1>10 DEF Send
  <2>2. phase[d] = "sending" /\ batch' = batch
    BY <1>10 DEF Send
  <2>3. /\ r.key \in Keys /\ Subs[r.key] \in Seq(Targets)
        /\ Len(Subs[r.key]) \in Nat
    BY ClaimFields
  <2>4. \A k \in Keys : sent[k] \subseteq sent'[k]
    BY <2>1 DEF TypeOK
  <2>5. \A q \in batch'[d] : IsCurrent(d, q)' => q = r
    BY <2>1, <2>2, OneCurrent DEF IsCurrent
  <2>6. CASE Ends(d, "retryable") /\ at' = [at EXCEPT ![d] = 0]
    BY <2>6, <2>2, <2>4, SendInvOthers DEF Ends, TypeOK
  <2>7. CASE /\ sent' = [sent EXCEPT ![r.key] = @ \cup {NextTarget(d, r)}]
             /\ at' = [at EXCEPT ![d] = @ + 1]
             /\ UNCHANGED <<phase, verdict>>
    <3>1. at[d] \in Nat /\ at'[d] = at[d] + 1 /\ at'[d] <= Len(Subs[r.key])
      BY <2>1, <2>3, <2>7 DEF MoreTargets, TypeOK
    <3>2. \A i \in 1 .. at[d] : Subs[r.key][i] \in sent[r.key]
      BY <2>1, <2>2 DEF SendInv
    <3>3. Subs[r.key][at[d] + 1] \in sent'[r.key]
      BY <2>3, <2>7 DEF NextTarget, TypeOK
    <3>4. \A i \in 1 .. at'[d] : Subs[r.key][i] \in sent'[r.key]
      BY <2>3, <2>4, <3>1, <3>2, <3>3
    <3>5. \A e \in Drainers \ {d} :
             /\ phase'[e] = phase[e] /\ at'[e] = at[e]
             /\ batch'[e] = batch[e] /\ verdict'[e] = verdict[e]
      BY <2>2, <2>7 DEF TypeOK
    <3>6. phase'[d] = "sending"
      BY <2>2, <2>7
    <3> QED
      BY <2>4, <2>5, <3>1, <3>4, <3>5, <3>6, SendInvOthers
  <2> QED
    BY <2>1, <2>6, <2>7
<1>11. ASSUME NEW d \in Drainers, AllSent(d) PROVE SendInv'
  <2>1. PICK r \in batch[d] : IsCurrent(d, r) /\ ~MoreTargets(d, r)
    BY <1>11 DEF AllSent
  <2>2. r.key \in Keys /\ Len(Subs[r.key]) \in Nat /\ at[d] \in Nat
    BY ClaimFields DEF TypeOK
  <2>3. at[d] = Len(Subs[r.key])
    BY <1>11, <2>1, <2>2 DEF AllSent, SendInv, MoreTargets
  <2>4. Recipients(r.key) \subseteq sent[r.key]
    BY <1>11, <2>1, <2>3 DEF AllSent, SendInv, Recipients
  <2>5. \A q \in batch'[d] : IsCurrent(d, q)' => q = r
    BY <1>11, <2>1, OneCurrent DEF AllSent, IsCurrent
  <2> QED
    BY <1>11, <2>4, <2>5, SendInvOthers DEF AllSent, Ends, TypeOK
<1>12. ASSUME NEW d \in Drainers, Mark(d) PROVE SendInv'
  <2>1. /\ sent' = sent
        /\ \/ /\ \E r \in batch[d] : batch' = [batch EXCEPT ![d] = @ \ {r}]
              /\ phase' = [phase EXCEPT ![d] = "draining"]
              /\ verdict' = [verdict EXCEPT ![d] = "none"]
              /\ UNCHANGED <<now, at>>
           \/ Leave(d)
    BY <1>12 DEF Mark
  <2>2. at[d] = 0
    BY <1>12 DEF Mark, SendInv
  <2> QED
    BY <2>1, <2>2, SendInvOthers DEF Leave, TypeOK
<1>13. ASSUME NEW d \in Drainers, Raise(d) \/ Break(d) PROVE SendInv'
  BY <1>13, SendInvOthers DEF Raise, Break, Leave, TypeOK
<1> QED
  BY <1>1, <1>2, <1>3, <1>4, <1>5, <1>6, <1>7, <1>8, <1>9, <1>10, <1>11,
     <1>12, <1>13
  DEF Next, Work

\* Messages are never unsent.
LEMMA SentGrows ==
    ASSUME TypeOK, [Next]_vars, NEW k \in Keys
    PROVE  sent[k] \subseteq sent'[k]
<1>1. ASSUME NEW d \in Drainers, Send(d) PROVE sent[k] \subseteq sent'[k]
  <2>1. PICK r \in batch[d] :
          sent' \in {sent, [sent EXCEPT ![r.key] = @ \cup {NextTarget(d, r)}]}
    BY <1>1 DEF Send
  <2> QED
    BY <2>1 DEF TypeOK
<1>2. CASE sent' = sent
  BY <1>2
<1> QED
  BY <1>1, <1>2
  DEF Next, vars, Enqueue, Begin, Work, Select, ClaimRows, Skip, Reject,
      Unreachable, Open, AllSent, Mark, Raise, Break, Advance

\* Marking a row delivered follows a full round of sends.
LEMMA DeliveredStep ==
    TypeOK /\ SendInv /\ DeliveredReachedAll /\ [Next]_vars
        => DeliveredReachedAll'
<1> SUFFICES ASSUME TypeOK, SendInv, DeliveredReachedAll, [Next]_vars,
                    NEW k \in Keys \ GatewayRequired,
                    outbox'[k].status = "delivered"
             PROVE  Recipients(k) \subseteq sent'[k]
  BY DEF DeliveredReachedAll, Recipients
<1>1. sent[k] \subseteq sent'[k]
  BY SentGrows
<1>2. CASE outbox[k].status = "delivered"
  BY <1>1, <1>2 DEF DeliveredReachedAll
<1>3. CASE outbox[k].status # "delivered"
  <2>1. PICK d \in Drainers : Mark(d)
    <3>1. ASSUME NEW j \in Keys, Enqueue(j) PROVE FALSE
      BY <1>3, <3>1 DEF Enqueue, TypeOK
    <3>2. ASSUME NEW d \in Drainers, ClaimRows(d) PROVE FALSE
      <4>1. CASE outbox[k] = Absent
        BY <1>3, <3>2, <4>1 DEF ClaimRows
      <4>2. CASE outbox[k] # Absent
        BY <1>3, <3>2, <4>2 DEF ClaimRows, TypeOK, Row
      <4> QED
        BY <4>1, <4>2
    <3>3. outbox' # outbox
      BY <1>3
    <3> QED
      BY <3>1, <3>2, <3>3
      DEF Next, vars, Begin, Work, Select, Skip, Reject, Unreachable, Open,
          Send, AllSent, Raise, Break, Advance
  <2>2. PICK r \in batch[d] :
          /\ IsCurrent(d, r)
          /\ outbox' = IF outbox[r.key].status = "in_progress"
                       THEN [outbox EXCEPT ![r.key] = Marked(@, r, d)]
                       ELSE outbox
    BY <2>1 DEF Mark
  <2>3. r.key = k /\ outbox'[k] = Marked(outbox[k], r, d)
        /\ outbox[k].status = "in_progress"
    BY <1>3, <2>2, ClaimFields DEF TypeOK
  <2>4. outbox[k] \in Row
    BY <2>3, RowTypes DEF TypeOK
  <2>5. verdict[d] = "delivered"
    BY <2>3, <2>4 DEF Marked, LimitReached, RetryAt, Row
  <2>6. Recipients(k) \subseteq sent[k]
    BY <2>1, <2>2, <2>3, <2>5 DEF SendInv, Mark
  <2> QED
    BY <1>1, <2>6
<1> QED
  BY <1>2, <1>3

\* For any number of drainers, overlapping or not, and through every lost
\* answer, break and reclaim: a row that is delivered reached every one of its
\* subscribers.
THEOREM DeliveredReachedAllHolds == Spec => []DeliveredReachedAll
<1>1. Init => DInv
  BY DEF Init, DInv, TypeOK, SendInv, DeliveredReachedAll, Absent
<1>2. DInv /\ [Next]_vars => DInv'
  BY TypeStep, SendInvStep, DeliveredStep DEF DInv
<1>3. DInv => DeliveredReachedAll
  BY DEF DInv
<1> QED
  BY <1>1, <1>2, <1>3, PTL DEF Spec

-----------------------------------------------------------------------------
(* Rows are given up for a reason, overlapping drains or not.              *)

\* A claimed row exists, and has counted at least what the drain read of it.
CountInv ==
    \A d \in Drainers :
        /\ phase[d] \in {"idle", "tick"} => batch[d] = {}
        /\ \A r \in batch[d] :
             /\ outbox[r.key] # Absent
             /\ outbox[r.key].attempts >= r.attempts
             /\ IsCurrent(d, r) /\ phase[d] = "marking"
                  /\ verdict[d] = "permanent" => r.key \in Unsendable

EInv == TypeOK /\ CountInv /\ ExhaustedIsJustified

\* A step only adds rows and raises counts.
LEMMA CountsGrow ==
    ASSUME TypeOK, [Next]_vars, NEW k \in Keys, outbox[k] # Absent
    PROVE  outbox'[k] # Absent /\ outbox'[k].attempts >= outbox[k].attempts
<1>0. outbox[k] \in Row /\ outbox[k].attempts \in Nat
  BY DEF TypeOK, Row
<1>1. ASSUME NEW j \in Keys, Enqueue(j)
      PROVE  outbox'[k] = outbox[k]
  BY <1>1 DEF Enqueue, TypeOK
<1>2. ASSUME NEW d \in Drainers, ClaimRows(d)
      PROVE  outbox'[k] \in Row /\ outbox'[k].attempts = outbox[k].attempts
  <2>1. outbox'[k].attempts = outbox[k].attempts
    BY <1>0, <1>2 DEF ClaimRows, Row
  <2>2. outbox'[k] # Absent
    BY <1>0, <1>2, RowTypes DEF ClaimRows, Row
  <2> QED
    BY <2>1, <2>2, <1>2, TypeStep DEF TypeOK
<1>3. ASSUME NEW d \in Drainers, Mark(d)
      PROVE  outbox'[k] # Absent /\ outbox'[k].attempts >= outbox[k].attempts
  <2>1. PICK r \in batch[d] :
          outbox' = IF outbox[r.key].status = "in_progress"
                    THEN [outbox EXCEPT ![r.key] = Marked(@, r, d)]
                    ELSE outbox
    BY <1>3 DEF Mark
  <2>2. CASE outbox'[k] = outbox[k]
    BY <1>0, <2>2
  <2>3. CASE outbox'[k] # outbox[k]
    <3>1. outbox'[k] = Marked(outbox[k], r, d) /\ r \in Claim
      BY <2>1, <2>3, ClaimFields DEF TypeOK
    <3>2. outbox'[k] \in Row
      BY <1>0, <3>1, MarkedIsRow
    <3>3. outbox'[k].attempts = Bump(outbox[k].attempts)
      BY <1>0, <3>1 DEF Marked, LimitReached, RetryAt, Row
    <3> QED
      BY <1>0, <3>2, <3>3, RowTypes
  <2> QED
    BY <2>2, <2>3
<1>4. CASE outbox' = outbox
  BY <1>0, <1>4
<1> QED
  BY <1>0, <1>1, <1>2, <1>3, <1>4, RowTypes
  DEF Next, vars, Begin, Work, Select, Skip, Reject, Unreachable, Open, Send,
      AllSent, Raise, Break, Advance

\* What a step can do to one drain.
LEMMA DrainMoves ==
    ASSUME TypeOK, [Next]_vars, NEW d \in Drainers
    PROVE  \/ /\ phase'[d] = phase[d] /\ batch'[d] = batch[d]
              /\ verdict'[d] = verdict[d]
           \/ Select(d)
           \/ Reject(d)
           \/ phase'[d] \in {"idle", "tick"} /\ batch'[d] \in {{}, batch[d]}
                /\ (batch'[d] # {} => phase[d] = "idle")
           \/ /\ phase'[d] \in {"draining", "sending", "marking"}
              /\ batch'[d] \subseteq batch[d]
              /\ phase'[d] = "marking" => verdict'[d] # "permanent"
<1> DEFINE Same == /\ phase'[d] = phase[d] /\ batch'[d] = batch[d]
                   /\ verdict'[d] = verdict[d]
<1>1. ASSUME NEW e \in Drainers, e # d, Begin(e) \/ Work(e) \/ Break(e)
      PROVE  Same
  BY <1>1 DEF Begin, Work, Select, ClaimRows, Skip, Reject, Unreachable, Open,
              Send, AllSent, Mark, Raise, Break, Ends, Leave, TypeOK
<1>2. CASE Begin(d)
  BY <1>2 DEF Begin, TypeOK
<1>3. CASE Work(d) \/ Break(d)
  <2>1. CASE ClaimRows(d) \/ Open(d)
    BY <2>1 DEF ClaimRows, Open, TypeOK
  <2>2. CASE Skip(d) \/ Unreachable(d) \/ AllSent(d)
    BY <2>2 DEF Skip, Unreachable, AllSent, Ends, TypeOK
  <2>3. CASE Send(d)
    BY <2>3 DEF Send, Ends, TypeOK
  <2>4. CASE Mark(d)
    BY <2>4 DEF Mark, Leave, TypeOK
  <2>5. CASE Raise(d) \/ Break(d)
    BY <2>5 DEF Raise, Break, Leave, TypeOK
  <2> QED
    BY <1>3, <2>1, <2>2, <2>3, <2>4, <2>5 DEF Work
<1>4. CASE UNCHANGED vars \/ Advance \/ \E k \in Keys : Enqueue(k)
  BY <1>4 DEF vars, Advance, Enqueue
<1> QED
  BY <1>1, <1>2, <1>3, <1>4 DEF Next

\* Every step keeps a row's count at or above that of any claim of it.
LEMMA CountStep == TypeOK /\ CountInv /\ [Next]_vars => CountInv'
<1> SUFFICES ASSUME TypeOK, CountInv, [Next]_vars, NEW d \in Drainers
             PROVE
        /\ phase'[d] \in {"idle", "tick"} => batch'[d] = {}
        /\ \A r \in batch'[d] :
             /\ outbox'[r.key] # Absent
             /\ outbox'[r.key].attempts >= r.attempts
             /\ IsCurrent(d, r)' /\ phase'[d] = "marking"
                  /\ verdict'[d] = "permanent" => r.key \in Unsendable
  BY DEF CountInv
<1>1. CASE Select(d)
  <2>1. \A r \in Eligible(now[d]) :
          /\ outbox[r.key] # Absent
          /\ outbox[r.key].attempts >= r.attempts
    <3> SUFFICES ASSUME NEW k \in Keys, outbox[k].status \in Pending
                 PROVE  outbox[k] # Absent /\ outbox[k].attempts >= outbox[k].attempts
      BY DEF Eligible
    <3> QED
      BY RowTypes DEF TypeOK, Row, Pending
  <2>2. /\ outbox' = outbox /\ verdict' = verdict
        /\ batch'[d] \subseteq Eligible(now[d])
        /\ phase'[d] = IF batch'[d] = {} THEN "idle" ELSE "claiming"
    BY <1>1 DEF Select, TypeOK
  <2> QED
    BY <2>1, <2>2
<1>2. CASE batch'[d] \subseteq batch[d] /\ ~Select(d)
  <2>1. \A r \in batch'[d] :
          outbox'[r.key] # Absent /\ outbox'[r.key].attempts >= r.attempts
    <3> SUFFICES ASSUME NEW r \in batch'[d]
                 PROVE  outbox'[r.key] # Absent /\ outbox'[r.key].attempts >= r.attempts
      OBVIOUS
    <3>1. /\ r \in batch[d] /\ r.key \in Keys /\ r.attempts \in Nat
          /\ outbox[r.key] # Absent /\ outbox[r.key].attempts >= r.attempts
      BY <1>2, ClaimFields DEF CountInv
    <3>2. outbox'[r.key] # Absent /\ outbox'[r.key].attempts >= outbox[r.key].attempts
      BY <3>1, CountsGrow
    <3>3. outbox[r.key].attempts \in Nat /\ outbox'[r.key].attempts \in Nat
      BY <3>1, TypeStep DEF TypeOK, Row, Absent
    <3> QED
      BY <3>1, <3>2, <3>3
  <2>2. phase'[d] \in {"idle", "tick"} => batch'[d] = {}
    BY <1>2, DrainMoves DEF CountInv, Reject, Ends, TypeOK
  <2>3. ASSUME NEW r \in batch'[d], IsCurrent(d, r)', phase'[d] = "marking",
               verdict'[d] = "permanent"
        PROVE  r.key \in Unsendable
    <3>1. CASE phase'[d] = phase[d] /\ verdict'[d] = verdict[d] /\ batch'[d] = batch[d]
      <4>1. IsCurrent(d, r)
        BY <2>3, <3>1 DEF IsCurrent
      <4> QED
        BY <2>3, <3>1, <4>1 DEF CountInv
    <3>2. CASE Reject(d)
      <4>1. IsCurrent(d, r) /\ r \in batch[d]
        BY <2>3, <3>2 DEF Reject, IsCurrent
      <4> QED
        BY <3>2, <4>1, OneCurrent DEF Reject
    <3> QED
      BY <1>2, <2>3, <3>1, <3>2, DrainMoves
  <2> QED
    BY <2>1, <2>2, <2>3
<1> QED
  <2>1. Reject(d) => batch'[d] = batch[d]
    BY DEF Reject
  <2> QED
    BY <1>1, <1>2, <2>1, DrainMoves

\* Only a mark exhausts a row, at the limit or because it cannot be sent.
LEMMA ExhaustedStep ==
    TypeOK /\ CountInv /\ ExhaustedIsJustified /\ [Next]_vars
        => ExhaustedIsJustified'
<1> SUFFICES ASSUME TypeOK, CountInv, ExhaustedIsJustified, [Next]_vars,
                    NEW k \in Keys, outbox'[k].status = "exhausted"
             PROVE  outbox'[k].attempts >= MaxAttempts \/ k \in Unsendable
  BY DEF ExhaustedIsJustified, Unsendable
<1>1. CASE outbox'[k] = outbox[k]
  BY <1>1 DEF ExhaustedIsJustified
<1>2. CASE outbox'[k] # outbox[k]
  <2>1. PICK d \in Drainers : Mark(d)
    <3>1. ASSUME NEW j \in Keys, Enqueue(j) PROVE FALSE
      BY <1>2, <3>1 DEF Enqueue, TypeOK
    <3>2. ASSUME NEW d \in Drainers, ClaimRows(d) PROVE FALSE
      BY <1>2, <3>2 DEF ClaimRows, TypeOK, Row
    <3> QED
      BY <1>2, <3>1, <3>2
      DEF Next, vars, Begin, Work, Select, Skip, Reject, Unreachable, Open,
          Send, AllSent, Raise, Break, Advance
  <2>2. PICK r \in batch[d] :
          /\ IsCurrent(d, r)
          /\ outbox' = IF outbox[r.key].status = "in_progress"
                       THEN [outbox EXCEPT ![r.key] = Marked(@, r, d)]
                       ELSE outbox
    BY <2>1 DEF Mark
  <2>3. /\ r.key = k /\ outbox'[k] = Marked(outbox[k], r, d)
        /\ outbox[k].status = "in_progress"
    BY <1>2, <2>2, ClaimFields DEF TypeOK
  <2>4. /\ outbox[k] \in Row /\ outbox[k].attempts \in Nat
        /\ r.attempts \in Nat /\ outbox[k].attempts >= r.attempts
        /\ MaxAttempts \in Nat
    BY <2>3, RowTypes, ClaimFields, OutboxAssumption DEF TypeOK, Row, CountInv
  <2>5. outbox'[k].attempts = Bump(outbox[k].attempts)
    BY <2>3, <2>4 DEF Marked, LimitReached, RetryAt, Row
  <2>6. CASE verdict[d] = "permanent"
    BY <2>1, <2>2, <2>3, <2>6 DEF CountInv, Mark
  <2>7. CASE verdict[d] # "permanent"
    <3>1. r.attempts + 1 >= MaxAttempts
      BY <2>3, <2>4, <2>7 DEF Marked, LimitReached, RetryAt, Row
    <3> QED
      BY <2>4, <2>5, <3>1 DEF Bump
  <2> QED
    BY <2>6, <2>7
<1> QED
  BY <1>1, <1>2

\* For any number of drainers, overlapping or not: a row is exhausted only
\* when it used up its attempts or could never be sent.
THEOREM ExhaustedIsJustifiedHolds == Spec => []ExhaustedIsJustified
<1>1. Init => EInv
  BY DEF Init, EInv, TypeOK, CountInv, ExhaustedIsJustified, Absent
<1>2. EInv /\ [Next]_vars => EInv'
  BY TypeStep, CountStep, ExhaustedStep DEF EInv
<1>3. EInv => ExhaustedIsJustified
  BY DEF EInv
<1> QED
  BY <1>1, <1>2, <1>3, PTL DEF Spec

-----------------------------------------------------------------------------
(* Drains that take turns (Exclusive): nothing a drain read goes stale.    *)

\* No two supervisors are in a tick at once.
TurnsInv ==
    \A d, e \in Drainers : phase[d] # "idle" /\ phase[e] # "idle" => d = e

\* What a drain read of its rows still holds, and it has each of them once.
FreshInv ==
    \A d \in Drainers : \A r \in batch[d] :
        /\ outbox[r.key].status \in Pending
        /\ outbox[r.key].attempts = r.attempts
        /\ Held(d) => outbox[r.key].status = "in_progress"
        /\ \A q \in batch[d] : q.key = r.key => q = r

XInv == TypeOK /\ CountInv /\ TurnsInv /\ FreshInv /\ AttemptsBounded

\* Only one drain has left idle, and only Begin leaves it.
LEMMA TurnsStep ==
    Exclusive /\ TypeOK /\ TurnsInv /\ [Next]_vars => TurnsInv'
<1> SUFFICES ASSUME Exclusive, TypeOK, TurnsInv, [Next]_vars PROVE TurnsInv'
  OBVIOUS
<1>1. ASSUME NEW d \in Drainers, Begin(d) PROVE TurnsInv'
  BY <1>1 DEF Begin, TurnsInv, TypeOK
<1>2. ASSUME NEW d \in Drainers, Work(d) \/ Break(d) PROVE TurnsInv'
  <2>1. phase[d] # "idle"
    BY <1>2 DEF Work, Break, Select, ClaimRows, Skip, Reject, Unreachable,
                Open, Send, AllSent, Mark, Raise
  <2>2. \A e \in Drainers \ {d} : phase'[e] = phase[e]
    BY <1>2 DEF Work, Break, Select, ClaimRows, Skip, Reject, Unreachable,
                Open, Send, AllSent, Mark, Raise, Ends, Leave, TypeOK
  <2> QED
    BY <2>1, <2>2 DEF TurnsInv
<1>3. CASE UNCHANGED vars \/ Advance \/ \E k \in Keys : Enqueue(k)
  BY <1>3 DEF vars, Advance, Enqueue, TurnsInv
<1> QED
  BY <1>1, <1>2, <1>3 DEF Next

\* While one drain works the others have no rows.
LEMMA OthersEmpty ==
    ASSUME CountInv, TurnsInv, NEW d \in Drainers, phase[d] # "idle",
           NEW e \in Drainers \ {d}
    PROVE  phase[e] = "idle" /\ batch[e] = {}
BY DEF CountInv, TurnsInv

\* A step inside the sending of a row touches neither rows nor claims.
LEMMA SendingFrame ==
    ASSUME TypeOK, NEW d \in Drainers,
           Skip(d) \/ Reject(d) \/ Unreachable(d) \/ Open(d) \/ Send(d)
             \/ AllSent(d)
    PROVE  /\ outbox' = outbox /\ batch' = batch
           /\ \A e \in Drainers : Held(e)' <=> Held(e)
<1>1. outbox' = outbox /\ batch' = batch
  BY DEF Skip, Reject, Unreachable, Open, Send, AllSent
<1>2. phase[d] \in {"draining", "sending"}
  BY DEF Skip, Reject, Unreachable, Open, Send, AllSent
<1>3. phase'[d] \in {"sending", "marking"}
  BY <1>2 DEF Skip, Reject, Unreachable, Open, Send, AllSent, Ends, TypeOK
<1>4. \A e \in Drainers \ {d} : phase'[e] = phase[e]
  BY DEF Skip, Reject, Unreachable, Open, Send, AllSent, Ends, TypeOK
<1> QED
  BY <1>1, <1>2, <1>3, <1>4 DEF Held

\* While one drain is at work the others change none of its rows, and it changes
\* only the one it is at.
LEMMA FreshStep ==
    TypeOK /\ CountInv /\ TurnsInv /\ FreshInv /\ [Next]_vars => FreshInv'
<1> SUFFICES ASSUME TypeOK, CountInv, TurnsInv, FreshInv, [Next]_vars
             PROVE  FreshInv'
  OBVIOUS
<1>1. ASSUME NEW k \in Keys, Enqueue(k) PROVE FreshInv'
  <2>1. \A d \in Drainers : \A r \in batch[d] : outbox'[r.key] = outbox[r.key]
    BY <1>1, ClaimFields DEF Enqueue, CountInv, TypeOK
  <2>2. batch' = batch /\ phase' = phase
    BY <1>1 DEF Enqueue
  <2> QED
    BY <2>1, <2>2 DEF FreshInv, Held
<1>2. ASSUME NEW d \in Drainers, Begin(d) PROVE FreshInv'
  <2>1. /\ outbox' = outbox /\ batch' = batch
        /\ \A e \in Drainers : Held(e)' => Held(e)
    BY <1>2 DEF Begin, Held, TypeOK
  <2> QED
    BY <2>1 DEF FreshInv
<1>3. ASSUME NEW d \in Drainers, Select(d) PROVE FreshInv'
  <2>1. /\ outbox' = outbox
        /\ batch'[d] \subseteq Eligible(now[d])
        /\ phase'[d] \in {"idle", "claiming"}
        /\ \A e \in Drainers \ {d} : batch'[e] = batch[e] /\ phase'[e] = phase[e]
    BY <1>3 DEF Select, TypeOK
  <2>2. \A r \in Eligible(now[d]) :
          /\ outbox[r.key].status \in Pending
          /\ outbox[r.key].attempts = r.attempts
          /\ \A q \in Eligible(now[d]) : q.key = r.key => q = r
    BY DEF Eligible
  <2> QED
    BY <2>1, <2>2 DEF FreshInv, Held
<1>4. ASSUME NEW d \in Drainers, ClaimRows(d) PROVE FreshInv'
  <2>1. \A e \in Drainers \ {d} : batch'[e] = {}
    BY <1>4, OthersEmpty DEF ClaimRows
  <2>2. batch'[d] = batch[d]
    BY <1>4 DEF ClaimRows
  <2>3. ASSUME NEW r \in batch[d]
        PROVE  /\ outbox'[r.key].status = "in_progress"
               /\ outbox'[r.key].attempts = outbox[r.key].attempts
    <3>1. r.key \in Keys /\ outbox[r.key] # Absent
      BY ClaimFields DEF CountInv
    <3>2. outbox[r.key] \in Row
      BY <3>1 DEF TypeOK
    <3> QED
      BY <1>4, <3>1, <3>2 DEF ClaimRows, Row
  <2> QED
    BY <2>1, <2>2, <2>3 DEF FreshInv, Pending
<1>5. ASSUME NEW d \in Drainers,
             Skip(d) \/ Reject(d) \/ Unreachable(d) \/ Open(d) \/ Send(d)
               \/ AllSent(d)
      PROVE  FreshInv'
  BY <1>5, SendingFrame DEF FreshInv
<1>6. ASSUME NEW d \in Drainers, Mark(d) PROVE FreshInv'
  <2>0. PICK r \in batch[d] :
          /\ outbox' = IF outbox[r.key].status = "in_progress"
                       THEN [outbox EXCEPT ![r.key] = Marked(@, r, d)]
                       ELSE outbox
          /\ \/ batch' = [batch EXCEPT ![d] = @ \ {r}]
             \/ batch[d] = {r} /\ batch' = [batch EXCEPT ![d] = {}]
    BY <1>6 DEF Mark, Leave
  <2>1. batch'[d] = batch[d] \ {r}
    BY <2>0 DEF TypeOK
  <2>2. phase[d] = "marking"
    BY <1>6 DEF Mark
  <2>3. \A e \in Drainers \ {d} : batch'[e] = {}
    <3>1. \A e \in Drainers \ {d} : batch'[e] = batch[e]
      BY <1>6 DEF Mark, Leave, TypeOK
    <3> QED
      BY <2>2, <3>1, OthersEmpty
  <2>4. ASSUME NEW q \in batch'[d]
        PROVE  q \in batch[d] /\ outbox'[q.key] = outbox[q.key]
    <3>1. q \in batch[d] /\ q.key # r.key
      BY <2>1 DEF FreshInv
    <3> QED
      BY <2>0, <3>1, ClaimFields DEF TypeOK
  <2>5. \A q \in batch[d] : outbox[q.key].status = "in_progress"
    BY <2>2 DEF FreshInv, Held
  <2> QED
    BY <2>1, <2>3, <2>4, <2>5 DEF FreshInv, Pending
<1>7. ASSUME NEW d \in Drainers, Raise(d) \/ Break(d) PROVE FreshInv'
  <2>1. /\ outbox' = outbox /\ batch'[d] = {}
        /\ \A e \in Drainers \ {d} : batch'[e] = batch[e] /\ phase'[e] = phase[e]
    BY <1>7 DEF Raise, Break, Leave, TypeOK
  <2> QED
    BY <2>1 DEF FreshInv, Held
<1>8. CASE Advance \/ UNCHANGED vars
  BY <1>8 DEF Advance, vars, FreshInv, Held
<1> QED
  BY <1>1, <1>2, <1>3, <1>4, <1>5, <1>6, <1>7, <1>8 DEF Next, Work

\* A mark counts the attempt the claim returned, and a row goes back to the
\* queue only below the limit.
LEMMA AttemptsStep ==
    TypeOK /\ CountInv /\ FreshInv /\ AttemptsBounded /\ [Next]_vars
        => AttemptsBounded'
<1> SUFFICES ASSUME TypeOK, CountInv, FreshInv, AttemptsBounded, [Next]_vars,
                    NEW k \in Keys
             PROVE  /\ outbox'[k].attempts <= MaxAttempts
                    /\ outbox'[k].status \in Pending
                         => outbox'[k].attempts < MaxAttempts
  BY DEF AttemptsBounded
<1>0. MaxAttempts \in Nat \ {0} /\ outbox[k].attempts \in Nat
  BY OutboxAssumption DEF TypeOK, Row, Absent
<1>1. CASE outbox'[k] = outbox[k]
  BY <1>1 DEF AttemptsBounded
<1>2. ASSUME NEW j \in Keys, Enqueue(j), outbox'[k] # outbox[k]
      PROVE  outbox'[k].attempts = 0
  BY <1>2 DEF Enqueue, TypeOK
<1>3. ASSUME NEW d \in Drainers, ClaimRows(d), outbox'[k] # outbox[k]
      PROVE  /\ outbox'[k].attempts = outbox[k].attempts
             /\ outbox[k].status \in Pending
  <2>1. PICK r \in batch[d] : r.key = k
    BY <1>3 DEF ClaimRows
  <2>2. outbox[k] \in Row
    BY <2>1 DEF CountInv, TypeOK
  <2>3. outbox'[k].attempts = outbox[k].attempts
    BY <1>3, <2>2 DEF ClaimRows, Row
  <2> QED
    BY <2>1, <2>3 DEF FreshInv
<1>4. ASSUME NEW d \in Drainers, Mark(d), outbox'[k] # outbox[k]
      PROVE  /\ outbox'[k].attempts <= MaxAttempts
             /\ outbox'[k].status \in Pending
                  => outbox'[k].attempts < MaxAttempts
  <2>1. PICK r \in batch[d] :
          outbox' = IF outbox[r.key].status = "in_progress"
                    THEN [outbox EXCEPT ![r.key] = Marked(@, r, d)]
                    ELSE outbox
    BY <1>4 DEF Mark
  <2>2. /\ r.key = k /\ outbox'[k] = Marked(outbox[k], r, d)
        /\ outbox[k].status = "in_progress"
    BY <1>4, <2>1, ClaimFields DEF TypeOK
  <2>3. outbox[k] \in Row /\ outbox[k].attempts = r.attempts
    BY <2>2, RowTypes DEF TypeOK, FreshInv
  <2>4. outbox[k].attempts < MaxAttempts
    BY <2>2 DEF AttemptsBounded, Pending
  <2>5. outbox'[k].attempts = outbox[k].attempts + 1
    <3>1. outbox'[k].attempts = Bump(outbox[k].attempts)
      BY <2>2, <2>3 DEF Marked, LimitReached, RetryAt, Row
    <3> QED
      BY <1>0, <2>4, <3>1 DEF Bump
  <2>6. outbox'[k].status \in Pending => ~LimitReached(r)
    BY <2>2, <2>3 DEF Marked, RetryAt, Row, Pending
  <2> QED
    BY <1>0, <2>3, <2>4, <2>5, <2>6 DEF LimitReached
<1>5. CASE outbox' = outbox
  BY <1>1, <1>5
<1> QED
  BY <1>0, <1>1, <1>2, <1>3, <1>4, <1>5
  DEF AttemptsBounded, Next, vars, Begin, Work, Select, Skip, Reject,
      Unreachable, Open, Send, AllSent, Raise, Break, Advance

\* All of it together holds in every reachable state.
LEMMA XInvHolds == Exclusive => (Spec => []XInv)
<1> SUFFICES ASSUME Exclusive PROVE Spec => []XInv
  OBVIOUS
<1>1. Init => XInv
  BY OutboxAssumption
  DEF Init, XInv, TypeOK, CountInv, TurnsInv, FreshInv, AttemptsBounded,
      Absent, Pending
<1>2. XInv /\ [Next]_vars => XInv'
  BY TypeStep, CountStep, TurnsStep, FreshStep, AttemptsStep DEF XInv
<1> QED
  BY <1>1, <1>2, PTL DEF Spec

\* Drains that take turns: no row is tried more than delivery_max_attempts
\* times, and a row that can be claimed has an attempt left, through breaks,
\* lost leases and reclaims.
THEOREM AttemptsBoundedHolds == Exclusive => (Spec => []AttemptsBounded)
<1>1. XInv => AttemptsBounded
  BY DEF XInv
<1> QED
  BY <1>1, XInvHolds, PTL

\* Drains that take turns: every row of a batch still has the count the drain
\* read, and is in progress as long as the drain works on the batch.
THEOREM HeldRowsAreFreshHolds == Exclusive => (Spec => []HeldRowsAreFresh)
<1>1. XInv => HeldRowsAreFresh
  BY DEF XInv, FreshInv, HeldRowsAreFresh
<1> QED
  BY <1>1, XInvHolds, PTL

-----------------------------------------------------------------------------
(* Drains that take turns implement Notifications.                         *)

\* Where the mapping sends the steps that change one row.
LEMMA BecomeStep ==
    ASSUME TypeOK, NEW k \in Keys, NEW before, NEW after,
           StateOf(k) = before, StateOf(k)' = after,
           \A j \in Keys \ {k} : StateOf(j)' = StateOf(j),
           sent' = sent
    PROVE  Queue!Become(k, before, after)
<1> DEFINE state == [j \in Keys |-> StateOf(j)]
<1>1. state[k] = before
  OBVIOUS
<1>2. state' = [state EXCEPT ![k] = after]
  OBVIOUS
<1> QED
  BY <1>1, <1>2 DEF Queue!Become

\* A step that keeps every row's state and the messages is a stutter.
LEMMA QueueStutter ==
    ASSUME \A j \in Keys : StateOf(j)' = StateOf(j), sent' = sent
    PROVE  UNCHANGED Queue!vars
BY DEF Queue!vars

\* A send is a send of the pending notification, or repeats one.
LEMMA SendReaches ==
    ASSUME TypeOK, FreshInv, NEW d \in Drainers, Send(d)
    PROVE  [Queue!Next]_(Queue!vars)
<1>1. PICK r \in batch[d] :
        /\ MoreTargets(d, r)
        /\ sent' \in {sent, [sent EXCEPT ![r.key] = @ \cup {NextTarget(d, r)}]}
  BY DEF Send
<1>2. /\ r.key \in Keys /\ Subs[r.key] \in Seq(Targets)
      /\ Len(Subs[r.key]) \in Nat /\ at[d] \in Nat
  BY ClaimFields DEF TypeOK
<1>3. NextTarget(d, r) \in Targets
  <2>1. at[d] + 1 \in 1 .. Len(Subs[r.key])
    BY <1>1, <1>2 DEF MoreTargets
  <2> QED
    BY <1>2, <2>1 DEF NextTarget
<1>4. outbox' = outbox
  BY DEF Send
<1>5. \A j \in Keys : StateOf(j)' = StateOf(j)
  BY <1>4 DEF StateOf
<1>6. CASE sent' = sent
  BY <1>5, <1>6, QueueStutter
<1>7. CASE sent' = [sent EXCEPT ![r.key] = @ \cup {NextTarget(d, r)}]
  <2>1. StateOf(r.key) = "pending"
    BY DEF StateOf, FreshInv
  <2>2. Queue!Reach(r.key)
    BY <1>2, <1>3, <1>5, <1>7, <2>1 DEF Queue!Reach
  <2> QED
    BY <1>2, <2>2 DEF Queue!Next
<1> QED
  BY <1>1, <1>6, <1>7

\* A mark settles a pending row or returns it to the queue.
LEMMA MarkSettles ==
    ASSUME TypeOK, SendInv, FreshInv, NEW d \in Drainers, Mark(d)
    PROVE  [Queue!Next]_(Queue!vars)
<1>1. PICK r \in batch[d] :
        /\ IsCurrent(d, r)
        /\ outbox' = IF outbox[r.key].status = "in_progress"
                     THEN [outbox EXCEPT ![r.key] = Marked(@, r, d)]
                     ELSE outbox
  BY DEF Mark
<1>2. sent' = sent /\ phase[d] = "marking"
  BY DEF Mark
<1>3. r.key \in Keys /\ outbox[r.key].status = "in_progress"
  BY <1>2, ClaimFields DEF FreshInv, Held
<1>4. /\ outbox'[r.key] = Marked(outbox[r.key], r, d)
      /\ \A j \in Keys \ {r.key} : outbox'[j] = outbox[j]
  BY <1>1, <1>3 DEF TypeOK
<1>5. outbox[r.key] \in Row
  BY <1>3, RowTypes DEF TypeOK
<1>6. /\ StateOf(r.key) = "pending"
      /\ \A j \in Keys \ {r.key} : StateOf(j)' = StateOf(j)
  BY <1>3, <1>4 DEF StateOf, Pending
<1>7. CASE outbox'[r.key].status = "delivered"
  <2>1. verdict[d] = "delivered"
    BY <1>4, <1>5, <1>7 DEF Marked, LimitReached, RetryAt, Row
  <2>2. r.key \notin GatewayRequired => Recipients(r.key) \subseteq sent[r.key]
    BY <1>1, <1>2, <2>1 DEF SendInv
  <2>3. StateOf(r.key)' = "delivered"
    BY <1>7 DEF StateOf, Pending
  <2>4. Queue!Become(r.key, "pending", "delivered")
    BY <1>2, <1>3, <1>6, <2>3, BecomeStep
  <2>5. Queue!Deliver(r.key)
    BY <1>3, <2>2, <2>4 DEF Queue!Deliver
  <2> QED
    BY <1>3, <2>5 DEF Queue!Next
<1>8. CASE outbox'[r.key].status = "exhausted"
  <2>1. StateOf(r.key)' = "exhausted"
    BY <1>8 DEF StateOf, Pending
  <2>2. Queue!GiveUp(r.key)
    BY <1>2, <1>3, <1>6, <2>1, BecomeStep DEF Queue!GiveUp
  <2> QED
    BY <1>3, <2>2 DEF Queue!Next
<1>9. CASE outbox'[r.key].status = "retrying"
  <2>1. StateOf(r.key)' = "pending"
    BY <1>9 DEF StateOf, Pending
  <2> QED
    BY <1>2, <1>3, <1>6, <2>1, QueueStutter
<1> QED
  BY <1>4, <1>5, <1>7, <1>8, <1>9 DEF Marked, LimitReached, RetryAt, Row

\* Every step of Outbox is a step of Notifications or a stutter.
LEMMA QueueStep ==
    TypeOK /\ SendInv /\ CountInv /\ FreshInv /\ [Next]_vars
        => [Queue!Next]_(Queue!vars)
<1> SUFFICES ASSUME TypeOK, SendInv, CountInv, FreshInv, [Next]_vars
             PROVE  [Queue!Next]_(Queue!vars)
  OBVIOUS
<1>1. ASSUME NEW k \in Keys, Enqueue(k) PROVE [Queue!Next]_(Queue!vars)
  <2>1. StateOf(k) = "absent"
    BY <1>1 DEF Enqueue, StateOf, Absent, Pending
  <2>2. StateOf(k)' = "pending"
    BY <1>1 DEF Enqueue, StateOf, Pending, TypeOK
  <2>3. \A j \in Keys \ {k} : StateOf(j)' = StateOf(j)
    BY <1>1 DEF Enqueue, StateOf, TypeOK
  <2>4. Queue!Accept(k)
    BY <1>1, <2>1, <2>2, <2>3, BecomeStep DEF Enqueue, Queue!Accept
  <2> QED
    BY <2>4 DEF Queue!Next
<1>2. ASSUME NEW d \in Drainers, ClaimRows(d) PROVE [Queue!Next]_(Queue!vars)
  <2>1. ASSUME NEW j \in Keys PROVE StateOf(j)' = StateOf(j)
    <3>1. CASE outbox'[j] = outbox[j]
      BY <3>1 DEF StateOf
    <3>2. CASE outbox'[j] # outbox[j]
      <4>1. PICK r \in batch[d] : r.key = j
        BY <1>2, <3>2 DEF ClaimRows
      <4>2. outbox[j] \in Row /\ outbox[j].status \in Pending
        BY <4>1 DEF CountInv, FreshInv, TypeOK
      <4>3. outbox'[j].status = "in_progress"
        BY <1>2, <3>2, <4>2 DEF ClaimRows, Row
      <4> QED
        BY <4>2, <4>3 DEF StateOf, Pending
    <3> QED
      BY <3>1, <3>2
  <2>2. sent' = sent
    BY <1>2 DEF ClaimRows
  <2> QED
    BY <2>1, <2>2, QueueStutter
<1>3. CASE outbox' = outbox /\ sent' = sent
  <2>1. \A j \in Keys : StateOf(j)' = StateOf(j)
    BY <1>3 DEF StateOf
  <2> QED
    BY <1>3, <2>1, QueueStutter
<1> QED
  BY <1>1, <1>2, <1>3, SendReaches, MarkSettles
  DEF Next, vars, Begin, Work, Select, Skip, Reject, Unreachable, Open,
      AllSent, Raise, Break, Advance

\* Drains that take turns implement the queue of Notifications: every step is
\* accepting, reaching, delivering or giving up one notification or changes
\* nothing of it, so that nothing is sent after a row is settled, a settled
\* row stays settled, and delivered means that every recipient was reached.
THEOREM ImplementsNotificationsHolds ==
    Exclusive => (Spec => ImplementsNotifications)
<1> SUFFICES ASSUME Exclusive PROVE Spec => ImplementsNotifications
  OBVIOUS
<1>1. Init => Queue!Init
  <2> SUFFICES ASSUME Init PROVE Queue!Init
    OBVIOUS
  <2>1. \A k \in Keys : StateOf(k) = "absent"
    BY DEF Init, StateOf, Absent, Pending
  <2> QED
    BY <2>1 DEF Init, Queue!Init
<1>2. Init => DInv
  BY DEF Init, DInv, TypeOK, SendInv, DeliveredReachedAll, Absent
<1>3. DInv /\ [Next]_vars => DInv'
  BY TypeStep, SendInvStep, DeliveredStep DEF DInv
<1>4. XInv /\ DInv /\ [Next]_vars => [Queue!Next]_(Queue!vars)
  BY QueueStep DEF XInv, DInv
<1> QED
  BY <1>1, <1>2, <1>3, <1>4, XInvHolds, PTL
  DEF Spec, ImplementsNotifications, Queue!Spec

=============================================================================
