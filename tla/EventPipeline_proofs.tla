------------------------ MODULE EventPipeline_proofs ------------------------
(***************************************************************************)
(* Proofs about EventPipeline, for any supervisors, previews, cards,       *)
(* budgets and bounds, whatever passes break off.                          *)
(***************************************************************************)
EXTENDS EventPipeline, SequenceTheorems, FiniteSetTheorems, TLAPS

-----------------------------------------------------------------------------
(* Plans.                                                                  *)

\* What Head and Tail do to the elements of a sequence.
LEMMA HeadTailRange ==
    ASSUME NEW S, NEW s \in Seq(S), s # <<>>
    PROVE  /\ Head(s) \in S
           /\ Tail(s) \in Seq(S)
           /\ Range(s) = {Head(s)} \cup Range(Tail(s))
<1>1. /\ Head(s) \in S /\ Tail(s) \in Seq(S) /\ Len(Tail(s)) = Len(s) - 1
      /\ \A i \in 1 .. Len(Tail(s)) : Tail(s)[i] = s[i + 1]
  BY HeadTailProperties
<1>2. Len(s) \in Nat \ {0}
  BY EmptySeq
<1>3. Head(s) = s[1]
  BY <1>2
<1>4. /\ Range(s) = {s[i] : i \in 1 .. Len(s)}
      /\ Range(Tail(s)) = {Tail(s)[i] : i \in 1 .. Len(Tail(s))}
  BY <1>1, RangeEquality
<1>5. ASSUME NEW x \in Range(s) PROVE x \in {Head(s)} \cup Range(Tail(s))
  <2>1. PICK i \in 1 .. Len(s) : x = s[i]
    BY <1>4, <1>5
  <2>2. CASE i = 1
    BY <1>3, <2>1, <2>2
  <2>3. CASE i # 1
    <3>1. i - 1 \in 1 .. Len(Tail(s)) /\ (i - 1) + 1 = i
      BY <1>1, <1>2, <2>3
    <3>2. Tail(s)[i - 1] = x
      BY <1>1, <2>1, <3>1
    <3> QED
      BY <1>4, <3>1, <3>2
  <2> QED
    BY <2>2, <2>3
<1>6. ASSUME NEW x \in {Head(s)} \cup Range(Tail(s)) PROVE x \in Range(s)
  <2>1. CASE x = Head(s)
    BY <1>2, <1>3, <1>4, <2>1
  <2>2. CASE x \in Range(Tail(s))
    <3>1. PICK i \in 1 .. Len(Tail(s)) : x = Tail(s)[i]
      BY <1>4, <2>2
    <3>2. i + 1 \in 1 .. Len(s) /\ x = s[i + 1]
      BY <1>1, <1>2, <3>1
    <3> QED
      BY <1>4, <3>2
  <2> QED
    BY <1>6, <2>1, <2>2
<1> QED
  BY <1>1, <1>5, <1>6

\* The elements of the empty sequence.
LEMMA EmptyRange == Range(<<>>) = {}
BY DEF Range

\* The elements of a sequence of one.
LEMMA OneRange ==
    ASSUME NEW S, NEW x \in S
    PROVE  <<x>> \in Seq(S) /\ Len(<<x>>) = 1 /\ Range(<<x>>) = {x}
<1> DEFINE s == <<x>>
<1>1. s \in Seq(S) /\ Len(s) = 1 /\ s[1] = x
  OBVIOUS
<1> HIDE DEF s
<1>2. Range(s) = {s[i] : i \in 1 .. 1}
  BY <1>1, RangeEquality
<1>3. Range(s) = {x}
  BY <1>1, <1>2
<1> QED
  BY <1>1, <1>3 DEF s

\* Two parts of a plan make one.
LEMMA PartsOfPlan ==
    ASSUME NEW S, NEW s \in Seq(S), NEW q \in Seq(S)
    PROVE  s \o q \in Seq(S) /\ Range(s \o q) = Range(s) \cup Range(q)
BY ConcatProperties, RangeConcatenation

\* A part of a plan is empty or one action that the part is about.
LEMMA OneAction ==
    ASSUME NEW S, NEW x \in S, NEW s \in {<<>>, <<x>>}
    PROVE  s \in Seq(S) /\ Range(s) \subseteq {x}
<1>1. CASE s = <<>>
  BY <1>1, EmptyRange, EmptySeq
<1>2. CASE s = <<x>>
  BY <1>2, OneRange
<1> QED
  BY <1>1, <1>2

\* A review's answers are keys.
LEMMA AnswersAreKeys ==
    ASSUME NEW v \in Verdicts, NEW t \in Tasks
    PROVE  /\ Answers(v, t) \in Seq(Key)
           /\ Range(Answers(v, t)) = {Answers(v, t)[n] : n \in 1 .. 3}
           /\ \A n \in 1 .. 3 : Answers(v, t)[n].kind \in
                 {"approve-comment", "approve-unblock", "approve-finalize",
                  "needs-changes-comment", "create_implementer_followup",
                  "needs-changes-unblock"}
<1>1. \A k \in {"approve-comment", "approve-unblock", "approve-finalize",
                "needs-changes-comment", "create_implementer_followup",
                "needs-changes-unblock"} :
         TaskAction(k, t) \in Key /\ TaskAction(k, t).kind = k
  BY DEF TaskAction, Key
<1> DEFINE s == Answers(v, t)
<1>2. /\ s \in Seq(Key) /\ Len(s) = 3
      /\ \A n \in 1 .. 3 : s[n].kind \in
            {"approve-comment", "approve-unblock", "approve-finalize",
             "needs-changes-comment", "create_implementer_followup",
             "needs-changes-unblock"}
  BY <1>1 DEF Answers
<1> HIDE DEF s
<1>3. Range(s) = {s[n] : n \in 1 .. 3}
  BY <1>2, RangeEquality
<1> QED
  BY <1>2, <1>3 DEF s

Fails(i) == i.kind \in {"crashed", "stale"}

\* What is planned for an event or a finding holds a recovery just when it is
\* a failure or a stale task: the one that _bounded_recovery chose.  It holds
\* what the event means for a review.
LEMMA PlanProperties ==
    ASSUME TypeOK, NEW c \in Collectors, NEW i \in Item, NEW p \in Plans(c, i)
    PROVE  /\ p \in Seq(Key)
           /\ \A k \in Range(p) : k.kind \in {"retry", "escalate"}
                    => Fails(i) /\ k = BoundedRecovery(i)
           /\ Fails(i) => BoundedRecovery(i) \in Range(p)
           /\ Range(Review(i)) \subseteq Range(p)
           /\ Range(Answer(i)) \subseteq Range(p)
<1> DEFINE None == {k \in Key : k.kind \notin {"retry", "escalate"}}
<1>1. /\ \A kind \in {"ensure_subscription", "notify", "comment",
                      "create_blocked_remediation"} : Action(kind, i, 0) \in None
      /\ TaskAction("create_reviewer", i.task) \in None
  BY DEF Action, TaskAction, Key, Item
<1>2. BoundedRecovery(i) \in Key
  <2>1. /\ i.task \in Tasks
        /\ RecoveryKind(i.event) \in {"stale-running", "worker-failure"}
    BY DEF Item, RecoveryKind
  <2>2. retry[i.task][RecoveryKind(i.event)] \in Nat
    BY <2>1 DEF TypeOK
  <2> HIDE DEF RecoveryKind
  <2> QED
    BY <2>2, PipelineAssumption DEF BoundedRecovery, Action, Key, Item
<1>3. PICK q \in BlockedRemediation(c, i) :
         p = Subscription(i) \o Continuation(i) \o q \o Review(i) \o Answer(i)
               \o Recovery(i)
  BY DEF Plans
<1>4. ASSUME NEW s, NEW x \in None, s = <<>> \/ s = <<x>>
      PROVE  s \in Seq(Key) /\ Range(s) \subseteq None
  <2>1. x \in Key
    OBVIOUS
  <2> DEFINE T == {<<>>, <<x>>}
  <2>2. s \in T
    BY <1>4
  <2>3. \A y \in T : y \in Seq(Key) /\ Range(y) \subseteq {x}
    BY <2>1, OneAction
  <2> HIDE DEF T
  <2>4. s \in Seq(Key) /\ Range(s) \subseteq {x}
    BY <2>2, <2>3
  <2> QED
    BY <2>4
<1>5. Subscription(i) \in Seq(Key) /\ Range(Subscription(i)) \subseteq None
  BY <1>1, <1>4 DEF Subscription
<1>6. Continuation(i) \in Seq(Key) /\ Range(Continuation(i)) \subseteq None
  BY <1>1, <1>4 DEF Continuation
<1>7. q \in Seq(Key) /\ Range(q) \subseteq None
  <2>1. \/ q = <<>> \/ q = <<Action("comment", i, 0)>>
        \/ q = <<Action("create_blocked_remediation", i, 0)>>
    BY <1>3 DEF BlockedRemediation
  <2> QED
    BY <1>1, <1>4, <2>1
<1>8. Review(i) \in Seq(Key) /\ Range(Review(i)) \subseteq None
  BY <1>1, <1>4 DEF Review
<1>9. Answer(i) \in Seq(Key) /\ Range(Answer(i)) \subseteq None
  <2>1. CASE i.kind \in Verdicts /\ i.task \in Reviewers
    <3>1. i.task \in Tasks /\ Answer(i) = Answers(i.kind, i.task)
      BY <2>1 DEF Answer, Item
    <3>2. Range(Answer(i)) \subseteq Key
      BY <2>1, <3>1, AnswersAreKeys, RangeOfSeq
    <3> QED
      BY <2>1, <3>1, <3>2, AnswersAreKeys
  <2>2. CASE ~ (i.kind \in Verdicts /\ i.task \in Reviewers)
    BY <2>2, EmptyRange, EmptySeq DEF Answer
  <2> QED
    BY <2>1, <2>2
<1>10. /\ Recovery(i) \in Seq(Key)
       /\ Fails(i) => Range(Recovery(i)) = {BoundedRecovery(i)}
       /\ ~Fails(i) => Range(Recovery(i)) = {}
  BY <1>2, OneRange, EmptyRange, EmptySeq DEF Recovery, Fails
<1> DEFINE a1 == Subscription(i)
           a2 == Continuation(i)
           a4 == Review(i)
           a5 == Answer(i)
           a6 == Recovery(i)
<1>11. /\ a1 \in Seq(Key) /\ a2 \in Seq(Key) /\ q \in Seq(Key)
       /\ a4 \in Seq(Key) /\ a5 \in Seq(Key) /\ a6 \in Seq(Key)
       /\ p = a1 \o a2 \o q \o a4 \o a5 \o a6
  BY <1>3, <1>5, <1>6, <1>7, <1>8, <1>9, <1>10
<1> HIDE DEF a1, a2, a4, a5, a6
<1>12. /\ p \in Seq(Key)
       /\ Range(p) = Range(a1) \cup Range(a2) \cup Range(q) \cup Range(a4)
                       \cup Range(a5) \cup Range(a6)
  <2>1. a1 \o a2 \in Seq(Key) /\ Range(a1 \o a2) = Range(a1) \cup Range(a2)
    BY <1>11, PartsOfPlan
  <2> DEFINE b2 == a1 \o a2
  <2> HIDE DEF b2
  <2>2. b2 \o q \in Seq(Key) /\ Range(b2 \o q) = Range(b2) \cup Range(q)
    <3>1. b2 \in Seq(Key)
      BY <2>1 DEF b2
    <3> QED
      BY <1>11, <3>1, PartsOfPlan
  <2> DEFINE b3 == b2 \o q
  <2> HIDE DEF b3
  <2>3. b3 \o a4 \in Seq(Key) /\ Range(b3 \o a4) = Range(b3) \cup Range(a4)
    <3>1. b3 \in Seq(Key)
      BY <2>2 DEF b3
    <3> QED
      BY <1>11, <3>1, PartsOfPlan
  <2> DEFINE b4 == b3 \o a4
  <2> HIDE DEF b4
  <2>4. b4 \o a5 \in Seq(Key) /\ Range(b4 \o a5) = Range(b4) \cup Range(a5)
    <3>1. b4 \in Seq(Key)
      BY <2>3 DEF b4
    <3> QED
      BY <1>11, <3>1, PartsOfPlan
  <2> DEFINE b5 == b4 \o a5
  <2> HIDE DEF b5
  <2>5. b5 \o a6 \in Seq(Key) /\ Range(b5 \o a6) = Range(b5) \cup Range(a6)
    <3>1. b5 \in Seq(Key)
      BY <2>4 DEF b5
    <3> QED
      BY <1>11, <3>1, PartsOfPlan
  <2>6. p = b5 \o a6
    BY <1>11 DEF b2, b3, b4, b5
  <2>7. /\ Range(b2) = Range(a1) \cup Range(a2)
        /\ Range(b3) = Range(b2) \cup Range(q)
        /\ Range(b4) = Range(b3) \cup Range(a4)
        /\ Range(b5) = Range(b4) \cup Range(a5)
    BY <2>1, <2>2, <2>3, <2>4 DEF b2, b3, b4, b5
  <2> QED
    BY <2>5, <2>6, <2>7
<1>13. Range(p) = Range(Subscription(i)) \cup Range(Continuation(i)) \cup Range(q)
                    \cup Range(Review(i)) \cup Range(Answer(i)) \cup Range(Recovery(i))
  BY <1>12 DEF a1, a2, a4, a5, a6
<1> QED
  BY <1>5, <1>6, <1>7, <1>8, <1>9, <1>10, <1>12, <1>13

-----------------------------------------------------------------------------
(* Type correctness.  A pass takes the head of a batch or of a plan only    *)
(* where it has one, numbers its events on from its local cursor, and has a *)
(* row in action_log for the action under way.                              *)

Shape ==
    /\ cursor <= Len(board)
    /\ \A c \in Collectors :
         /\ seen[c] <= Len(board)
         /\ pc[c] = "mark" =>
              /\ batch[c] # <<>>
              /\ \A j \in 1 .. Len(batch[c]) :
                    /\ batch[c][j].event = seen[c] + j
                    /\ batch[c][j].event <= Len(board)
         /\ pc[c] \in {"bump", "queue", "finish"} =>
              plan[c] # <<>> /\ Head(plan[c]) \in logged

TInv == TypeOK /\ Shape

\* The events a tail reads are those that follow its cursor.
LEMMA ReadProperties ==
    ASSUME TypeOK, Shape, NEW c \in Collectors, ReadEvents(c)
    PROVE  /\ batch'[c] \in Seq(Item)
           /\ \A j \in 1 .. Len(batch'[c]) :
                 /\ batch'[c][j].event = seen[c] + j
                 /\ batch'[c][j].event <= Len(board)
           /\ Len(batch'[c]) = LastRead(seen[c]) - seen[c]
<1> DEFINE n == LastRead(seen[c]) - seen[c]
           read == [j \in 1 .. n |-> ItemOf(seen[c] + j)]
<1>1. /\ n \in Nat /\ seen[c] \in Nat /\ Len(board) \in Nat
      /\ seen[c] + n <= Len(board)
  <2>1. seen[c] \in Nat /\ Len(board) \in Nat /\ seen[c] <= Len(board)
    BY LenProperties DEF Shape, TypeOK
  <2> QED
    BY <2>1, PipelineAssumption DEF LastRead
<1> HIDE DEF n
<1>2. ASSUME NEW j \in 1 .. n
      PROVE  /\ ItemOf(seen[c] + j) \in Item
             /\ ItemOf(seen[c] + j).event = seen[c] + j
             /\ seen[c] + j <= Len(board)
  <2>1. seen[c] + j \in 1 .. Len(board)
    BY <1>1
  <2>2. board[seen[c] + j] \in [task : Tasks, kind : EventKinds]
    BY <2>1, ElementOfSeq DEF TypeOK
  <2> QED
    BY <2>1, <2>2 DEF ItemOf, Item, TypeOK
<1>3. read \in [1 .. n -> Item]
  BY <1>2
<1>4. read \in Seq(Item) /\ Len(read) = n
  BY <1>1, <1>3
<1>5. batch'[c] = read
  BY DEF ReadEvents, TypeOK, n
<1> QED
  BY <1>2, <1>4, <1>5 DEF n

\* The findings of analyze_health are as many items as there are tasks in
\* the set of them.
LEMMA FindingsAreItems ==
    ASSUME NEW S \in SUBSET Tasks, NEW f \in Findings(S)
    PROVE  [j \in DOMAIN f |-> [event |-> 0, task |-> f[j],
                                kind |-> "stale", status |-> "running"]]
             \in Seq(Item)
<1>1. Cardinality(S) \in Nat
  BY PipelineAssumption, FS_Subset, FS_CardinalityType
<1>2. f \in [1 .. Cardinality(S) -> S]
  BY DEF Findings
<1>3. [j \in DOMAIN f |-> [event |-> 0, task |-> f[j],
                           kind |-> "stale", status |-> "running"]]
        \in [1 .. Cardinality(S) -> Item]
  BY <1>2 DEF Item
<1> QED
  BY <1>1, <1>3

\* Types are inductive, given the shape of a pass.
LEMMA TypeStep == TInv /\ [Next]_vars => TypeOK'
<1> SUFFICES ASSUME TypeOK, Shape, [Next]_vars PROVE TypeOK'
  BY DEF TInv
<1>1. ASSUME NEW t \in Tasks, NEW kind \in Occurring,
             WorkerStops(t, kind)
      PROVE  TypeOK'
  <2>1. kind \in EventKinds
    BY PipelineAssumption
  <2>2. board' \in Seq([task : Tasks, kind : EventKinds])
    BY <1>1, <2>1, AppendProperties DEF WorkerStops, TypeOK
  <2> QED
    BY <1>1, <2>2 DEF WorkerStops, TypeOK, tables, locals
<1>2. ASSUME NEW t \in Tasks, Resume(t) PROVE TypeOK'
  BY <1>2 DEF Resume, TypeOK, tables, locals
<1>3. ASSUME NEW c \in Collectors, Begin(c) PROVE TypeOK'
  BY <1>3 DEF Begin, GoTo, TypeOK, tables
<1>4. ASSUME NEW c \in Collectors, ReadEvents(c) PROVE TypeOK'
  <2>1. batch' \in [Collectors -> Seq(Item)]
    BY <1>4, ReadProperties DEF ReadEvents, TypeOK
  <2> QED
    BY <1>4, <2>1 DEF ReadEvents, GoTo, TypeOK, tables
<1>5. ASSUME NEW c \in Collectors, MarkProcessed(c) PROVE TypeOK'
  <2>1. batch[c] \in Seq(Item) /\ batch[c] # <<>>
    BY <1>5 DEF MarkProcessed, Shape, TypeOK
  <2>2. Head(batch[c]) \in Item /\ Tail(batch[c]) \in Seq(Item)
    BY <2>1, HeadTailRange
  <2>3. Head(batch[c]).event \in Nat
    BY <2>2 DEF Item
  <2>4. Append(todo[c], Head(batch[c])) \in Seq(Item)
    BY <2>2, AppendProperties DEF TypeOK
  <2>5. todo' \in [Collectors -> Seq(Item)]
    BY <1>5, <2>4 DEF MarkProcessed, TypeOK
  <2>6. batch' \in [Collectors -> Seq(Item)]
    BY <1>5, <2>2 DEF MarkProcessed, TypeOK
  <2>7. hand' \in [Collectors -> SUBSET Nat]
    <3>1. hand[c] \cup {Head(batch[c]).event} \in SUBSET Nat
      BY <2>3 DEF TypeOK
    <3>2. \/ hand' = hand
          \/ hand' = [hand EXCEPT ![c] = hand[c] \cup {Head(batch[c]).event}]
      BY <1>5 DEF MarkProcessed
    <3> QED
      BY <3>1, <3>2 DEF TypeOK
  <2>8. processed' \subseteq Nat /\ seen' \in [Collectors -> Nat]
    BY <1>5, <2>3 DEF MarkProcessed, TypeOK
  <2> QED
    BY <1>5, <2>5, <2>6, <2>7, <2>8 DEF MarkProcessed, GoTo, TypeOK
<1>6. ASSUME NEW c \in Collectors, SetCursor(c) PROVE TypeOK'
  BY <1>6 DEF SetCursor, MaxEventId, GoTo, TypeOK
<1>7. ASSUME NEW c \in Collectors, PlanNext(c) PROVE TypeOK'
  <2>1. Head(todo[c]) \in Item /\ Tail(todo[c]) \in Seq(Item)
    BY <1>7, HeadTailRange DEF PlanNext, TypeOK
  <2>2. plan' \in [Collectors -> Seq(Key)]
    BY <1>7, <2>1, PlanProperties, ConcatProperties DEF PlanNext, TypeOK
  <2> QED
    BY <1>7, <2>1, <2>2 DEF PlanNext, TypeOK, tables
<1>8. ASSUME NEW c \in Collectors, PlanEnds(c) PROVE TypeOK'
  <2>1. plan' \in [Collectors -> Seq(Key)]
    <3>1. <<>> \in Seq(Key)
      BY EmptySeq
    <3>2. plan' = plan \/ plan' = [plan EXCEPT ![c] = <<>>]
      BY <1>8 DEF PlanEnds
    <3> QED
      BY <3>1, <3>2 DEF TypeOK
  <2>2. lost' \subseteq Nat
    BY <1>8 DEF PlanEnds, TypeOK
  <2> QED
    BY <1>8, <2>1, <2>2 DEF PlanEnds, GoTo, TypeOK, tables
<1>9. ASSUME NEW c \in Collectors, Duplicate(c) \/ StartAction(c) PROVE TypeOK'
  <2>1. Head(plan[c]) \in Key /\ Tail(plan[c]) \in Seq(Key)
    BY <1>9, HeadTailRange DEF Duplicate, StartAction, TypeOK
  <2>2. CASE Duplicate(c)
    BY <2>1, <2>2 DEF Duplicate, TypeOK, tables
  <2>3. CASE StartAction(c)
    BY <2>1, <2>3 DEF StartAction, GoTo, TypeOK
  <2> QED
    BY <1>9, <2>2, <2>3
<1>10. ASSUME NEW c \in Collectors, BumpRetry(c) \/ Queue(c) \/ MarkDone(c)
       PROVE  TypeOK'
  <2>1. Head(plan[c]) \in Key /\ Tail(plan[c]) \in Seq(Key)
    BY <1>10, HeadTailRange DEF BumpRetry, Queue, MarkDone, Shape, TypeOK
  <2>2. CASE BumpRetry(c)
    <3>1. /\ Head(plan[c]).task \in Tasks
          /\ RecoveryKind(Head(plan[c]).event) \in {"stale-running", "worker-failure"}
      BY <2>1 DEF Key, RecoveryKind
    <3> HIDE DEF RecoveryKind
    <3> DEFINE u == Head(plan[c]).task
               r == RecoveryKind(Head(plan[c]).event)
    <3>2. retry' = [retry EXCEPT ![u][r] = retry[u][r] + 1]
      BY <2>2 DEF BumpRetry
    <3> HIDE DEF u, r
    <3>3. u \in Tasks /\ r \in {"stale-running", "worker-failure"}
      BY <3>1 DEF u, r
    <3>4. retry' \in [Tasks -> [{"stale-running", "worker-failure"} -> Nat]]
      BY <3>2, <3>3 DEF TypeOK
    <3> QED
      BY <2>2, <3>4 DEF BumpRetry, GoTo, TypeOK
  <2>3. CASE Queue(c)
    BY <2>1, <2>3 DEF Queue, GoTo, TypeOK
  <2>4. CASE MarkDone(c)
    <3>1. Head(plan[c]) \in logged
      BY <2>4 DEF MarkDone, Shape
    <3>2. done' \subseteq logged'
      BY <2>4, <3>1 DEF MarkDone, TypeOK
    <3>3. plan' \in [Collectors -> Seq(Key)]
      BY <2>1, <2>4 DEF MarkDone, TypeOK
    <3> QED
      BY <2>4, <3>2, <3>3 DEF MarkDone, GoTo, TypeOK
  <2> QED
    BY <1>10, <2>2, <2>3, <2>4
<1>11. ASSUME NEW c \in Collectors, AnalyzeHealth(c) PROVE TypeOK'
  <2>1. todo' \in [Collectors -> Seq(Item)]
    <3>1. PICK S \in SUBSET Tasks : \E f \in Findings(S) :
             todo' = [todo EXCEPT ![c] =
                [j \in DOMAIN f |-> [event |-> 0, task |-> f[j],
                                     kind |-> "stale", status |-> "running"]]]
      BY <1>11 DEF AnalyzeHealth
    <3>2. PICK items \in Seq(Item) : todo' = [todo EXCEPT ![c] = items]
      BY <3>1, FindingsAreItems
    <3> QED
      BY <3>2 DEF TypeOK
  <2> QED
    BY <1>11, <2>1 DEF AnalyzeHealth, GoTo, TypeOK, tables
<1>12. ASSUME NEW c \in Collectors, EndPass(c) \/ BreakOff(c) PROVE TypeOK'
  <2>1. <<>> \in Seq(Item) /\ <<>> \in Seq(Key)
    BY EmptySeq
  <2>2. CASE EndPass(c)
    BY <2>1, <2>2 DEF EndPass, Leave, GoTo, TypeOK, tables
  <2>3. CASE BreakOff(c)
    <3>1. hand[c] \subseteq Nat /\ lost \subseteq Nat /\ faults \in Nat
      BY DEF TypeOK
    <3>2. faults' \in Nat
      BY <2>3, <3>1 DEF BreakOff
    <3>3. lost' = lost \cup hand[c]
      BY <2>3 DEF BreakOff
    <3>4. lost' \subseteq Nat
      BY <3>1, <3>3
    <3> QED
      BY <2>1, <2>3, <3>2, <3>4 DEF BreakOff, Leave, GoTo, TypeOK, tables
  <2> QED
    BY <1>12, <2>2, <2>3
<1>13. CASE UNCHANGED vars
  BY <1>13 DEF vars, tables, locals, TypeOK
<1> QED
  BY <1>1, <1>2, <1>3, <1>4, <1>5, <1>6, <1>7, <1>8, <1>9, <1>10, <1>11,
     <1>12, <1>13
  DEF Next, Pass

Step(c) == Begin(c) \/ Pass(c) \/ BreakOff(c)

\* A pass leaves the board and what the other passes keep alone, and the
\* tables but board_cursors only grow.
LEMMA StepFrame ==
    ASSUME TypeOK, NEW c \in Collectors, Step(c)
    PROVE  /\ board' = board /\ status' = status
           /\ processed \subseteq processed'
           /\ logged \subseteq logged'
           /\ done \subseteq done'
           /\ outbox \subseteq outbox'
           /\ lost \subseteq lost'
           /\ \A d \in Collectors \ {c} :
                /\ pc'[d] = pc[d] /\ sweep'[d] = sweep[d] /\ seen'[d] = seen[d]
                /\ batch'[d] = batch[d] /\ todo'[d] = todo[d]
                /\ plan'[d] = plan[d] /\ hand'[d] = hand[d]
<1> USE DEF GoTo, tables, TypeOK
<1>1. CASE Begin(c)
  BY <1>1 DEF Begin
<1>2. CASE ReadEvents(c)
  BY <1>2 DEF ReadEvents
<1>3. CASE MarkProcessed(c)
  BY <1>3 DEF MarkProcessed
<1>4. CASE SetCursor(c)
  BY <1>4 DEF SetCursor
<1>5. CASE PlanNext(c)
  BY <1>5 DEF PlanNext
<1>6. CASE PlanEnds(c)
  BY <1>6 DEF PlanEnds
<1>7. CASE Duplicate(c)
  BY <1>7 DEF Duplicate
<1>8. CASE StartAction(c)
  BY <1>8 DEF StartAction
<1>9. CASE BumpRetry(c)
  BY <1>9 DEF BumpRetry
<1>10. CASE Queue(c)
  BY <1>10 DEF Queue
<1>11. CASE MarkDone(c)
  BY <1>11 DEF MarkDone
<1>12. CASE AnalyzeHealth(c)
  BY <1>12 DEF AnalyzeHealth
<1>13. CASE EndPass(c)
  BY <1>13 DEF EndPass, Leave
<1>14. CASE BreakOff(c)
  BY <1>14 DEF BreakOff, Leave
<1> QED
  BY <1>1, <1>2, <1>3, <1>4, <1>5, <1>6, <1>7, <1>8, <1>9, <1>10, <1>11,
     <1>12, <1>13, <1>14 DEF Step, Pass

\* The shape of a pass is inductive.
LEMMA ShapeStep == TInv /\ [Next]_vars => Shape'
<1> SUFFICES ASSUME TypeOK, Shape, [Next]_vars, TypeOK' PROVE Shape'
  BY TypeStep DEF TInv
<1> USE DEF GoTo, tables, locals
<1>1. ASSUME NEW c \in Collectors
      PROVE  /\ cursor \in Nat /\ seen[c] \in Nat /\ Len(board) \in Nat
             /\ cursor <= Len(board) /\ seen[c] <= Len(board)
  BY LenProperties DEF Shape, TypeOK
\* What a step of a pass has to establish: the others are left alone.
<1>2. ASSUME NEW c \in Collectors, Step(c),
             cursor' <= Len(board), seen'[c] <= Len(board),
             pc'[c] = "mark" =>
                /\ batch'[c] # <<>>
                /\ \A j \in 1 .. Len(batch'[c]) :
                      /\ batch'[c][j].event = seen'[c] + j
                      /\ batch'[c][j].event <= Len(board),
             pc'[c] \in {"bump", "queue", "finish"} =>
                plan'[c] # <<>> /\ Head(plan'[c]) \in logged'
      PROVE  Shape'
  BY <1>2, StepFrame DEF Shape
<1>3. ASSUME NEW t \in Tasks, NEW kind \in Occurring,
             WorkerStops(t, kind)
      PROVE  Shape'
  <2>1. Len(board') = Len(board) + 1
    BY <1>3, AppendProperties DEF WorkerStops, TypeOK
  <2>2. \A c \in Collectors : \A j \in 1 .. Len(batch[c]) :
            batch[c][j].event \in Nat
    <3>1. ASSUME NEW c \in Collectors, NEW j \in 1 .. Len(batch[c])
          PROVE  batch[c][j] \in Item
      BY ElementOfSeq DEF TypeOK
    <3> QED
      BY <3>1 DEF Item
  <2>3. /\ cursor \in Nat /\ Len(board) \in Nat
        /\ \A c \in Collectors : seen[c] \in Nat
    BY LenProperties DEF TypeOK
  <2> QED
    BY <1>3, <2>1, <2>2, <2>3 DEF WorkerStops, Shape
<1>4. ASSUME NEW t \in Tasks, Resume(t) PROVE Shape'
  BY <1>4 DEF Resume, Shape
<1>5. ASSUME NEW c \in Collectors, Begin(c) PROVE Shape'
  BY <1>1, <1>2, <1>5 DEF Begin, Step, TypeOK
<1>6. ASSUME NEW c \in Collectors, ReadEvents(c) PROVE Shape'
  <2>1. pc'[c] = "mark" => Len(batch'[c]) # 0
    <3>1. pc'[c] = "mark" => LastRead(seen[c]) > seen[c]
      BY <1>6 DEF ReadEvents, TypeOK
    <3>2. LastRead(seen[c]) \in Nat
      BY <1>1, PipelineAssumption DEF LastRead
    <3> QED
      BY <1>1, <1>6, <3>1, <3>2, ReadProperties
  <2>2. pc'[c] = "mark" => batch'[c] # <<>>
    BY <2>1, EmptySeq
  <2> QED
    <3>1. /\ Step(c) /\ cursor' = cursor /\ seen'[c] = seen[c]
          /\ pc'[c] \in {"mark", "plan"}
      BY <1>6 DEF ReadEvents, Step, Pass, TypeOK
    <3> QED
      BY <1>1, <1>2, <1>6, <2>2, <3>1, ReadProperties
<1>7. ASSUME NEW c \in Collectors, MarkProcessed(c) PROVE Shape'
  <2>1. /\ batch[c] \in Seq(Item) /\ batch[c] # <<>>
        /\ \A j \in 1 .. Len(batch[c]) :
              batch[c][j].event = seen[c] + j /\ batch[c][j].event <= Len(board)
    BY <1>7 DEF MarkProcessed, Shape, TypeOK
  <2>2. /\ Len(batch[c]) \in Nat \ {0}
        /\ Len(Tail(batch[c])) = Len(batch[c]) - 1
        /\ \A j \in 1 .. Len(batch[c]) - 1 : Tail(batch[c])[j] = batch[c][j + 1]
        /\ Head(batch[c]) = batch[c][1]
    BY <2>1, HeadTailProperties, EmptySeq
  <2>3. Head(batch[c]).event = seen[c] + 1 /\ seen[c] + 1 <= Len(board)
    BY <2>1, <2>2
  <2>4. /\ seen'[c] = seen[c] + 1
        /\ batch'[c] = Tail(batch[c])
        /\ pc'[c] = "mark" => Len(batch[c]) # 1
        /\ pc'[c] \in {"mark", "save"}
    BY <1>7, <2>3 DEF MarkProcessed, TypeOK
  <2> DEFINE n == Len(batch[c])
  <2>5. Len(batch'[c]) = n - 1 /\ n \in Nat \ {0}
    BY <2>2, <2>4
  <2> HIDE DEF n
  <2>6. ASSUME NEW j \in 1 .. Len(batch'[c])
        PROVE  batch'[c][j].event = seen'[c] + j /\ batch'[c][j].event <= Len(board)
    <3>1. j + 1 \in 1 .. Len(batch[c]) /\ seen'[c] + j = seen[c] + (j + 1)
      <4>1. seen[c] \in Nat /\ seen'[c] = seen[c] + 1 /\ j \in 1 .. n - 1
        BY <1>1, <2>4, <2>5
      <4> QED
        BY <2>5, <4>1 DEF n
    <3>2. batch'[c][j] = batch[c][j + 1]
      BY <2>2, <2>4
    <3> QED
      BY <2>1, <3>1, <3>2
  <2>7. pc'[c] = "mark" => batch'[c] # <<>>
    <3>1. Len(batch'[c]) = 0 => n = 1
      BY <2>5
    <3> QED
      BY <2>4, <3>1 DEF n
  <2> QED
    <3>1. Step(c) /\ cursor' = cursor
      BY <1>7 DEF MarkProcessed, Step, Pass
    <3> QED
      BY <1>1, <1>2, <2>3, <2>4, <2>6, <2>7, <3>1
<1>8. ASSUME NEW c \in Collectors, SetCursor(c) PROVE Shape'
  <2>1. /\ Step(c) /\ cursor' = seen[c] /\ seen'[c] = seen[c]
        /\ pc'[c] = "plan"
    BY <1>8 DEF SetCursor, MaxEventId, Step, Pass, TypeOK
  <2> QED
    BY <1>1, <1>2, <2>1
\* The other steps keep the cursors, and are past the events.
<1>9. ASSUME NEW c \in Collectors, Step(c), cursor' = cursor,
             seen'[c] = seen[c],
             pc'[c] \in {"plan", "apply"}
             \/ /\ pc'[c] \in {"bump", "queue", "finish"}
                /\ plan'[c] = plan[c]
                /\ plan[c] # <<>> /\ Head(plan[c]) \in logged'
      PROVE  Shape'
  BY <1>1, <1>2, <1>9
<1>10. ASSUME NEW c \in Collectors,
              PlanNext(c) \/ PlanEnds(c) \/ Duplicate(c) \/ AnalyzeHealth(c)
       PROVE  Shape'
  <2>1. Step(c) /\ cursor' = cursor /\ seen'[c] = seen[c]
    BY <1>10 DEF PlanNext, PlanEnds, Duplicate, AnalyzeHealth, Step, Pass
  <2>2. pc'[c] \in {"plan", "apply"}
    BY <1>10 DEF PlanNext, PlanEnds, Duplicate, AnalyzeHealth, TypeOK
  <2> QED
    BY <1>9, <2>1, <2>2
<1>11. ASSUME NEW c \in Collectors,
              StartAction(c) \/ BumpRetry(c) \/ Queue(c) \/ MarkDone(c)
       PROVE  Shape'
  <2>1. Step(c) /\ cursor' = cursor /\ seen'[c] = seen[c]
    BY <1>11 DEF StartAction, BumpRetry, Queue, MarkDone, Step, Pass
  <2>2. plan[c] # <<>> /\ Head(plan[c]) \in logged'
    BY <1>11 DEF StartAction, BumpRetry, Queue, MarkDone, Shape
  <2>3. \/ pc'[c] = "apply"
        \/ pc'[c] \in {"bump", "queue", "finish"} /\ plan' = plan
    BY <1>11 DEF StartAction, BumpRetry, Queue, MarkDone, TypeOK
  <2> QED
    BY <1>9, <2>1, <2>2, <2>3
<1>12. ASSUME NEW c \in Collectors, EndPass(c) \/ BreakOff(c) PROVE Shape'
  <2>1. seen'[c] = 0 /\ pc'[c] = "idle"
    BY <1>12 DEF EndPass, BreakOff, Leave, TypeOK
  <2>2. Step(c) /\ cursor' = cursor
    BY <1>12 DEF EndPass, BreakOff, Leave, Step, Pass
  <2> QED
    BY <1>1, <1>2, <2>1, <2>2
<1>13. CASE UNCHANGED vars
  BY <1>13 DEF vars, Shape
<1> QED
  BY <1>3, <1>4, <1>5, <1>6, <1>7, <1>8, <1>10, <1>11, <1>12, <1>13
  DEF Next, Pass

\* Nothing is under way at first.
LEMMA InitTInv == Init => TInv
<1> SUFFICES ASSUME Init PROVE TInv
  OBVIOUS
<1>1. \A S : <<>> \in Seq(S) /\ Len(<<>>) = 0
  BY EmptySeq
<1>2. TypeOK
  BY <1>1 DEF Init, TypeOK
<1>3. Shape
  BY <1>1 DEF Init, Shape
<1> QED
  BY <1>2, <1>3 DEF TInv

\* Every state of the pipeline is well-typed.
THEOREM TypeCorrect == Spec => []TypeOK
<1>1. TInv /\ [Next]_vars => TInv'
  BY TypeStep, ShapeStep DEF TInv
<1>2. TInv => TypeOK
  BY DEF TInv
<1> QED
  BY <1>1, <1>2, InitTInv, PTL DEF Spec

-----------------------------------------------------------------------------
(* Nothing is skipped: what a pass read is marked, whoever marked it, so    *)
(* that the cursor it writes is behind marked events only, be it an old one.*)

SeenIsMarked == \A c \in Collectors : \A e \in 1 .. seen[c] : e \in processed

SkipInv == NothingSkipped /\ SeenIsMarked

\* The cursor comes from a local cursor, and a local cursor from the cursor
\* or from the event just marked.
LEMMA CursorSteps ==
    ASSUME TypeOK, Shape, NEW c \in Collectors, Step(c)
    PROVE  /\ cursor' \in {cursor, seen[c]}
           /\ \/ seen'[c] \in {seen[c], cursor, 0}
              \/ seen'[c] = seen[c] + 1 /\ seen[c] + 1 \in processed'
<1>1. CASE MarkProcessed(c)
  <2>1. batch[c] \in Seq(Item) /\ batch[c] # <<>>
    BY <1>1 DEF MarkProcessed, Shape, TypeOK
  <2>2. Len(batch[c]) \in Nat \ {0} /\ Head(batch[c]) = batch[c][1]
    BY <2>1, EmptySeq
  <2>3. Head(batch[c]).event = seen[c] + 1
    BY <1>1, <2>2 DEF MarkProcessed, Shape
  <2> QED
    BY <1>1, <2>3 DEF MarkProcessed, TypeOK
<1>2. CASE Begin(c)
  BY <1>2 DEF Begin, tables, TypeOK
<1>3. CASE SetCursor(c)
  BY <1>3 DEF SetCursor, MaxEventId, TypeOK
<1>4. CASE EndPass(c) \/ BreakOff(c)
  BY <1>4 DEF EndPass, BreakOff, Leave, tables, TypeOK
<1>5. CASE ReadEvents(c) \/ PlanNext(c) \/ PlanEnds(c)
  BY <1>5 DEF ReadEvents, PlanNext, PlanEnds, tables
<1>6. CASE Duplicate(c) \/ StartAction(c) \/ BumpRetry(c)
  BY <1>6 DEF Duplicate, StartAction, BumpRetry, tables
<1>7. CASE Queue(c) \/ MarkDone(c) \/ AnalyzeHealth(c)
  BY <1>7 DEF Queue, MarkDone, AnalyzeHealth, tables
<1> QED
  BY <1>1, <1>2, <1>3, <1>4, <1>5, <1>6, <1>7 DEF Step, Pass

\* Hermes leaves what the warden keeps alone, and only appends events.
LEMMA HermesFrame ==
    ASSUME TypeOK,
           \/ \E t \in Tasks :
                Resume(t) \/ \E kind \in Occurring : WorkerStops(t, kind)
           \/ UNCHANGED vars
    PROVE  /\ UNCHANGED <<tables, locals, lost, faults>>
           /\ Len(board) \in Nat /\ Len(board') \in Nat
           /\ Len(board) <= Len(board')
           /\ \A e \in 1 .. Len(board) : board'[e] = board[e]
<1>1. Len(board) \in Nat
  BY LenProperties DEF TypeOK
<1>2. ASSUME NEW t \in Tasks, NEW kind \in Occurring,
             WorkerStops(t, kind)
      PROVE  /\ Len(board') = Len(board) + 1
             /\ \A e \in 1 .. Len(board) : board'[e] = board[e]
  BY <1>2, AppendProperties DEF WorkerStops, TypeOK
<1>3. ASSUME NEW t \in Tasks, Resume(t) PROVE board' = board
  BY <1>3 DEF Resume
<1>4. CASE \E t \in Tasks : \E kind \in Occurring : WorkerStops(t, kind)
  BY <1>1, <1>2, <1>4 DEF WorkerStops
<1>5. CASE (\E t \in Tasks : Resume(t)) \/ UNCHANGED vars
  BY <1>1, <1>3, <1>5 DEF Resume, vars
<1> QED
  BY <1>4, <1>5

\* Every step leaves the events behind a cursor marked.
LEMMA SkipStep == TInv /\ SkipInv /\ [Next]_vars => SkipInv'
<1> SUFFICES ASSUME TypeOK, Shape, SkipInv, [Next]_vars PROVE SkipInv'
  BY DEF TInv
<1>1. /\ cursor \in Nat /\ Len(board) \in Nat /\ cursor <= Len(board)
      /\ \A c \in Collectors : seen[c] \in Nat /\ seen[c] <= Len(board)
  BY LenProperties DEF Shape, TypeOK
<1>2. \A e \in 1 .. cursor : e \in processed
  BY <1>1 DEF SkipInv, NothingSkipped, Events
<1>3. CASE \E c \in Collectors : Step(c)
  <2>1. PICK c \in Collectors : Step(c)
    BY <1>3
  <2>2. \A e \in 1 .. cursor' : e \in processed'
    BY <1>2, <2>1, StepFrame, CursorSteps DEF SkipInv, SeenIsMarked
  <2>3. \A e \in 1 .. seen'[c] : e \in processed'
    BY <1>1, <1>2, <2>1, StepFrame, CursorSteps DEF SkipInv, SeenIsMarked
  <2>4. \A d \in Collectors \ {c} : \A e \in 1 .. seen'[d] : e \in processed'
    BY <2>1, StepFrame DEF SkipInv, SeenIsMarked
  <2>5. cursor' \in Nat
    BY <1>1, <2>1, CursorSteps
  <2> QED
    BY <2>2, <2>3, <2>4, <2>5, StepFrame, <2>1, <1>1
    DEF SkipInv, NothingSkipped, SeenIsMarked, Events
<1>4. CASE ~ \E c \in Collectors : Step(c)
  BY <1>1, <1>2, <1>4, HermesFrame
  DEF SkipInv, NothingSkipped, SeenIsMarked, Events, Next, Step, tables, locals
<1> QED
  BY <1>3, <1>4

\* Whatever passes break off between marking an event and saving the cursor,
\* and whatever cursors previews write back, the cursor never passes an event
\* that nobody has marked.
THEOREM NothingSkippedHolds == Spec => []NothingSkipped
<1>1. Init => SkipInv
  BY DEF Init, SkipInv, NothingSkipped, SeenIsMarked, Events
<1>2. TInv /\ SkipInv /\ [Next]_vars => (TInv /\ SkipInv)'
  BY TypeStep, ShapeStep, SkipStep DEF TInv
<1>3. SkipInv => NothingSkipped
  BY DEF SkipInv
<1> QED
  BY <1>1, <1>2, <1>3, InitTInv, PTL DEF Spec

-----------------------------------------------------------------------------
(* What is done is queued.                                                 *)

Queued(k) == Needless(k) \/ k \in outbox

DoneInv ==
    /\ DoneIsQueued
    /\ \A c \in Collectors : pc[c] = "finish" => Queued(Head(plan[c]))

\* Only a queued action, or a needless proposal, is marked done.
LEMMA DoneStep == TInv /\ DoneInv /\ [Next]_vars => DoneInv'
<1> SUFFICES ASSUME TypeOK, Shape, DoneInv, [Next]_vars PROVE DoneInv'
  BY DEF TInv
<1> USE DEF DoneInv, DoneIsQueued, Queued, Needless
\* The queue only grows.
<1>1. ASSUME NEW c \in Collectors, Step(c),
             \A k \in done' \ done : Queued(k),
             pc'[c] = "finish" => Queued(Head(plan[c]))'
      PROVE  DoneInv'
  BY <1>1, StepFrame
<1>2. ASSUME NEW c \in Collectors, Queue(c) PROVE DoneInv'
  <2>1. Step(c) /\ done' = done /\ plan' = plan
    BY <1>2 DEF Queue, Step, Pass
  <2>2. Queued(Head(plan[c]))'
    BY <1>2, <2>1 DEF Queue
  <2> QED
    BY <1>1, <2>1, <2>2
<1>3. ASSUME NEW c \in Collectors, MarkDone(c) PROVE DoneInv'
  <2>1. Step(c) /\ done' = done \cup {Head(plan[c])} /\ pc'[c] = "apply"
    BY <1>3 DEF MarkDone, GoTo, Step, Pass, TypeOK
  <2>2. Queued(Head(plan[c]))
    BY <1>3 DEF MarkDone
  <2> QED
    BY <1>1, <2>1, <2>2
<1>4. ASSUME NEW c \in Collectors, Step(c), ~Queue(c), ~MarkDone(c)
      PROVE  DoneInv'
  <2>1. CASE Begin(c) \/ ReadEvents(c) \/ MarkProcessed(c) \/ SetCursor(c)
    <3>1. done' = done /\ pc'[c] # "finish"
      BY <2>1 DEF Begin, ReadEvents, MarkProcessed, SetCursor, GoTo, tables, TypeOK
    <3> QED
      BY <1>1, <1>4, <3>1
  <2>2. CASE PlanNext(c) \/ PlanEnds(c) \/ Duplicate(c) \/ AnalyzeHealth(c)
    <3>1. done' = done /\ pc'[c] # "finish"
      BY <2>2 DEF PlanNext, PlanEnds, Duplicate, AnalyzeHealth, GoTo, tables, TypeOK
    <3> QED
      BY <1>1, <1>4, <3>1
  <2>3. CASE StartAction(c) \/ BumpRetry(c) \/ EndPass(c) \/ BreakOff(c)
    <3>1. done' = done /\ pc'[c] # "finish"
      BY <2>3 DEF StartAction, BumpRetry, EndPass, BreakOff, Leave, GoTo, tables, TypeOK
    <3> QED
      BY <1>1, <1>4, <3>1
  <2> QED
    BY <1>4, <2>1, <2>2, <2>3 DEF Step, Pass
<1>5. CASE ~ \E c \in Collectors : Step(c)
  BY <1>5, HermesFrame DEF Next, Step, tables, locals
<1> QED
  BY <1>2, <1>3, <1>4, <1>5

\* For any passes and breaks: an action that the log calls done has its row
\* in the outbox, or was a proposal that the card does not need.
THEOREM DoneIsQueuedHolds == Spec => []DoneIsQueued
<1>1. Init => DoneInv
  BY DEF Init, DoneInv, DoneIsQueued
<1>2. TInv /\ DoneInv /\ [Next]_vars => (TInv /\ DoneInv)'
  BY TypeStep, ShapeStep, DoneStep DEF TInv
<1>3. DoneInv => DoneIsQueued
  BY DEF DoneInv
<1> QED
  BY <1>1, <1>2, <1>3, InitTInv, PTL DEF Spec

-----------------------------------------------------------------------------
(* An escalation is planned only when the budget is used up, and a budget   *)
(* never comes back.                                                       *)

UsedUp(k) == k.kind = "escalate" => retry[k.task][RecoveryKind(k.event)] >= MaxRetries

LastInv ==
    /\ EscalationIsLast
    /\ \A c \in Collectors : \A k \in Range(plan[c]) : UsedUp(k)

\* A step adds to a plan only what it plans for its next event or finding,
\* and to the outbox only the action under way.
LEMMA PlanSteps ==
    ASSUME TypeOK, Shape, NEW c \in Collectors, Step(c)
    PROVE  /\ \/ Range(plan'[c]) \subseteq Range(plan[c])
              \/ /\ PlanNext(c)
                 /\ \E p \in Plans(c, Head(todo[c])) :
                       Range(plan'[c]) = Range(plan[c]) \cup Range(p)
           /\ \/ outbox' = outbox
              \/ /\ Queue(c) /\ plan[c] # <<>>
                 /\ outbox' = outbox \cup {Head(plan[c])}
<1>1. CASE PlanNext(c)
  <2>1. Head(todo[c]) \in Item
    BY <1>1, HeadTailRange DEF PlanNext, TypeOK
  <2>2. PICK p \in Plans(c, Head(todo[c])) : plan'[c] = plan[c] \o p
    BY <1>1 DEF PlanNext, TypeOK
  <2>3. p \in Seq(Key) /\ plan[c] \in Seq(Key)
    BY <2>1, PlanProperties DEF TypeOK
  <2>4. Range(plan'[c]) = Range(plan[c]) \cup Range(p)
    BY <2>2, <2>3, RangeConcatenation
  <2> QED
    BY <1>1, <2>4 DEF PlanNext, tables
<1>2. CASE Duplicate(c) \/ MarkDone(c)
  <2>1. plan[c] \in Seq(Key) /\ plan[c] # <<>> /\ plan'[c] = Tail(plan[c])
    BY <1>2 DEF Duplicate, MarkDone, Shape, TypeOK
  <2>2. outbox' = outbox
    BY <1>2 DEF Duplicate, MarkDone, tables
  <2> QED
    BY <2>1, <2>2, HeadTailRange
<1>3. CASE Queue(c)
  BY <1>3 DEF Queue, Shape
<1>4. CASE PlanEnds(c) \/ EndPass(c) \/ BreakOff(c)
  <2>1. plan'[c] = plan[c] \/ plan'[c] = <<>>
    BY <1>4 DEF PlanEnds, EndPass, BreakOff, Leave, TypeOK
  <2>2. outbox' = outbox
    BY <1>4 DEF PlanEnds, EndPass, BreakOff, tables
  <2> QED
    BY <2>1, <2>2, EmptyRange
<1>5. CASE Begin(c) \/ ReadEvents(c) \/ MarkProcessed(c) \/ SetCursor(c)
  BY <1>5 DEF Begin, ReadEvents, MarkProcessed, SetCursor, tables
<1>6. CASE StartAction(c) \/ BumpRetry(c) \/ AnalyzeHealth(c)
  BY <1>6 DEF StartAction, BumpRetry, AnalyzeHealth, tables
<1> QED
  BY <1>1, <1>2, <1>3, <1>4, <1>5, <1>6 DEF Step, Pass

\* No step gives a retry budget back.
LEMMA RetryGrows ==
    ASSUME TypeOK, Shape, [Next]_vars, NEW k \in Key
    PROVE  /\ retry[k.task][RecoveryKind(k.event)] \in Nat
           /\ retry'[k.task][RecoveryKind(k.event)] \in Nat
           /\ retry'[k.task][RecoveryKind(k.event)]
                >= retry[k.task][RecoveryKind(k.event)]
<1> DEFINE t == k.task
           r == RecoveryKind(k.event)
<1>1. t \in Tasks /\ r \in {"stale-running", "worker-failure"}
  BY DEF Key, RecoveryKind
<1> HIDE DEF t, r
<1>2. TypeOK'
  BY TypeStep DEF TInv
<1>3. retry[t][r] \in Nat /\ retry'[t][r] \in Nat
  BY <1>1, <1>2 DEF TypeOK
<1>4. CASE \E c \in Collectors : BumpRetry(c)
  <2>1. PICK c \in Collectors : BumpRetry(c)
    BY <1>4
  <2> DEFINE u == Head(plan[c]).task
             q == RecoveryKind(Head(plan[c]).event)
  <2>2. retry' = [retry EXCEPT ![u][q] = retry[u][q] + 1]
    BY <2>1 DEF BumpRetry
  <2> HIDE DEF u, q
  <2>3. retry'[t][r] = retry[t][r] \/ retry'[t][r] = retry[t][r] + 1
    BY <1>1, <2>2 DEF TypeOK
  <2> QED
    BY <1>3, <2>3 DEF t, r
<1>5. CASE ~ \E c \in Collectors : BumpRetry(c)
  <2>1. retry' = retry
    BY <1>5 DEF Next, vars, WorkerStops, Resume, Begin, Pass, ReadEvents,
       MarkProcessed, SetCursor, PlanNext, PlanEnds, Duplicate, StartAction,
       Queue, MarkDone, AnalyzeHealth, EndPass, BreakOff, tables
  <2> QED
    BY <1>3, <2>1 DEF t, r
<1> QED
  BY <1>4, <1>5

\* Every step keeps escalations behind the last retry, from the plan on.
LEMMA LastStep == TInv /\ LastInv /\ [Next]_vars => LastInv'
<1> SUFFICES ASSUME TypeOK, Shape, LastInv, [Next]_vars PROVE LastInv'
  BY DEF TInv
<1>1. ASSUME NEW k \in Key, UsedUp(k) PROVE UsedUp(k)'
  <2>1. MaxRetries \in Nat
    BY PipelineAssumption
  <2> QED
    BY <1>1, <2>1, RetryGrows DEF UsedUp
<1>2. /\ \A k \in outbox : k \in Key /\ UsedUp(k)
      /\ \A c \in Collectors : \A k \in Range(plan[c]) : k \in Key /\ UsedUp(k)
  BY RangeOfSeq DEF LastInv, EscalationIsLast, UsedUp, TypeOK
<1>3. CASE \E c \in Collectors : Step(c)
  <2>1. PICK c \in Collectors : Step(c)
    BY <1>3
  <2>2. \A k \in outbox' : k \in Key /\ UsedUp(k)
    <3>1. plan[c] # <<>> => Head(plan[c]) \in Range(plan[c])
      BY HeadTailRange DEF TypeOK
    <3> QED
      BY <1>2, <2>1, <3>1, PlanSteps
  <2>3. \A k \in Range(plan'[c]) : k \in Key /\ UsedUp(k)
    <3>1. CASE Range(plan'[c]) \subseteq Range(plan[c])
      BY <1>2, <3>1
    <3>2. CASE /\ PlanNext(c)
               /\ \E p \in Plans(c, Head(todo[c])) :
                     Range(plan'[c]) = Range(plan[c]) \cup Range(p)
      <4> DEFINE i == Head(todo[c])
      <4>1. i \in Item
        BY <3>2, HeadTailRange DEF PlanNext, TypeOK
      <4>2. PICK p \in Plans(c, i) :
               Range(plan'[c]) = Range(plan[c]) \cup Range(p)
        BY <3>2
      <4> HIDE DEF i
      <4>3. ASSUME NEW k \in Range(p) PROVE k \in Key /\ UsedUp(k)
        <5>1. /\ k \in Key
              /\ k.kind = "escalate" => k = BoundedRecovery(i)
          BY <4>1, PlanProperties, RangeOfSeq
        <5>2. UsedUp(BoundedRecovery(i))
          <6> DEFINE n == retry[i.task][RecoveryKind(i.event)]
          <6>1. n \in Nat
            BY <4>1 DEF TypeOK, Item, RecoveryKind
          <6>2. BoundedRecovery(i) =
                   IF n + 1 <= MaxRetries THEN Action("retry", i, n + 1)
                                          ELSE Action("escalate", i, 0)
            BY DEF BoundedRecovery
          <6>3. /\ Action("retry", i, n + 1).kind = "retry"
                /\ Action("escalate", i, 0).task = i.task
                /\ Action("escalate", i, 0).event = i.event
            BY DEF Action
          <6>4. CASE n + 1 <= MaxRetries
            BY <6>2, <6>3, <6>4 DEF UsedUp
          <6>5. CASE ~ (n + 1 <= MaxRetries)
            <7>1. n >= MaxRetries
              BY <6>1, <6>5, PipelineAssumption
            <7> QED
              BY <6>2, <6>3, <6>5, <7>1 DEF UsedUp
          <6> QED
            BY <6>4, <6>5
        <5> QED
          BY <5>1, <5>2 DEF UsedUp
      <4> QED
        BY <1>2, <4>2, <4>3
    <3> QED
      BY <2>1, <3>1, <3>2, PlanSteps
  <2>4. \A d \in Collectors : \A k \in Range(plan'[d]) : k \in Key /\ UsedUp(k)
    BY <1>2, <2>1, <2>3, StepFrame
  <2> QED
    BY <1>1, <2>2, <2>4 DEF LastInv, EscalationIsLast, UsedUp
<1>4. CASE ~ \E c \in Collectors : Step(c)
  BY <1>4, HermesFrame
  DEF LastInv, EscalationIsLast, UsedUp, Next, Step, tables, locals
<1> QED
  BY <1>3, <1>4

\* For any budget, and whatever passes break off or overlap with previews:
\* nothing is escalated while its retry budget is not used up.
THEOREM EscalationIsLastHolds == Spec => []EscalationIsLast
<1>1. Init => LastInv
  BY EmptyRange DEF Init, LastInv, EscalationIsLast
<1>2. TInv /\ LastInv /\ [Next]_vars => (TInv /\ LastInv)'
  BY TypeStep, ShapeStep, LastStep DEF TInv
<1>3. LastInv => EscalationIsLast
  BY DEF LastInv
<1> QED
  BY <1>1, <1>2, <1>3, InitTInv, PTL DEF Spec

-----------------------------------------------------------------------------
(* An event asks for one recovery.  mark_processed gives an event to one    *)
(* pass, which plans for it once: before, nobody asks for a recovery of it, *)
(* and afterwards nobody is about to plan for it again.                     *)

IsRecovery(k) == k.kind \in {"retry", "escalate"}

Asked == outbox \cup UNION {Range(plan[c]) : c \in Collectors}

AskedOnce ==
    \A k, l \in Asked :
        /\ IsRecovery(k) /\ k.event # 0 => k.event \in processed
        /\ IsRecovery(k) /\ IsRecovery(l) /\ k.event = l.event /\ k.event # 0
             => k = l

\* What is still to be planned for: not asked for yet, and in one place.
Unasked ==
    \A c \in Collectors : \A j \in 1 .. Len(todo[c]) :
        todo[c][j].event # 0 =>
            /\ todo[c][j].event \in processed
            /\ \A k \in Asked : IsRecovery(k) => k.event # todo[c][j].event
            /\ \A d \in Collectors : \A l \in 1 .. Len(todo[d]) :
                  todo[d][l].event = todo[c][j].event => d = c /\ l = j

OnceInv == AskedOnce /\ Unasked

\* What a step does to the events a pass has still to plan for.
LEMMA TodoSteps ==
    ASSUME TypeOK, Shape, NEW c \in Collectors, Step(c)
    PROVE  \/ todo'[c] = todo[c] /\ pc[c] # "plan"
           \/ todo'[c] = todo[c] /\ PlanEnds(c)
           \/ \A j \in 1 .. Len(todo'[c]) :
                 todo'[c][j].event = 0 /\ todo'[c][j].kind = "stale"
           \/ /\ MarkProcessed(c)
              /\ Head(batch[c]) \in Item
              /\ Head(batch[c]).event \notin processed
              /\ Head(batch[c]).event \in processed'
              /\ todo'[c] = Append(todo[c], Head(batch[c]))
           \/ /\ PlanNext(c)
              /\ Head(todo[c]) \in Item
              /\ todo'[c] = Tail(todo[c])
<1>1. CASE MarkProcessed(c)
  <2>1. Head(batch[c]) \in Item
    BY <1>1, HeadTailRange DEF MarkProcessed, Shape, TypeOK
  <2> QED
    BY <1>1, <2>1 DEF MarkProcessed, Inserts, TypeOK
<1>2. CASE PlanNext(c)
  <2>1. Head(todo[c]) \in Item
    BY <1>2, HeadTailRange DEF PlanNext, TypeOK
  <2> QED
    BY <1>2, <2>1 DEF PlanNext, TypeOK
<1>3. CASE AnalyzeHealth(c)
  <2>1. PICK S \in SUBSET Tasks : \E f \in Findings(S) :
           todo' = [todo EXCEPT ![c] =
              [j \in DOMAIN f |-> [event |-> 0, task |-> f[j],
                                   kind |-> "stale", status |-> "running"]]]
    BY <1>3 DEF AnalyzeHealth
  <2>2. PICK f \in Findings(S) :
           todo'[c] = [j \in DOMAIN f |-> [event |-> 0, task |-> f[j],
                                           kind |-> "stale", status |-> "running"]]
    BY <2>1 DEF TypeOK
  <2>3. todo'[c] \in Seq(Item)
    BY <2>2, FindingsAreItems
  <2>4. DOMAIN todo'[c] = 1 .. Len(todo'[c])
    BY <2>3, LenProperties
  <2>5. \A j \in DOMAIN todo'[c] :
           todo'[c][j].event = 0 /\ todo'[c][j].kind = "stale"
    BY <2>2
  <2> QED
    BY <2>4, <2>5
<1>4. CASE EndPass(c) \/ BreakOff(c)
  <2>1. todo'[c] = <<>>
    BY <1>4 DEF EndPass, BreakOff, Leave, TypeOK
  <2>2. Len(todo'[c]) = 0
    BY <2>1
  <2> QED
    BY <2>2
<1>5. CASE Begin(c) \/ ReadEvents(c) \/ SetCursor(c) \/ PlanEnds(c)
  BY <1>5 DEF Begin, ReadEvents, SetCursor, PlanEnds
<1>6. CASE Duplicate(c) \/ StartAction(c) \/ BumpRetry(c)
  BY <1>6 DEF Duplicate, StartAction, BumpRetry
<1>7. CASE Queue(c) \/ MarkDone(c)
  BY <1>7 DEF Queue, MarkDone
<1> QED
  BY <1>1, <1>2, <1>3, <1>4, <1>5, <1>6, <1>7 DEF Step, Pass

\* A step asks for nothing new, or for what it plans.
LEMMA AskedSteps ==
    ASSUME TypeOK, Shape, NEW c \in Collectors, Step(c)
    PROVE  \/ Asked' \subseteq Asked
           \/ /\ PlanNext(c)
              /\ \E p \in Plans(c, Head(todo[c])) : Asked' \subseteq Asked \cup Range(p)
<1>1. plan[c] # <<>> => Head(plan[c]) \in Range(plan[c])
  BY HeadTailRange DEF TypeOK
<1>2. outbox' \subseteq Asked
  BY <1>1, PlanSteps DEF Asked
<1>3. \A d \in Collectors \ {c} : Range(plan'[d]) \subseteq Asked
  BY StepFrame DEF Asked
<1>4. CASE Range(plan'[c]) \subseteq Range(plan[c])
  BY <1>2, <1>3, <1>4 DEF Asked
<1>5. CASE /\ PlanNext(c)
           /\ \E p \in Plans(c, Head(todo[c])) :
                 Range(plan'[c]) = Range(plan[c]) \cup Range(p)
  <2>1. PICK p \in Plans(c, Head(todo[c])) :
           Range(plan'[c]) = Range(plan[c]) \cup Range(p)
    BY <1>5
  <2>2. Asked' \subseteq Asked \cup Range(p)
    BY <1>2, <1>3, <2>1 DEF Asked
  <2> QED
    BY <1>5, <2>2
<1> QED
  BY <1>4, <1>5, PlanSteps

\* A step that asks for nothing new, and moves no event but to drop it or to
\* take on one that was not processed.
LEMMA OnceWhenQuiet ==
    ASSUME TInv, OnceInv, NEW c \in Collectors, Step(c), ~PlanNext(c)
    PROVE  OnceInv'
<1> USE DEF TInv
<1>1. Asked' \subseteq Asked /\ processed \subseteq processed'
  BY AskedSteps, StepFrame
<1>2. AskedOnce'
  BY <1>1 DEF OnceInv, AskedOnce
<1>3. \A d \in Collectors \ {c} : todo'[d] = todo[d]
  BY StepFrame
<1>4. CASE todo'[c] = todo[c]
  <2>1. \A d \in Collectors : todo'[d] = todo[d]
    BY <1>3, <1>4
  <2>2. Unasked'
    BY <1>1, <2>1 DEF OnceInv, Unasked
  <2> QED
    BY <1>2, <2>2 DEF OnceInv
<1>5. CASE \A j \in 1 .. Len(todo'[c]) : todo'[c][j].event = 0
  <2>1. \A d \in Collectors : \A j \in 1 .. Len(todo'[d]) :
           todo'[d][j].event # 0 => d # c /\ todo'[d] = todo[d]
    BY <1>3, <1>5
  <2>2. Unasked'
    BY <1>1, <2>1 DEF OnceInv, Unasked
  <2> QED
    BY <1>2, <2>2 DEF OnceInv
<1>6. CASE /\ Head(batch[c]) \in Item
           /\ Head(batch[c]).event \notin processed
           /\ Head(batch[c]).event \in processed'
           /\ todo'[c] = Append(todo[c], Head(batch[c]))
  <2> DEFINE i == Head(batch[c])
             n == Len(todo[c])
  <2>1. /\ n \in Nat /\ Len(todo'[c]) = n + 1
        /\ \A j \in 1 .. n : todo'[c][j] = todo[c][j]
        /\ todo'[c][n + 1] = i
    BY <1>6, AppendProperties, LenProperties DEF TypeOK
  <2>2. /\ i.event \notin processed /\ i.event \in processed'
    BY <1>6
  <2>3. \A j \in 1 .. Len(todo'[c]) : j \in 1 .. n \/ j = n + 1
    BY <2>1
  <2> HIDE DEF i, n
  <2>4. \A d \in Collectors : \A j \in 1 .. Len(todo'[d]) :
           \/ j \in 1 .. Len(todo[d]) /\ todo'[d][j] = todo[d][j]
           \/ d = c /\ j = n + 1 /\ todo'[d][j] = i
    BY <1>3, <2>1, <2>3 DEF n
  <2>5. Unasked'
    <3> SUFFICES ASSUME NEW d \in Collectors, NEW j \in 1 .. Len(todo'[d]),
                        todo'[d][j].event # 0
                 PROVE  /\ todo'[d][j].event \in processed'
                        /\ \A k \in Asked : IsRecovery(k) => k.event # todo'[d][j].event
                        /\ \A e \in Collectors : \A l \in 1 .. Len(todo'[e]) :
                              todo'[e][l].event = todo'[d][j].event => e = d /\ l = j
      BY <1>1 DEF Unasked
    <3>1. CASE j \in 1 .. Len(todo[d]) /\ todo'[d][j] = todo[d][j]
      <4>1. /\ todo[d][j].event \in processed
            /\ \A k \in Asked : IsRecovery(k) => k.event # todo[d][j].event
            /\ \A e \in Collectors : \A l \in 1 .. Len(todo[e]) :
                  todo[e][l].event = todo[d][j].event => e = d /\ l = j
        BY <3>1 DEF OnceInv, Unasked
      <4> QED
        BY <1>1, <2>2, <2>4, <3>1, <4>1
    <3>2. CASE d = c /\ j = n + 1 /\ todo'[d][j] = i
      <4>1. \A e \in Collectors : \A l \in 1 .. Len(todo[e]) :
               todo[e][l].event # i.event
        BY <2>2, <3>2 DEF OnceInv, Unasked
      <4>2. \A k \in Asked : IsRecovery(k) => k.event # i.event
        BY <2>2, <3>2 DEF OnceInv, AskedOnce
      <4> QED
        BY <2>2, <2>4, <3>2, <4>1, <4>2
    <3> QED
      BY <2>4, <3>1, <3>2
  <2> QED
    BY <1>2, <2>5 DEF OnceInv
<1> QED
  BY <1>2, <1>4, <1>5, <1>6, TodoSteps DEF OnceInv

\* Planning for the next event: the recovery asked for is the first of its
\* event, and the event is not planned for again.
LEMMA OnceWhenPlanning ==
    ASSUME TInv, OnceInv, NEW c \in Collectors, PlanNext(c)
    PROVE  OnceInv'
<1> DEFINE i == Head(todo[c])
<1> USE DEF TInv
<1>0. Step(c)
  BY DEF Step, Pass
<1>1. /\ todo[c] \in Seq(Item) /\ todo[c] # <<>> /\ i \in Item
      /\ todo'[c] = Tail(todo[c])
  BY HeadTailRange DEF PlanNext, TypeOK
<1>2. PICK p \in Plans(c, i) : Asked' \subseteq Asked \cup Range(p)
  <2>1. \E p \in Plans(c, i) : TRUE
    BY DEF PlanNext
  <2> QED
    BY <1>0, <2>1, AskedSteps
<1>3. \A k \in Range(p) : IsRecovery(k) => k.event = i.event
  <2>1. BoundedRecovery(i).event = i.event
    BY DEF BoundedRecovery, Action
  <2> QED
    BY <1>1, <2>1, PlanProperties DEF IsRecovery
<1>4. \A k, l \in Range(p) : IsRecovery(k) /\ IsRecovery(l) => k = l
  BY <1>1, PlanProperties DEF IsRecovery
<1>5. /\ Len(todo[c]) \in Nat \ {0} /\ i = todo[c][1]
      /\ Len(todo'[c]) = Len(todo[c]) - 1
      /\ \A j \in 1 .. Len(todo'[c]) : todo'[c][j] = todo[c][j + 1]
  <2>1. Len(todo[c]) \in Nat \ {0} /\ i = todo[c][1]
    BY <1>1, EmptySeq
  <2> QED
    BY <1>1, <2>1, HeadTailProperties
<1>6. i.event # 0 =>
        /\ i.event \in processed
        /\ \A k \in Asked : IsRecovery(k) => k.event # i.event
        /\ \A d \in Collectors : \A l \in 1 .. Len(todo[d]) :
              todo[d][l].event = i.event => d = c /\ l = 1
  BY <1>5 DEF OnceInv, Unasked
<1> HIDE DEF i
<1>7. processed' = processed /\ \A d \in Collectors \ {c} : todo'[d] = todo[d]
  BY <1>0, StepFrame DEF PlanNext, tables
<1>8. AskedOnce'
  <2> SUFFICES ASSUME NEW k \in Asked', NEW l \in Asked'
               PROVE  /\ IsRecovery(k) /\ k.event # 0 => k.event \in processed'
                      /\ IsRecovery(k) /\ IsRecovery(l) /\ k.event = l.event
                           /\ k.event # 0 => k = l
    BY DEF AskedOnce, IsRecovery
  <2>1. CASE k \in Asked /\ l \in Asked
    BY <1>7, <2>1 DEF OnceInv, AskedOnce
  <2>2. CASE k \in Range(p) /\ l \in Range(p)
    BY <1>3, <1>4, <1>6, <1>7, <2>2
  <2>3. CASE k \in Asked /\ l \in Range(p)
    BY <1>3, <1>6, <1>7, <2>3 DEF OnceInv, AskedOnce
  <2>4. CASE k \in Range(p) /\ l \in Asked
    BY <1>3, <1>6, <1>7, <2>4
  <2> QED
    BY <1>2, <2>1, <2>2, <2>3, <2>4
\* Where an item that is left was.
<1>9. ASSUME NEW d \in Collectors, NEW j \in 1 .. Len(todo'[d])
      PROVE  LET b == IF d = c THEN j + 1 ELSE j
             IN  /\ b \in 1 .. Len(todo[d])
                 /\ todo'[d][j] = todo[d][b]
                 /\ d = c => b # 1
  <2>1. CASE d = c
    BY <1>5, <2>1
  <2>2. CASE d # c
    BY <1>7, <2>2
  <2> QED
    BY <2>1, <2>2
<1>10. Unasked'
  <2> SUFFICES ASSUME NEW d \in Collectors, NEW j \in 1 .. Len(todo'[d]),
                      todo'[d][j].event # 0
               PROVE  /\ todo'[d][j].event \in processed'
                      /\ \A k \in Asked' : IsRecovery(k) => k.event # todo'[d][j].event
                      /\ \A e \in Collectors : \A l \in 1 .. Len(todo'[e]) :
                            todo'[e][l].event = todo'[d][j].event => e = d /\ l = j
    BY DEF Unasked, IsRecovery
  <2> DEFINE b == IF d = c THEN j + 1 ELSE j
  <2>1. /\ b \in 1 .. Len(todo[d]) /\ todo'[d][j] = todo[d][b]
        /\ d = c => b # 1
    BY <1>9
  <2>2. /\ todo[d][b].event \in processed
        /\ \A k \in Asked : IsRecovery(k) => k.event # todo[d][b].event
        /\ \A e \in Collectors : \A l \in 1 .. Len(todo[e]) :
              todo[e][l].event = todo[d][b].event => e = d /\ l = b
    BY <2>1 DEF OnceInv, Unasked
  <2>3. todo[d][b].event # i.event
    <3>1. i.event = todo[c][1].event /\ 1 \in 1 .. Len(todo[c])
      BY <1>5
    <3> QED
      BY <2>1, <2>2, <3>1
  <2>4. \A k \in Asked' : IsRecovery(k) => k.event # todo[d][b].event
    BY <1>2, <1>3, <2>2, <2>3
  <2>5. ASSUME NEW e \in Collectors, NEW l \in 1 .. Len(todo'[e]),
               todo'[e][l].event = todo'[d][j].event
        PROVE  e = d /\ l = j
    <3> DEFINE a == IF e = c THEN l + 1 ELSE l
    <3>1. a \in 1 .. Len(todo[e]) /\ todo'[e][l] = todo[e][a]
      BY <1>9
    <3>2. e = d /\ a = b
      BY <2>1, <2>2, <2>5, <3>1
    <3> QED
      BY <3>2
  <2> QED
    BY <1>7, <2>1, <2>2, <2>4, <2>5
<1> QED
  BY <1>8, <1>10 DEF OnceInv

\* Every step keeps one recovery of an event at most.
LEMMA OnceStep == TInv /\ OnceInv /\ [Next]_vars => OnceInv'
<1> SUFFICES ASSUME TInv, OnceInv, [Next]_vars PROVE OnceInv'
  OBVIOUS
<1>1. CASE \E c \in Collectors : Step(c)
  BY <1>1, OnceWhenQuiet, OnceWhenPlanning
<1>2. CASE ~ \E c \in Collectors : Step(c)
  BY <1>2, HermesFrame
  DEF TInv, OnceInv, AskedOnce, Unasked, Asked, Next, Step, tables, locals
<1> QED
  BY <1>1, <1>2

\* For any supervisors, previews, budgets and breaks: the outbox holds at most
\* one recovery of an event, although the key of a retry holds the attempt
\* and a replay of the event would find another attempt.
THEOREM OneRecoveryPerEventHolds == Spec => []OneRecoveryPerEvent
<1>1. Init => OnceInv
  BY EmptyRange, EmptySeq DEF Init, OnceInv, AskedOnce, Unasked, Asked
<1>2. TInv /\ OnceInv /\ [Next]_vars => (TInv /\ OnceInv)'
  BY TypeStep, ShapeStep, OnceStep DEF TInv
<1>3. OnceInv => OneRecoveryPerEvent
  <2> SUFFICES ASSUME OnceInv, NEW e \in Events
               PROVE  Cardinality(Recoveries(e)) <= 1
    BY DEF OneRecoveryPerEvent
  <2>1. \A k, l \in Recoveries(e) : k = l
    BY DEF OnceInv, AskedOnce, Asked, Recoveries, IsRecovery, Events
  <2>2. CASE Recoveries(e) = {}
    BY <2>2, FS_EmptySet
  <2>3. CASE Recoveries(e) # {}
    <3>1. PICK k : Recoveries(e) = {k}
      BY <2>1, <2>3
    <3>2. Cardinality({k}) = 1
      BY FS_Singleton
    <3> QED
      BY <3>1, <3>2
  <2> QED
    BY <2>2, <2>3
<1> QED
  BY <1>1, <1>2, <1>3, InitTInv, PTL DEF Spec

-----------------------------------------------------------------------------
(* A failure is answered.  Until its recovery is in the outbox, the pass    *)
(* that marked the event has it in hand: still to be planned for, or its    *)
(* recovery still to be applied.                                           *)

Pending(c, e) ==
    \/ \E j \in 1 .. Len(todo[c]) :
          todo[c][j].event = e /\ todo[c][j].kind = "crashed"
    \/ \E k \in Range(plan[c]) : IsRecovery(k) /\ k.event = e

\* A pass applies when it has planned for everything.
PlannedAll ==
    \A c \in Collectors :
        pc[c] \in {"apply", "bump", "queue", "finish"} => todo[c] = <<>>

\* What is read of an event stays what the board says.
ReadTruly ==
    /\ processed \subseteq Events
    /\ \A c \in Collectors :
          pc[c] = "mark" =>
              \A j \in 1 .. Len(batch[c]) :
                  batch[c][j].kind = board[batch[c][j].event].kind

FailuresArePending ==
    \A e \in processed :
        (board[e].kind = "crashed" /\ e \notin lost /\ Recoveries(e) = {})
            => \E c \in Collectors : e \in hand[c] /\ Pending(c, e)

AnswerInv == PlannedAll /\ ReadTruly /\ FailuresArePending

\* A pass that leaves the plan phase has planned for all it read.
LEMMA PlannedAllStep ==
    ASSUME TInv, PlannedAll, NEW c \in Collectors, Step(c)
    PROVE  PlannedAll'
<1> USE DEF TInv
<1>1. ASSUME pc'[c] \in {"apply", "bump", "queue", "finish"} => todo'[c] = <<>>
      PROVE  PlannedAll'
  BY <1>1, StepFrame DEF PlannedAll
<1> USE DEF GoTo, PlannedAll, TypeOK
<1>2. CASE Begin(c) \/ ReadEvents(c) \/ MarkProcessed(c) \/ SetCursor(c)
  BY <1>1, <1>2 DEF Begin, ReadEvents, MarkProcessed, SetCursor
<1>3. CASE PlanNext(c) \/ PlanEnds(c) \/ AnalyzeHealth(c)
  BY <1>1, <1>3 DEF PlanNext, PlanEnds, AnalyzeHealth
<1>4. CASE Duplicate(c) \/ StartAction(c) \/ BumpRetry(c) \/ Queue(c) \/ MarkDone(c)
  BY <1>1, <1>4 DEF Duplicate, StartAction, BumpRetry, Queue, MarkDone
<1>5. CASE EndPass(c) \/ BreakOff(c)
  BY <1>1, <1>5 DEF EndPass, BreakOff, Leave
<1> QED
  BY <1>2, <1>3, <1>4, <1>5 DEF Step, Pass

\* The event a pass marks is one of the board, and is what the board says.
LEMMA MarkedTruly ==
    ASSUME TInv, ReadTruly, NEW c \in Collectors, MarkProcessed(c)
    PROVE  /\ Head(batch[c]) \in Item
           /\ Head(batch[c]).event \in Events
           /\ Head(batch[c]).kind = board[Head(batch[c]).event].kind
<1> USE DEF TInv
<1>1. batch[c] \in Seq(Item) /\ batch[c] # <<>>
  BY DEF MarkProcessed, Shape, TypeOK
<1>2. /\ Len(batch[c]) \in Nat \ {0} /\ Head(batch[c]) = batch[c][1]
      /\ Head(batch[c]) \in Item
  BY <1>1, EmptySeq, HeadTailRange
<1>3. Head(batch[c]).event = seen[c] + 1 /\ Head(batch[c]).event <= Len(board)
  BY <1>2 DEF MarkProcessed, Shape
<1>4. seen[c] \in Nat /\ Len(board) \in Nat
  BY LenProperties DEF TypeOK
<1> QED
  BY <1>2, <1>3, <1>4 DEF MarkProcessed, ReadTruly, Events

\* What a pass has read stays true to the board.
LEMMA ReadTrulyStep ==
    ASSUME TInv, ReadTruly, NEW c \in Collectors, Step(c)
    PROVE  ReadTruly'
<1> USE DEF TInv
<1>1. ASSUME processed' \subseteq Events,
             pc'[c] = "mark" =>
                \A j \in 1 .. Len(batch'[c]) :
                   batch'[c][j].kind = board[batch'[c][j].event].kind
      PROVE  ReadTruly'
  BY <1>1, StepFrame DEF ReadTruly, Events
<1>2. CASE MarkProcessed(c)
  <2>1. processed' \subseteq Events
    BY <1>2, MarkedTruly DEF MarkProcessed, ReadTruly
  <2>2. /\ batch[c] \in Seq(Item) /\ batch[c] # <<>>
        /\ batch'[c] = Tail(batch[c])
    BY <1>2 DEF MarkProcessed, Shape, TypeOK
  <2>3. \A k \in Range(batch[c]) : k.kind = board[k.event].kind
    BY <1>2, <2>2, RangeEquality DEF MarkProcessed, ReadTruly
  <2>4. \A j \in 1 .. Len(batch'[c]) : batch'[c][j] \in Range(batch[c])
    BY <2>2, HeadTailRange, RangeEquality
  <2> QED
    BY <1>1, <2>1, <2>3, <2>4
<1>3. CASE ReadEvents(c)
  <2>1. processed' \subseteq Events
    BY <1>3 DEF ReadEvents, ReadTruly, tables
  <2> DEFINE n == LastRead(seen[c]) - seen[c]
  <2>2. batch'[c] = [j \in 1 .. n |-> ItemOf(seen[c] + j)]
    BY <1>3 DEF ReadEvents, TypeOK
  <2> HIDE DEF n
  <2>3. DOMAIN batch'[c] = 1 .. Len(batch'[c])
    BY <1>3, ReadProperties, LenProperties
  <2>4. \A j \in 1 .. n : ItemOf(seen[c] + j).kind = board[ItemOf(seen[c] + j).event].kind
    BY DEF ItemOf
  <2>5. 1 .. Len(batch'[c]) = 1 .. n
    BY <2>2, <2>3
  <2>6. ASSUME NEW j \in 1 .. Len(batch'[c])
        PROVE  batch'[c][j].kind = board[batch'[c][j].event].kind
    <3>1. j \in 1 .. n
      BY <2>5
    <3>2. batch'[c][j] = ItemOf(seen[c] + j)
      BY <2>2, <3>1
    <3> QED
      BY <2>4, <3>1, <3>2
  <2> QED
    BY <1>1, <2>1, <2>6
<1>4. ASSUME processed' = processed, pc'[c] # "mark" PROVE ReadTruly'
  BY <1>1, <1>4 DEF ReadTruly
<1> USE DEF GoTo, TypeOK, tables
<1>5. CASE Begin(c) \/ SetCursor(c) \/ PlanNext(c) \/ PlanEnds(c)
  BY <1>4, <1>5 DEF Begin, SetCursor, PlanNext, PlanEnds
<1>6. CASE Duplicate(c) \/ StartAction(c) \/ BumpRetry(c) \/ Queue(c) \/ MarkDone(c)
  BY <1>4, <1>6 DEF Duplicate, StartAction, BumpRetry, Queue, MarkDone
<1>7. CASE AnalyzeHealth(c) \/ EndPass(c) \/ BreakOff(c)
  BY <1>4, <1>7 DEF AnalyzeHealth, EndPass, BreakOff, Leave
<1> QED
  BY <1>2, <1>3, <1>5, <1>6, <1>7 DEF Step, Pass

\* A failure that a pass has in hand stays there, or the pass breaks off, or
\* its recovery is in the outbox.
LEMMA PendingStep ==
    ASSUME TInv, DoneInv, PlannedAll, NEW c \in Collectors, Step(c),
           NEW e \in Events, e \in hand[c], Pending(c, e),
           e \notin lost', Recoveries(e)' = {}
    PROVE  e \in hand'[c] /\ Pending(c, e)'
<1> USE DEF TInv
<1>0. \A k \in outbox' : IsRecovery(k) => k.event # e
  BY DEF Recoveries, IsRecovery
<1>1. CASE MarkProcessed(c)
  <2>1. /\ e \in hand'[c] /\ plan' = plan
        /\ todo'[c] \in {todo[c], Append(todo[c], Head(batch[c]))}
    BY <1>1 DEF MarkProcessed, TypeOK
  <2>2. Head(batch[c]) \in Item
    BY <1>1, HeadTailRange DEF MarkProcessed, Shape, TypeOK
  <2>3. todo[c] \in Seq(Item) /\ Len(todo[c]) \in Nat
    BY LenProperties DEF TypeOK
  <2>4. ASSUME NEW j \in 1 .. Len(todo[c])
        PROVE  j \in 1 .. Len(todo'[c]) /\ todo'[c][j] = todo[c][j]
    <3>1. CASE todo'[c] = todo[c]
      BY <3>1
    <3>2. CASE todo'[c] = Append(todo[c], Head(batch[c]))
      <4> DEFINE longer == Append(todo[c], Head(batch[c]))
      <4>1. /\ Len(longer) = Len(todo[c]) + 1
            /\ longer[j] = todo[c][j]
        BY <2>2, <2>3, AppendProperties
      <4> HIDE DEF longer
      <4>2. j \in 1 .. Len(longer)
        BY <2>3, <4>1
      <4> QED
        BY <3>2, <4>1, <4>2 DEF longer
    <3> QED
      BY <2>1, <3>1, <3>2
  <2> QED
    BY <2>1, <2>4 DEF Pending
<1>2. CASE PlanNext(c)
  <2> DEFINE i == Head(todo[c])
  <2>1. /\ todo[c] \in Seq(Item) /\ todo[c] # <<>> /\ i \in Item
        /\ todo'[c] = Tail(todo[c]) /\ hand' = hand
    BY <1>2, HeadTailRange DEF PlanNext, TypeOK
  <2>2. PICK p \in Plans(c, i) : plan'[c] = plan[c] \o p
    BY <1>2 DEF PlanNext, TypeOK
  <2>3. Range(plan'[c]) = Range(plan[c]) \cup Range(p)
    BY <2>1, <2>2, PlanProperties, RangeConcatenation DEF TypeOK
  <2>4. CASE \E k \in Range(plan[c]) : IsRecovery(k) /\ k.event = e
    BY <2>1, <2>3, <2>4 DEF Pending
  <2>5. CASE \E j \in 1 .. Len(todo[c]) :
                todo[c][j].event = e /\ todo[c][j].kind = "crashed"
    <3>1. PICK j \in 1 .. Len(todo[c]) :
             todo[c][j].event = e /\ todo[c][j].kind = "crashed"
      BY <2>5
    <3>2. /\ Len(todo[c]) \in Nat \ {0} /\ i = todo[c][1]
          /\ Len(todo'[c]) = Len(todo[c]) - 1
          /\ \A l \in 1 .. Len(todo'[c]) : todo'[c][l] = todo[c][l + 1]
      <4>1. Len(todo[c]) \in Nat \ {0} /\ i = todo[c][1]
        BY <2>1, EmptySeq
      <4> QED
        BY <2>1, <4>1, HeadTailProperties
    <3>3. CASE j = 1
      <4>1. BoundedRecovery(i) \in Range(p)
        BY <2>1, <3>1, <3>2, <3>3, PlanProperties DEF Fails
      <4>2. /\ IsRecovery(BoundedRecovery(i))
            /\ BoundedRecovery(i).event = i.event
        BY DEF IsRecovery, BoundedRecovery, Action
      <4> QED
        BY <2>1, <2>3, <3>1, <3>2, <3>3, <4>1, <4>2 DEF Pending
    <3>4. CASE j # 1
      <4>1. j - 1 \in 1 .. Len(todo'[c]) /\ (j - 1) + 1 = j
        BY <3>2, <3>4
      <4>2. todo'[c][j - 1] = todo[c][j]
        BY <3>2, <4>1
      <4> QED
        BY <2>1, <3>1, <4>1, <4>2 DEF Pending
    <3> QED
      BY <3>3, <3>4
  <2> QED
    BY <2>4, <2>5 DEF Pending
<1>3. CASE PlanEnds(c)
  <2>1. c \notin Previews
    BY <1>3 DEF PlanEnds
  <2> QED
    BY <1>3, <2>1 DEF PlanEnds, Pending
\* An action is dropped from the plan when it is done, and then it is queued.
<1>4. CASE Duplicate(c) \/ MarkDone(c)
  <2>1. /\ plan[c] \in Seq(Key) /\ plan[c] # <<>> /\ plan'[c] = Tail(plan[c])
        /\ todo' = todo /\ hand' = hand /\ outbox' = outbox
    BY <1>4 DEF Duplicate, MarkDone, Shape, TypeOK, tables
  <2>2. Queued(Head(plan[c]))
    BY <1>4 DEF Duplicate, MarkDone, DoneInv, DoneIsQueued, Queued, Needless
  <2>3. IsRecovery(Head(plan[c])) => Head(plan[c]).event # e
    BY <1>0, <2>1, <2>2 DEF Queued, Needless, IsRecovery
  <2> QED
    BY <2>1, <2>3, HeadTailRange DEF Pending
<1>5. CASE AnalyzeHealth(c) \/ EndPass(c)
  <2>1. plan[c] = <<>> /\ todo[c] = <<>>
    BY <1>5 DEF AnalyzeHealth, EndPass, PlannedAll
  <2>2. Range(plan[c]) = {} /\ Len(todo[c]) = 0
    BY <2>1, EmptyRange
  <2> QED
    BY <2>2 DEF Pending
<1>6. CASE BreakOff(c)
  BY <1>6 DEF BreakOff
<1>7. CASE Begin(c) \/ ReadEvents(c) \/ SetCursor(c)
  BY <1>7 DEF Begin, ReadEvents, SetCursor, Pending
<1>8. CASE StartAction(c) \/ BumpRetry(c) \/ Queue(c)
  BY <1>8 DEF StartAction, BumpRetry, Queue, Pending
<1> QED
  BY <1>1, <1>2, <1>3, <1>4, <1>5, <1>6, <1>7, <1>8 DEF Step, Pass

\* Every step of a pass keeps the marked failures answered or pending.
LEMMA FailuresStep ==
    ASSUME TInv, DoneInv, AnswerInv, NEW c \in Collectors, Step(c)
    PROVE  FailuresArePending'
<1> USE DEF TInv
<1> SUFFICES ASSUME NEW e \in processed', board'[e].kind = "crashed",
                    e \notin lost', Recoveries(e)' = {}
             PROVE  \E d \in Collectors : e \in hand'[d] /\ Pending(d, e)'
  BY DEF FailuresArePending
<1>1. board' = board
  BY StepFrame
<1>2. CASE e \in processed
  <2>1. e \in Events
    BY <1>2 DEF AnswerInv, ReadTruly
  <2>2. e \notin lost /\ Recoveries(e) = {}
    BY StepFrame DEF Recoveries
  <2>3. PICK d \in Collectors : e \in hand[d] /\ Pending(d, e)
    BY <1>1, <1>2, <2>2 DEF AnswerInv, FailuresArePending
  <2>4. CASE d = c
    BY <2>1, <2>3, <2>4, PendingStep DEF AnswerInv
  <2>5. CASE d # c
    BY <2>3, <2>5, StepFrame DEF Pending
  <2> QED
    BY <2>4, <2>5
<1>3. CASE e \notin processed
  <2>1. MarkProcessed(c)
    BY <1>3 DEF Step, Pass, Begin, ReadEvents, SetCursor, PlanNext, PlanEnds,
       Duplicate, StartAction, BumpRetry, Queue, MarkDone, AnalyzeHealth,
       EndPass, BreakOff, tables
  <2> DEFINE i == Head(batch[c])
  <2>2. i \in Item /\ i.event = e /\ i.kind = "crashed"
    BY <1>1, <1>3, <2>1, MarkedTruly DEF MarkProcessed, AnswerInv
  <2>3. e \in hand'[c] /\ todo'[c] = Append(todo[c], i)
    BY <1>3, <2>1, <2>2 DEF MarkProcessed, Inserts, TypeOK
  <2> HIDE DEF i
  <2>4. /\ Len(todo[c]) + 1 \in 1 .. Len(todo'[c])
        /\ todo'[c][Len(todo[c]) + 1] = i
    BY <2>2, <2>3, AppendProperties, LenProperties DEF TypeOK
  <2> QED
    BY <2>2, <2>3, <2>4 DEF Pending
<1> QED
  BY <1>2, <1>3

\* The board only gets longer, so that what was read stays true.
LEMMA HermesReads ==
    ASSUME TInv, ReadTruly, UNCHANGED <<tables, locals>>,
           Len(board) \in Nat,
           \A e \in Events : e \in Events' /\ board'[e] = board[e]
    PROVE  ReadTruly'
<1>1. processed' \subseteq Events'
  BY DEF ReadTruly, tables
<1>2. ASSUME NEW c \in Collectors, pc[c] = "mark", NEW j \in 1 .. Len(batch[c])
      PROVE  batch[c][j].kind = board'[batch[c][j].event].kind
  <2>1. batch[c][j].event = seen[c] + j /\ batch[c][j].event <= Len(board)
    BY <1>2 DEF TInv, Shape
  <2>2. batch[c][j].event \in Events
    BY <2>1 DEF TInv, TypeOK, Events
  <2> QED
    BY <1>2, <2>2 DEF ReadTruly
<1> QED
  BY <1>1, <1>2 DEF ReadTruly, locals

\* Every step keeps the marked failures answered or pending.
LEMMA AnswerStep == TInv /\ DoneInv /\ AnswerInv /\ [Next]_vars => AnswerInv'
<1> SUFFICES ASSUME TInv, DoneInv, AnswerInv, [Next]_vars PROVE AnswerInv'
  OBVIOUS
<1>1. CASE \E c \in Collectors : Step(c)
  BY <1>1, PlannedAllStep, ReadTrulyStep, FailuresStep DEF AnswerInv
<1>2. CASE ~ \E c \in Collectors : Step(c)
  <2>1. /\ UNCHANGED <<tables, locals, lost, faults>>
        /\ Len(board) \in Nat /\ Len(board') \in Nat /\ Len(board) <= Len(board')
        /\ \A e \in Events : e \in Events' /\ board'[e] = board[e]
    BY <1>2, HermesFrame DEF TInv, Next, Step, Events
  <2>2. PlannedAll'
    BY <2>1 DEF AnswerInv, PlannedAll, locals
  <2>3. ReadTruly'
    BY <2>1, HermesReads DEF AnswerInv
  <2>4. FailuresArePending'
    BY <2>1 DEF AnswerInv, FailuresArePending, ReadTruly, Pending, Recoveries,
       tables, locals
  <2> QED
    BY <2>2, <2>3, <2>4 DEF AnswerInv
<1> QED
  BY <1>1, <1>2

\* For any supervisors, previews and budgets: a failure that was marked has
\* its recovery in the outbox, unless a pass has it in hand, or broke off with
\* it, or was a preview.
THEOREM FailuresAreAnsweredHolds == Spec => []FailuresAreAnswered
<1>1. Init => DoneInv /\ AnswerInv
  BY DEF Init, DoneInv, DoneIsQueued, AnswerInv, PlannedAll, ReadTruly,
     FailuresArePending
<1>2. TInv /\ DoneInv /\ AnswerInv /\ [Next]_vars
        => (TInv /\ DoneInv /\ AnswerInv)'
  BY TypeStep, ShapeStep, DoneStep, AnswerStep DEF TInv
<1>3. AnswerInv => FailuresAreAnswered
  BY DEF AnswerInv, FailuresArePending, FailuresAreAnswered, InHand
<1> QED
  BY <1>1, <1>2, <1>3, InitTInv, PTL DEF Spec

-----------------------------------------------------------------------------
(* A review is answered.  What an event asks for is in the outbox, or the   *)
(* pass that marked the event has it in hand: the event still to be planned *)
(* for, or what it asks for still to be applied.  A pass may plan by an old *)
(* status of the card: if that was not a block, the card does not wait now. *)

TrueItem(i) ==
    i.event # 0 =>
        /\ i.event \in Events
        /\ i.task = board[i.event].task /\ i.kind = board[i.event].kind
        /\ i.status # "blocked" => ~StillBlocked(i.event)

ItemsTrue ==
    \A c \in Collectors : \A i \in Range(batch[c]) \cup Range(todo[c]) : TrueItem(i)

InTodo(c, e) == \E i \in Range(todo[c]) : i.event = e

ReviewsArePending ==
    \A e \in processed : e \notin lost =>
        \A k \in Owed(e) \ outbox : \E c \in Collectors :
            e \in hand[c] /\ (InTodo(c, e) \/ k \in Range(plan[c]))

ReviewInv == PlannedAll /\ ReadTruly /\ ItemsTrue /\ ReviewsArePending

\* What an event asks for can be taken back, but not come up.
LEMMA StillBlockedOnce ==
    ASSUME TypeOK, NEW e \in Events, StillBlocked(e)',
           \/ board' = board /\ status' = status
           \/ \E t \in Tasks :
                Resume(t) \/ \E kind \in Occurring : WorkerStops(t, kind)
    PROVE  StillBlocked(e)
<1>1. /\ Len(board) \in Nat /\ e \in 1 .. Len(board) /\ board[e].task \in Tasks
  <2>1. Len(board) \in Nat /\ e \in 1 .. Len(board)
    BY LenProperties DEF TypeOK, Events
  <2>2. board[e] \in [task : Tasks, kind : EventKinds]
    BY <2>1, ElementOfSeq DEF TypeOK
  <2> QED
    BY <2>1, <2>2
<1>2. CASE board' = board /\ status' = status
  BY <1>2 DEF StillBlocked, Events
<1>3. ASSUME NEW t \in Tasks, Resume(t) PROVE StillBlocked(e)
  <2>1. board' = board /\ status' = [status EXCEPT ![t] = "running"]
    BY <1>3 DEF Resume
  <2>2. t # board[e].task
    BY <1>1, <2>1 DEF StillBlocked, TypeOK
  <2> QED
    BY <1>1, <2>1, <2>2 DEF StillBlocked, Events, TypeOK
<1>4. ASSUME NEW t \in Tasks, NEW kind \in Occurring, WorkerStops(t, kind)
      PROVE  StillBlocked(e)
  <2> DEFINE n == Len(board)
             x == [task |-> t, kind |-> kind]
  <2>1. kind \in EventKinds
    BY PipelineAssumption
  <2>2. /\ Len(board') = n + 1 /\ board'[n + 1] = x
        /\ \A d \in 1 .. n : board'[d] = board[d]
    BY <1>4, <2>1, AppendProperties DEF WorkerStops, TypeOK
  <2>3. x.task = t /\ n \in Nat /\ e \in 1 .. n
    BY <1>1
  <2>4. \A d \in 1 .. n + 1 : d > e => board'[d].task # board'[e].task
    BY <2>2 DEF StillBlocked, Events
  <2> HIDE DEF n, x
  <2>5. n + 1 \in 1 .. n + 1 /\ n + 1 > e /\ board'[e] = board[e]
    BY <2>2, <2>3
  <2>6. t # board[e].task
    BY <2>2, <2>3, <2>4, <2>5
  <2>7. status[board[e].task] = "blocked"
    <3>1. status'[board[e].task] = "blocked"
      BY <2>5 DEF StillBlocked
    <3>2. status'[board[e].task] = status[board[e].task]
      BY <1>1, <1>4, <2>6 DEF WorkerStops, TypeOK
    <3> QED
      BY <3>1, <3>2
  <2>8. ASSUME NEW d \in 1 .. n, d > e PROVE board[d].task # board[e].task
    <3>1. d \in 1 .. n + 1 /\ board'[d] = board[d]
      BY <2>2, <2>3
    <3> QED
      BY <2>4, <2>5, <2>8, <3>1
  <2> QED
    BY <2>7, <2>8 DEF StillBlocked, Events, n
<1> QED
  BY <1>2, <1>3, <1>4

\* What Hermes and the workers do makes nothing more owed for an event.
LEMMA OwedOnce ==
    ASSUME TypeOK, NEW e \in Events, board'[e] = board[e],
           \/ board' = board /\ status' = status
           \/ \E t \in Tasks :
                Resume(t) \/ \E kind \in Occurring : WorkerStops(t, kind)
    PROVE  Owed(e)' \subseteq Owed(e)
<1>1. StillBlocked(e)' => StillBlocked(e)
  BY StillBlockedOnce
<1> QED
  BY <1>1 DEF Owed

\* Everything an event asks for is planned with it.
LEMMA OwedIsPlanned ==
    ASSUME TypeOK, NEW i \in Item, i.event # 0, TrueItem(i)
    PROVE  Owed(i.event) \subseteq Range(Review(i)) \cup Range(Answer(i))
<1> DEFINE e == i.event
<1>1. /\ e \in Events /\ i.task = board[e].task /\ i.kind = board[e].kind
      /\ i.status # "blocked" => ~StillBlocked(e)
      /\ i.task \in Tasks
  BY DEF TrueItem, Item
<1>2. CASE i.kind \in Verdicts /\ i.task \in Reviewers
  <2>1. Answer(i) = Answers(i.kind, i.task)
    BY <1>2 DEF Answer
  <2>2. Owed(e) = {Answers(i.kind, i.task)[n] : n \in 1 .. 3}
    BY <1>1, <1>2 DEF Owed
  <2> QED
    BY <1>1, <1>2, <2>1, <2>2, AnswersAreKeys
<1>3. CASE /\ ~ (i.kind \in Verdicts /\ i.task \in Reviewers)
           /\ i.kind = "review-required" \/ i.task \in ForReview
           /\ StillBlocked(e)
  <2>1. Review(i) = <<TaskAction("create_reviewer", i.task)>>
    BY <1>1, <1>3 DEF Review, ReviewRequired
  <2>2. TaskAction("create_reviewer", i.task) \in Key
    BY <1>1 DEF TaskAction, Key
  <2>3. Range(Review(i)) = {TaskAction("create_reviewer", i.task)}
    BY <2>1, <2>2, OneRange
  <2>4. Owed(e) = {TaskAction("create_reviewer", i.task)}
    BY <1>1, <1>3 DEF Owed
  <2> QED
    BY <2>3, <2>4
<1>4. CASE /\ ~ (i.kind \in Verdicts /\ i.task \in Reviewers)
           /\ ~ (/\ i.kind = "review-required" \/ i.task \in ForReview
                 /\ StillBlocked(e))
  BY <1>1, <1>4 DEF Owed
<1> QED
  BY <1>2, <1>3, <1>4

\* An action that is owed is not needless.
LEMMA OwedIsNeeded ==
    ASSUME TypeOK, NEW e \in Events, NEW k \in Owed(e)
    PROVE  ~Needless(k)
<1>1. board[e].task \in Tasks
  <2>1. board[e] \in [task : Tasks, kind : EventKinds]
    BY ElementOfSeq DEF TypeOK, Events
  <2> QED
    BY <2>1
<1>2. k.kind # "ensure_subscription"
  <2>1. CASE board[e].kind \in Verdicts /\ board[e].task \in Reviewers
    BY <1>1, <2>1, AnswersAreKeys DEF Owed
  <2>2. CASE ~ (board[e].kind \in Verdicts /\ board[e].task \in Reviewers)
    <3>1. k = TaskAction("create_reviewer", board[e].task)
      BY <2>2 DEF Owed
    <3> QED
      BY <3>1 DEF TaskAction
  <2> QED
    BY <2>1, <2>2
<1> QED
  BY <1>2 DEF Needless

\* The elements of a sequence and one more.
LEMMA AppendRange ==
    ASSUME NEW S, NEW s \in Seq(S), NEW x \in S
    PROVE  Range(Append(s, x)) = Range(s) \cup {x}
<1> DEFINE t == Append(s, x)
           n == Len(s)
<1>1. /\ t \in Seq(S) /\ n \in Nat /\ Len(t) = n + 1
      /\ \A j \in 1 .. n : t[j] = s[j]
      /\ t[n + 1] = x
  BY AppendProperties, LenProperties
<1>2. Range(s) = {s[j] : j \in 1 .. n}
  BY RangeEquality
<1> HIDE DEF t, n
<1>3. Range(t) = {t[j] : j \in 1 .. n + 1}
  BY <1>1, RangeEquality
<1>4. \A j \in 1 .. n + 1 : j \in 1 .. n \/ j = n + 1
  BY <1>1
<1>5. Range(t) \subseteq Range(s) \cup {x}
  BY <1>1, <1>2, <1>3, <1>4
<1>6. \A j \in 1 .. n : j \in 1 .. n + 1 /\ t[j] = s[j]
  BY <1>1
<1>7. n + 1 \in 1 .. n + 1
  BY <1>1
<1>8. Range(s) \cup {x} \subseteq Range(t)
  BY <1>1, <1>2, <1>3, <1>6, <1>7
<1> QED
  BY <1>5, <1>8 DEF t

\* Every step of a pass keeps its items true to the cards.
LEMMA ItemsStep ==
    ASSUME TInv, ItemsTrue, NEW c \in Collectors, Step(c)
    PROVE  ItemsTrue'
<1> USE DEF TInv
<1>1. board' = board /\ status' = status
  BY StepFrame
<1>2. \A i : TrueItem(i) => TrueItem(i)'
  BY <1>1 DEF TrueItem, StillBlocked, Events
<1>3. batch[c] \in Seq(Item) /\ todo[c] \in Seq(Item)
  BY DEF TypeOK
<1>4. ASSUME NEW i \in Range(batch'[c]) PROVE TrueItem(i)
  <2>1. CASE ReadEvents(c)
    <3> DEFINE n == LastRead(seen[c]) - seen[c]
    <3>1. batch'[c] = [j \in 1 .. n |-> ItemOf(seen[c] + j)]
      BY <2>1 DEF ReadEvents, TypeOK
    <3>2. /\ batch'[c] \in Seq(Item) /\ Len(batch'[c]) = n
          /\ \A j \in 1 .. Len(batch'[c]) :
                batch'[c][j].event = seen[c] + j /\ batch'[c][j].event <= Len(board)
      BY <2>1, ReadProperties
    <3> HIDE DEF n
    <3>3. PICK j \in 1 .. Len(batch'[c]) : i = batch'[c][j]
      BY <1>4, <3>2, RangeEquality
    <3>4. i = ItemOf(seen[c] + j)
      BY <3>1, <3>2, <3>3
    <3>5. seen[c] \in Nat /\ Len(board) \in Nat /\ j \in Nat \ {0}
      BY <3>3, LenProperties DEF TypeOK
    <3>6. i.event = seen[c] + j /\ i.event <= Len(board)
      BY <3>2, <3>3
    <3>7. i.event \in Events
      BY <3>5, <3>6 DEF Events
    <3>8. i.task = board[i.event].task /\ i.kind = board[i.event].kind
          /\ i.status = status[board[i.event].task]
      BY <3>4 DEF ItemOf
    <3> QED
      BY <3>7, <3>8 DEF TrueItem, StillBlocked
  <2>2. CASE batch'[c] = batch[c]
    BY <1>4, <2>2 DEF ItemsTrue
  <2>3. CASE MarkProcessed(c)
    <3>1. batch[c] # <<>> /\ batch'[c] = Tail(batch[c])
      BY <2>3 DEF MarkProcessed, Shape, TypeOK
    <3>2. i \in Range(batch[c])
      BY <1>3, <1>4, <3>1, HeadTailRange
    <3> QED
      BY <3>2 DEF ItemsTrue
  <2>4. CASE EndPass(c) \/ BreakOff(c)
    <3>1. batch'[c] = <<>>
      BY <2>4 DEF EndPass, BreakOff, Leave, TypeOK
    <3> QED
      BY <1>4, <3>1, EmptyRange
  <2>5. CASE Begin(c) \/ SetCursor(c) \/ PlanNext(c) \/ PlanEnds(c)
    BY <2>2, <2>5 DEF Begin, SetCursor, PlanNext, PlanEnds
  <2>6. CASE Duplicate(c) \/ StartAction(c) \/ BumpRetry(c) \/ Queue(c)
             \/ MarkDone(c) \/ AnalyzeHealth(c)
    BY <2>2, <2>6 DEF Duplicate, StartAction, BumpRetry, Queue, MarkDone,
       AnalyzeHealth
  <2> QED
    BY <2>1, <2>3, <2>4, <2>5, <2>6 DEF Step, Pass
<1>5. ASSUME NEW i \in Range(todo'[c]) PROVE TrueItem(i)
  <2>1. CASE todo'[c] = todo[c]
    BY <1>5, <2>1 DEF ItemsTrue
  <2>2. CASE \A j \in 1 .. Len(todo'[c]) : todo'[c][j].event = 0
    <3>1. todo'[c] \in Seq(Item)
      BY TypeStep DEF TypeOK, Next, Step
    <3>2. PICK j \in 1 .. Len(todo'[c]) : i = todo'[c][j]
      BY <1>5, <3>1, RangeEquality
    <3> QED
      BY <2>2, <3>2 DEF TrueItem
  <2>3. CASE MarkProcessed(c) /\ todo'[c] = Append(todo[c], Head(batch[c]))
    <3>1. batch[c] # <<>>
      BY <2>3 DEF MarkProcessed, Shape
    <3>2. Head(batch[c]) \in Item /\ Head(batch[c]) \in Range(batch[c])
      BY <1>3, <3>1, HeadTailRange
    <3>3. i \in Range(todo[c]) \cup {Head(batch[c])}
      BY <1>3, <1>5, <2>3, <3>2, AppendRange
    <3> QED
      BY <3>2, <3>3 DEF ItemsTrue
  <2>4. CASE PlanNext(c) /\ todo'[c] = Tail(todo[c])
    <3>1. i \in Range(todo[c])
      BY <1>3, <1>5, <2>4, HeadTailRange DEF PlanNext
    <3> QED
      BY <3>1 DEF ItemsTrue
  <2> QED
    BY <2>1, <2>2, <2>3, <2>4, TodoSteps
<1> QED
  BY <1>2, <1>4, <1>5, StepFrame DEF ItemsTrue

\* What a pass has to do for an event it has in hand stays with it, or the
\* pass breaks off, or it is in the outbox.
LEMMA InHandStep ==
    ASSUME TInv, DoneInv, PlannedAll, ItemsTrue, NEW c \in Collectors, Step(c),
           NEW e \in Events, e \in hand[c], e \notin lost',
           NEW k \in Owed(e), k \notin outbox',
           InTodo(c, e) \/ k \in Range(plan[c])
    PROVE  e \in hand'[c] /\ (InTodo(c, e)' \/ k \in Range(plan'[c]))
<1> USE DEF TInv
<1>1. batch[c] \in Seq(Item) /\ todo[c] \in Seq(Item) /\ plan[c] \in Seq(Key)
  BY DEF TypeOK
<1>2. CASE MarkProcessed(c)
  <2>1. /\ e \in hand'[c] /\ plan' = plan
        /\ todo'[c] \in {todo[c], Append(todo[c], Head(batch[c]))}
    BY <1>2 DEF MarkProcessed, TypeOK
  <2>2. Head(batch[c]) \in Item
    BY <1>1, <1>2, HeadTailRange DEF MarkProcessed, Shape
  <2>3. Range(todo[c]) \subseteq Range(todo'[c])
    <3>1. Range(Append(todo[c], Head(batch[c]))) = Range(todo[c]) \cup {Head(batch[c])}
      BY <1>1, <2>2, AppendRange
    <3>2. CASE todo'[c] = todo[c]
      BY <3>2
    <3>3. CASE todo'[c] = Append(todo[c], Head(batch[c]))
      BY <3>1, <3>3
    <3> QED
      BY <2>1, <3>2, <3>3
  <2> QED
    BY <2>1, <2>3 DEF InTodo
<1>3. CASE PlanNext(c)
  <2> DEFINE i == Head(todo[c])
  <2>1. /\ todo[c] # <<>> /\ i \in Item /\ todo'[c] = Tail(todo[c])
        /\ hand' = hand /\ Range(todo[c]) = {i} \cup Range(Tail(todo[c]))
    BY <1>1, <1>3, HeadTailRange DEF PlanNext, TypeOK
  <2>2. PICK p \in Plans(c, i) : plan'[c] = plan[c] \o p
    BY <1>3 DEF PlanNext, TypeOK
  <2>3. Range(plan'[c]) = Range(plan[c]) \cup Range(p)
    BY <1>1, <2>1, <2>2, PlanProperties, RangeConcatenation
  <2>4. i.event = e => k \in Range(p)
    <3>1. SUFFICES ASSUME i.event = e PROVE k \in Range(p)
      OBVIOUS
    <3>2. TrueItem(i) /\ e # 0
      BY <2>1 DEF ItemsTrue, Events
    <3>3. k \in Range(Review(i)) \cup Range(Answer(i))
      BY <2>1, <3>1, <3>2, OwedIsPlanned
    <3> QED
      BY <2>1, <2>2, <3>3, PlanProperties
  <2> HIDE DEF i
  <2> QED
    BY <2>1, <2>3, <2>4 DEF InTodo
<1>4. CASE PlanEnds(c)
  <2>1. c \notin Previews
    BY <1>4 DEF PlanEnds
  <2> QED
    BY <1>4, <2>1 DEF PlanEnds, InTodo
\* An action is dropped from the plan when it is done, and then it is queued.
<1>5. CASE Duplicate(c) \/ MarkDone(c)
  <2>1. /\ plan[c] # <<>> /\ plan'[c] = Tail(plan[c])
        /\ todo' = todo /\ hand' = hand /\ outbox' = outbox
    BY <1>5 DEF Duplicate, MarkDone, Shape, TypeOK, tables
  <2>2. Queued(Head(plan[c]))
    BY <1>5 DEF Duplicate, MarkDone, DoneInv, DoneIsQueued, Queued, Needless
  <2>3. k # Head(plan[c])
    BY <2>1, <2>2, OwedIsNeeded DEF Queued
  <2> QED
    BY <1>1, <2>1, <2>3, HeadTailRange DEF InTodo
<1>6. CASE AnalyzeHealth(c) \/ EndPass(c)
  <2>1. plan[c] = <<>> /\ todo[c] = <<>>
    BY <1>6 DEF AnalyzeHealth, EndPass, PlannedAll
  <2> QED
    BY <2>1, EmptyRange DEF InTodo
<1>7. CASE BreakOff(c)
  BY <1>7 DEF BreakOff
<1>8. CASE Begin(c) \/ ReadEvents(c) \/ SetCursor(c)
  BY <1>8 DEF Begin, ReadEvents, SetCursor, InTodo
<1>9. CASE StartAction(c) \/ BumpRetry(c) \/ Queue(c)
  BY <1>9 DEF StartAction, BumpRetry, Queue, InTodo
<1> QED
  BY <1>2, <1>3, <1>4, <1>5, <1>6, <1>7, <1>8, <1>9 DEF Step, Pass

\* Every step of a pass keeps the marked reviews answered or pending.
LEMMA ReviewsStep ==
    ASSUME TInv, DoneInv, ReviewInv, NEW c \in Collectors, Step(c)
    PROVE  ReviewsArePending'
<1> USE DEF TInv
<1>0. /\ board' = board /\ status' = status
      /\ outbox \subseteq outbox' /\ lost \subseteq lost'
  BY StepFrame
<1> SUFFICES ASSUME NEW e \in processed', e \notin lost',
                    NEW k \in Owed(e), k \notin outbox'
             PROVE  \E d \in Collectors :
                       e \in hand'[d] /\ (InTodo(d, e)' \/ k \in Range(plan'[d]))
  <2>1. \A e : Owed(e)' = Owed(e)
    BY <1>0 DEF Owed, StillBlocked, Events
  <2> QED
    BY <2>1 DEF ReviewsArePending
<1>1. CASE e \in processed
  <2>1. e \in Events
    BY <1>1 DEF ReviewInv, ReadTruly
  <2>2. PICK d \in Collectors :
           e \in hand[d] /\ (InTodo(d, e) \/ k \in Range(plan[d]))
    BY <1>0, <1>1 DEF ReviewInv, ReviewsArePending
  <2>3. CASE d = c
    BY <2>1, <2>2, <2>3, InHandStep DEF ReviewInv
  <2>4. CASE d # c
    BY <2>2, <2>4, StepFrame DEF InTodo
  <2> QED
    BY <2>3, <2>4
<1>2. CASE e \notin processed
  <2>1. MarkProcessed(c)
    BY <1>2 DEF Step, Pass, Begin, ReadEvents, SetCursor, PlanNext, PlanEnds,
       Duplicate, StartAction, BumpRetry, Queue, MarkDone, AnalyzeHealth,
       EndPass, BreakOff, tables
  <2> DEFINE i == Head(batch[c])
  <2>2. i \in Item /\ i.event = e
    BY <1>2, <2>1, MarkedTruly DEF MarkProcessed, ReviewInv
  <2>3. e \in hand'[c] /\ todo'[c] = Append(todo[c], i)
    BY <1>2, <2>1, <2>2 DEF MarkProcessed, Inserts, TypeOK
  <2> HIDE DEF i
  <2>4. i \in Range(todo'[c])
    BY <2>2, <2>3, AppendRange DEF TypeOK
  <2> QED
    BY <2>2, <2>3, <2>4 DEF InTodo
<1> QED
  BY <1>1, <1>2

\* Every step keeps the marked reviews answered or pending.
LEMMA ReviewStep == TInv /\ DoneInv /\ ReviewInv /\ [Next]_vars => ReviewInv'
<1> SUFFICES ASSUME TInv, DoneInv, ReviewInv, [Next]_vars PROVE ReviewInv'
  OBVIOUS
<1>1. CASE \E c \in Collectors : Step(c)
  BY <1>1, PlannedAllStep, ReadTrulyStep, ItemsStep, ReviewsStep DEF ReviewInv
<1>2. CASE ~ \E c \in Collectors : Step(c)
  <2>1. \/ UNCHANGED vars
        \/ \E t \in Tasks :
              Resume(t) \/ \E kind \in Occurring : WorkerStops(t, kind)
    BY <1>2 DEF Next, Step
  <2>2. /\ UNCHANGED <<tables, locals, lost, faults>>
        /\ Len(board) \in Nat /\ Len(board') \in Nat /\ Len(board) <= Len(board')
        /\ \A e \in Events : e \in Events' /\ board'[e] = board[e]
    BY <2>1, HermesFrame DEF TInv, Events
  <2>3. \/ board' = board /\ status' = status
        \/ \E t \in Tasks :
              Resume(t) \/ \E kind \in Occurring : WorkerStops(t, kind)
    BY <2>1 DEF vars
  <2>4. PlannedAll'
    BY <2>2 DEF ReviewInv, PlannedAll, locals
  <2>5. ReadTruly'
    BY <2>2, HermesReads DEF ReviewInv
  <2>6. ItemsTrue'
    <3>1. ASSUME NEW i, TrueItem(i) PROVE TrueItem(i)'
      BY <2>2, <2>3, <3>1, StillBlockedOnce DEF TInv, TrueItem
    <3> QED
      BY <2>2, <3>1 DEF ReviewInv, ItemsTrue, locals
  <2>7. ReviewsArePending'
    <3> SUFFICES ASSUME NEW e \in processed, e \notin lost,
                        NEW k \in Owed(e)', k \notin outbox
                 PROVE  \E c \in Collectors :
                           e \in hand[c] /\ (InTodo(c, e) \/ k \in Range(plan[c]))
      BY <2>2 DEF ReviewsArePending, InTodo, tables, locals
    <3>1. e \in Events /\ board'[e] = board[e]
      BY <2>2 DEF ReviewInv, ReadTruly
    <3>2. k \in Owed(e)
      BY <2>3, <3>1, OwedOnce DEF TInv
    <3> QED
      BY <3>2 DEF ReviewInv, ReviewsArePending
  <2> QED
    BY <2>4, <2>5, <2>6, <2>7 DEF ReviewInv
<1> QED
  BY <1>1, <1>2

\* For any supervisors, previews, budgets and breaks, and however cards are
\* resumed and blocked again in between: a verdict that was marked has all of
\* its answers in the outbox, and a card that still waits for a review has a
\* reviewer proposed, unless a pass has the event in hand, or broke off with
\* it, or was a preview.
THEOREM ReviewsAreAnsweredHolds == Spec => []ReviewsAreAnswered
<1>1. Init => DoneInv /\ ReviewInv
  BY EmptyRange DEF Init, DoneInv, DoneIsQueued, ReviewInv, PlannedAll,
     ReadTruly, ItemsTrue, ReviewsArePending
<1>2. TInv /\ DoneInv /\ ReviewInv /\ [Next]_vars
        => (TInv /\ DoneInv /\ ReviewInv)'
  BY TypeStep, ShapeStep, DoneStep, ReviewStep DEF TInv
<1>3. ReviewInv => ReviewsAreAnswered
  BY DEF ReviewInv, ReviewsArePending, ReviewsAreAnswered, InHand
<1> QED
  BY <1>1, <1>2, <1>3, InitTInv, PTL DEF Spec

-----------------------------------------------------------------------------
(* Blocks that an agent can resolve.  One that is still there is answered   *)
(* with a comment or a remediation, or the cap is used up.  Until then the  *)
(* pass that marked the event has it in hand.  The cap counts places in the *)
(* plan, and the promise is about keys, so that the remediations of a plan  *)
(* have to be different: no event is planned for twice.                     *)

IsRemedy(k) == k.kind = "create_blocked_remediation"

Addresses(k, e) == k.event = e /\ k.kind \in {"comment", "create_blocked_remediation"}

RemedyOnce(s) ==
    \A j, l \in 1 .. Len(s) :
        IsRemedy(s[j]) /\ IsRemedy(s[l]) /\ s[j].event = s[l].event => j = l

\* No two remediations of a plan are for one event, nor is an event with a
\* remediation still to be planned for.
RemediesOf(c) ==
    /\ RemedyOnce(plan[c])
    /\ \A k \in Range(plan[c]) : IsRemedy(k) =>
          /\ k.event \in processed /\ k.event # 0
          /\ \A i \in Range(todo[c]) : i.event # k.event
    /\ \A i \in Range(todo[c]) : i.event = 0 => i.kind = "stale"

RemedyInv == IsFiniteSet(outbox) /\ \A c \in Collectors : RemediesOf(c)

\* The remediations proposed once a pass has applied its plan.
Remedies(c) == {k \in outbox \cup Range(plan[c]) : IsRemedy(k)}

\* An event that asks for a remediation.
Asks(e) ==
    /\ board[e].kind = "agent-actionable"
    /\ StillBlocked(e)
    /\ board[e].task \notin ForReview \cup Generated

Settled(e) ==
    \/ \E k \in outbox : Addresses(k, e)
    \/ Cardinality({k \in outbox : IsRemedy(k)}) >= MaxPerTick

Owes(c, e) ==
    \/ InTodo(c, e)
    \/ \E k \in Range(plan[c]) : Addresses(k, e)
    \/ Cardinality(Remedies(c)) >= MaxPerTick

BlocksArePending ==
    \A e \in processed : e \notin lost /\ Asks(e) =>
        Settled(e) \/ \E c \in Collectors : e \in hand[c] /\ Owes(c, e)

CapInv == PlannedAll /\ ReadTruly /\ ItemsTrue /\ RemedyInv /\ BlocksArePending

\* Two parts whose remediations are of different events make one such plan.
LEMMA RemedyConcat ==
    ASSUME NEW s \in Seq(Key), NEW t \in Seq(Key), RemedyOnce(s), RemedyOnce(t),
           \A x \in Range(s), y \in Range(t) :
               IsRemedy(x) /\ IsRemedy(y) => x.event # y.event
    PROVE  RemedyOnce(s \o t)
<1> DEFINE u == s \o t
           n == Len(s)
           m == Len(t)
<1>1. /\ n \in Nat /\ m \in Nat /\ Len(u) = n + m
      /\ \A j \in 1 .. n + m : u[j] = IF j <= n THEN s[j] ELSE t[j - n]
  BY ConcatProperties, LenProperties
<1>2. /\ \A j \in 1 .. n : s[j] \in Range(s)
      /\ \A j \in 1 .. m : t[j] \in Range(t)
  BY RangeEquality
<1>3. /\ \A j, l \in 1 .. n :
            IsRemedy(s[j]) /\ IsRemedy(s[l]) /\ s[j].event = s[l].event => j = l
      /\ \A j, l \in 1 .. m :
            IsRemedy(t[j]) /\ IsRemedy(t[l]) /\ t[j].event = t[l].event => j = l
  BY DEF RemedyOnce
<1> HIDE DEF u, n, m
<1>4. SUFFICES ASSUME NEW j \in 1 .. n + m, NEW l \in 1 .. n + m,
                      IsRemedy(u[j]), IsRemedy(u[l]), u[j].event = u[l].event
               PROVE  j = l
  BY <1>1 DEF RemedyOnce, u
<1>5. CASE j <= n /\ l <= n
  <2>1. j \in 1 .. n /\ l \in 1 .. n /\ u[j] = s[j] /\ u[l] = s[l]
    BY <1>1, <1>5
  <2> QED
    BY <1>3, <1>4, <2>1
<1>6. CASE j > n /\ l > n
  <2>1. j - n \in 1 .. m /\ l - n \in 1 .. m /\ u[j] = t[j - n] /\ u[l] = t[l - n]
    BY <1>1, <1>6
  <2>2. j - n = l - n
    BY <1>3, <1>4, <2>1
  <2> QED
    BY <1>1, <2>2
<1>7. CASE j <= n /\ l > n
  <2>1. j \in 1 .. n /\ l - n \in 1 .. m /\ u[j] = s[j] /\ u[l] = t[l - n]
    BY <1>1, <1>7
  <2> QED
    BY <1>2, <1>4, <2>1
<1>8. CASE j > n /\ l <= n
  <2>1. l \in 1 .. n /\ j - n \in 1 .. m /\ u[l] = s[l] /\ u[j] = t[j - n]
    BY <1>1, <1>8
  <2> QED
    BY <1>2, <1>4, <2>1
<1> QED
  BY <1>1, <1>5, <1>6, <1>7, <1>8

\* A plan that loses its first action stays such a plan.
LEMMA RemedyTail ==
    ASSUME NEW s \in Seq(Key), s # <<>>, RemedyOnce(s)
    PROVE  RemedyOnce(Tail(s))
<1>1. /\ Len(s) \in Nat \ {0} /\ Len(Tail(s)) = Len(s) - 1
      /\ \A j \in 1 .. Len(Tail(s)) : Tail(s)[j] = s[j + 1]
  BY EmptySeq, HeadTailProperties
<1>2. \A j \in 1 .. Len(Tail(s)) : j + 1 \in 1 .. Len(s)
  BY <1>1
<1> DEFINE t == Tail(s)
<1> HIDE DEF t
<1>3. SUFFICES ASSUME NEW j \in 1 .. Len(t), NEW l \in 1 .. Len(t),
                      IsRemedy(t[j]), IsRemedy(t[l]), t[j].event = t[l].event
               PROVE  j = l
  BY DEF RemedyOnce, t
<1>4. j + 1 = l + 1
  BY <1>1, <1>2, <1>3 DEF RemedyOnce, t
<1> QED
  BY <1>4

\* A part without remediations, or with nothing but one action.
LEMMA RemedyFree ==
    ASSUME NEW s \in Seq(Key), (\A k \in Range(s) : ~IsRemedy(k)) \/ Len(s) <= 1
    PROVE  RemedyOnce(s)
<1>1. Len(s) \in Nat /\ \A j \in 1 .. Len(s) : s[j] \in Range(s)
  BY RangeEquality, LenProperties
<1> QED
  BY <1>1 DEF RemedyOnce

\* What is planned for one event holds at most one remediation, of the event;
\* for a block that asks for one there is an answer, or the cap is used up.
LEMMA RemediesOfPlan ==
    ASSUME TypeOK, NEW c \in Collectors, NEW i \in Item, NEW p \in Plans(c, i)
    PROVE  /\ RemedyOnce(p)
           /\ \A k \in Range(p) : IsRemedy(k) => k.event = i.event /\ i.kind \in Blocks
           /\ (i.kind = "agent-actionable" /\ i.status = "blocked"
                 /\ i.task \notin ForReview \cup Generated)
                => \/ \E k \in Range(p) : Addresses(k, i.event)
                   \/ ~(Cardinality(Remediations(c)) < MaxPerTick)
<1>1. PICK q \in BlockedRemediation(c, i) :
         p = Subscription(i) \o Continuation(i) \o q \o Review(i) \o Answer(i)
               \o Recovery(i)
  BY DEF Plans
<1> DEFINE com == Action("comment", i, 0)
           rem == Action("create_blocked_remediation", i, 0)
           Free == {k \in Key : ~IsRemedy(k)}
<1>2. /\ com \in Key /\ com.event = i.event /\ ~IsRemedy(com)
      /\ com.kind = "comment"
      /\ rem \in Key /\ rem.event = i.event /\ IsRemedy(rem)
  BY DEF Action, Key, Item, IsRemedy
<1>3. /\ \A kind \in {"ensure_subscription", "notify"} : Action(kind, i, 0) \in Free
      /\ TaskAction("create_reviewer", i.task) \in Free
  BY DEF Action, TaskAction, Key, Item, IsRemedy
<1>4. BoundedRecovery(i) \in Free
  <2>1. /\ i.task \in Tasks
        /\ RecoveryKind(i.event) \in {"stale-running", "worker-failure"}
    BY DEF Item, RecoveryKind
  <2>2. retry[i.task][RecoveryKind(i.event)] \in Nat
    BY <2>1 DEF TypeOK
  <2> HIDE DEF RecoveryKind
  <2> QED
    BY <2>2, PipelineAssumption DEF BoundedRecovery, Action, Key, Item, IsRemedy
<1>5. /\ q \in Seq(Key) /\ Len(q) <= 1
      /\ \/ q = <<>> /\ Range(q) = {}
         \/ q = <<com>> /\ Range(q) = {com}
         \/ q = <<rem>> /\ Range(q) = {rem}
      /\ q = <<rem>> => i.kind \in Blocks
  <2>1. q = <<>> \/ q = <<com>> \/ q = <<rem>>
    BY <1>1 DEF BlockedRemediation
  <2>2. /\ <<com>> \in Seq(Key) /\ Len(<<com>>) = 1 /\ Range(<<com>>) = {com}
        /\ <<rem>> \in Seq(Key) /\ Len(<<rem>>) = 1 /\ Range(<<rem>>) = {rem}
    BY <1>2, OneRange
  <2>3. <<>> \in Seq(Key) /\ Range(<<>>) = {}
    BY EmptyRange, EmptySeq
  <2>4. Len(<<>>) = 0
    OBVIOUS
  <2>5. i.kind \notin Blocks => q = <<>>
    BY <1>1 DEF BlockedRemediation
  <2> HIDE DEF com, rem
  <2>6. q = <<rem>> => i.kind \in Blocks
    BY <2>2, <2>4, <2>5
  <2>7. q \in Seq(Key) /\ Len(q) <= 1
    <3>1. CASE q = <<>>
      BY <2>3, <2>4, <3>1
    <3>2. CASE q = <<com>>
      BY <2>2, <3>2
    <3>3. CASE q = <<rem>>
      BY <2>2, <3>3
    <3> QED
      BY <2>1, <3>1, <3>2, <3>3
  <2>8. \/ q = <<>> /\ Range(q) = {}
        \/ q = <<com>> /\ Range(q) = {com}
        \/ q = <<rem>> /\ Range(q) = {rem}
    BY <2>1, <2>2, <2>3
  <2> QED
    BY <2>6, <2>7, <2>8
<1>6. ASSUME NEW s, NEW x \in Free, s = <<>> \/ s = <<x>>
      PROVE  s \in Seq(Key) /\ Range(s) \subseteq Free
  <2> DEFINE T == {<<>>, <<x>>}
  <2>1. s \in T
    BY <1>6
  <2>2. \A y \in T : y \in Seq(Key) /\ Range(y) \subseteq {x}
    BY OneAction
  <2> HIDE DEF T
  <2>3. s \in Seq(Key) /\ Range(s) \subseteq {x}
    BY <2>1, <2>2
  <2> QED
    BY <2>3
<1> DEFINE a1 == Subscription(i)
           a2 == Continuation(i)
           a4 == Review(i)
           a5 == Answer(i)
           a6 == Recovery(i)
<1>7. /\ a1 \in Seq(Key) /\ Range(a1) \subseteq Free
      /\ a2 \in Seq(Key) /\ Range(a2) \subseteq Free
  BY <1>3, <1>6 DEF Subscription, Continuation
<1>8. /\ a4 \in Seq(Key) /\ Range(a4) \subseteq Free
      /\ a6 \in Seq(Key) /\ Range(a6) \subseteq Free
  BY <1>3, <1>4, <1>6 DEF Review, Recovery
<1>9. a5 \in Seq(Key) /\ Range(a5) \subseteq Free
  <2>1. CASE i.kind \in Verdicts /\ i.task \in Reviewers
    <3>1. i.task \in Tasks /\ Answer(i) = Answers(i.kind, i.task)
      BY <2>1 DEF Answer, Item
    <3>2. Range(Answer(i)) \subseteq Key
      BY <2>1, <3>1, AnswersAreKeys, RangeOfSeq
    <3> QED
      BY <2>1, <3>1, <3>2, AnswersAreKeys DEF IsRemedy
  <2>2. CASE ~ (i.kind \in Verdicts /\ i.task \in Reviewers)
    BY <2>2, EmptyRange, EmptySeq DEF Answer
  <2> QED
    BY <2>1, <2>2
<1> HIDE DEF a1, a2, a4, a5, a6, com, rem
<1>10. p = a1 \o a2 \o q \o a4 \o a5 \o a6
  BY <1>1 DEF a1, a2, a4, a5, a6
<1>11. /\ RemedyOnce(p)
       /\ Range(q) \subseteq Range(p)
       /\ Range(p) \subseteq Free \cup Range(q)
  <2>1. /\ RemedyOnce(a1) /\ RemedyOnce(a2) /\ RemedyOnce(q)
        /\ RemedyOnce(a4) /\ RemedyOnce(a5) /\ RemedyOnce(a6)
    BY <1>5, <1>7, <1>8, <1>9, RemedyFree
  <2>2. ASSUME NEW s \in Seq(Key), NEW t \in Seq(Key), RemedyOnce(s), RemedyOnce(t),
               Range(s) \subseteq Free \/ Range(t) \subseteq Free
        PROVE  s \o t \in Seq(Key) /\ RemedyOnce(s \o t)
                 /\ Range(s \o t) = Range(s) \cup Range(t)
    BY <2>2, RemedyConcat, PartsOfPlan
  <2> HIDE DEF Free
  <2> DEFINE b2 == a1 \o a2
             b3 == b2 \o q
             b4 == b3 \o a4
             b5 == b4 \o a5
             b6 == b5 \o a6
  <2>3. b2 \in Seq(Key) /\ RemedyOnce(b2) /\ Range(b2) = Range(a1) \cup Range(a2)
    BY <1>7, <2>1, <2>2
  <2>4. Range(b2) \subseteq Free
    BY <1>7, <2>3
  <2> HIDE DEF b2
  <2>5. b3 \in Seq(Key) /\ RemedyOnce(b3) /\ Range(b3) = Range(b2) \cup Range(q)
    BY <1>5, <2>1, <2>2, <2>3, <2>4
  <2> HIDE DEF b3
  <2>6. b4 \in Seq(Key) /\ RemedyOnce(b4) /\ Range(b4) = Range(b3) \cup Range(a4)
    BY <1>8, <2>1, <2>2, <2>5
  <2> HIDE DEF b4
  <2>7. b5 \in Seq(Key) /\ RemedyOnce(b5) /\ Range(b5) = Range(b4) \cup Range(a5)
    BY <1>9, <2>1, <2>2, <2>6
  <2> HIDE DEF b5
  <2>8. RemedyOnce(b6) /\ Range(b6) = Range(b5) \cup Range(a6)
    BY <1>8, <2>1, <2>2, <2>7
  <2> HIDE DEF b6
  <2>9. Range(b6) \subseteq Free \cup Range(q) /\ Range(q) \subseteq Range(b6)
    BY <1>7, <1>8, <1>9, <2>4, <2>5, <2>6, <2>7, <2>8
  <2> QED
    BY <1>10, <2>8, <2>9 DEF b6, b5, b4, b3, b2
<1>12. ASSUME NEW k \in Range(p), IsRemedy(k) PROVE k = rem /\ i.kind \in Blocks
  BY <1>2, <1>5, <1>11, <1>12
<1>14. ASSUME i.kind = "agent-actionable", i.status = "blocked",
              i.task \notin ForReview \cup Generated,
              Cardinality(Remediations(c)) < MaxPerTick
       PROVE  \E k \in Range(p) : Addresses(k, i.event)
  <2>1. q = <<com>> \/ q = <<rem>>
    BY <1>1, <1>14 DEF BlockedRemediation, ReviewRequired, Blocks, com, rem
  <2>2. com \in Range(q) \/ rem \in Range(q)
    BY <1>2, <2>1, OneRange
  <2> QED
    BY <1>2, <1>11, <2>2 DEF Addresses, IsRemedy
<1> QED
  BY <1>2, <1>11, <1>12, <1>14

\* What a step that plans nothing does to a plan.
LEMMA PlanShrinks ==
    ASSUME TInv, NEW c \in Collectors, Step(c), ~PlanNext(c)
    PROVE  \/ plan'[c] = plan[c]
           \/ plan'[c] = <<>>
           \/ plan[c] # <<>> /\ plan'[c] = Tail(plan[c])
<1> USE DEF TInv
<1>1. CASE Duplicate(c) \/ MarkDone(c)
  BY <1>1 DEF Duplicate, MarkDone, Shape, TypeOK
<1>2. CASE PlanEnds(c) \/ EndPass(c) \/ BreakOff(c)
  BY <1>2 DEF PlanEnds, EndPass, BreakOff, Leave, TypeOK
<1>3. CASE Begin(c) \/ ReadEvents(c) \/ MarkProcessed(c) \/ SetCursor(c)
  BY <1>3 DEF Begin, ReadEvents, MarkProcessed, SetCursor
<1>4. CASE StartAction(c) \/ BumpRetry(c) \/ Queue(c) \/ AnalyzeHealth(c)
  BY <1>4 DEF StartAction, BumpRetry, Queue, AnalyzeHealth, tables
<1> QED
  BY <1>1, <1>2, <1>3, <1>4 DEF Step, Pass

\* A plan that only loses actions keeps its remediations different, and the
\* event a pass takes on has none yet.
LEMMA RemedyWhenQuiet ==
    ASSUME TInv, ReadTruly, RemedyInv, NEW c \in Collectors, Step(c), ~PlanNext(c)
    PROVE  RemediesOf(c)'
<1> USE DEF TInv
<1>1. /\ plan[c] \in Seq(Key) /\ todo[c] \in Seq(Item) /\ RemediesOf(c)
      /\ processed \subseteq processed'
  BY StepFrame DEF TypeOK, RemedyInv
<1>2. RemedyOnce(plan'[c]) /\ Range(plan'[c]) \subseteq Range(plan[c])
  <2>1. CASE plan'[c] = plan[c]
    BY <1>1, <2>1 DEF RemediesOf
  <2>2. CASE plan'[c] = <<>>
    <3>1. plan'[c] \in Seq(Key) /\ Range(plan'[c]) = {}
      BY <2>2, EmptyRange, EmptySeq
    <3> QED
      BY <3>1, RemedyFree
  <2>3. CASE plan[c] # <<>> /\ plan'[c] = Tail(plan[c])
    BY <1>1, <2>3, RemedyTail, HeadTailRange DEF RemediesOf
  <2> QED
    BY <2>1, <2>2, <2>3, PlanShrinks
<1>3. CASE todo'[c] = todo[c]
  BY <1>1, <1>2, <1>3 DEF RemediesOf
<1>4. CASE \A j \in 1 .. Len(todo'[c]) :
              todo'[c][j].event = 0 /\ todo'[c][j].kind = "stale"
  <2>1. todo'[c] \in Seq(Item)
    BY TypeStep DEF TypeOK, Next, Step
  <2>2. \A i \in Range(todo'[c]) : i.event = 0 /\ i.kind = "stale"
    BY <1>4, <2>1, RangeEquality
  <2> QED
    BY <1>1, <1>2, <2>2 DEF RemediesOf
<1>5. CASE /\ MarkProcessed(c)
           /\ Head(batch[c]) \in Item
           /\ Head(batch[c]).event \notin processed
           /\ todo'[c] = Append(todo[c], Head(batch[c]))
  <2>1. Range(todo'[c]) = Range(todo[c]) \cup {Head(batch[c])}
    BY <1>1, <1>5, AppendRange
  <2>2. Head(batch[c]).event # 0
    BY <1>5, MarkedTruly DEF Events
  <2> QED
    BY <1>1, <1>2, <1>5, <2>1, <2>2 DEF RemediesOf
<1> QED
  BY <1>3, <1>4, <1>5, TodoSteps

\* Planning for an event adds at most one remediation, the first of the event,
\* and the event is not planned for again.
LEMMA RemedyWhenPlanning ==
    ASSUME TInv, OnceInv, RemedyInv, NEW c \in Collectors, PlanNext(c)
    PROVE  RemediesOf(c)'
<1> DEFINE i == Head(todo[c])
<1> USE DEF TInv
<1>1. /\ todo[c] \in Seq(Item) /\ todo[c] # <<>> /\ i \in Item
      /\ todo'[c] = Tail(todo[c]) /\ processed' = processed
      /\ Range(todo[c]) = {i} \cup Range(todo'[c])
      /\ plan[c] \in Seq(Key) /\ RemediesOf(c)
  BY HeadTailRange DEF PlanNext, tables, TypeOK, RemedyInv
<1>2. PICK p \in Plans(c, i) : plan'[c] = plan[c] \o p
  BY DEF PlanNext, TypeOK
<1>3. /\ p \in Seq(Key) /\ RemedyOnce(p)
      /\ \A k \in Range(p) : IsRemedy(k) => k.event = i.event /\ i.kind \in Blocks
  BY <1>1, PlanProperties, RemediesOfPlan
<1>4. i.event = 0 => \A k \in Range(p) : ~IsRemedy(k)
  BY <1>1, <1>3 DEF RemediesOf, Blocks
<1>5. Range(plan'[c]) = Range(plan[c]) \cup Range(p)
  BY <1>1, <1>2, <1>3, RangeConcatenation
<1>6. \A k \in Range(plan[c]) : IsRemedy(k) => k.event # i.event
  BY <1>1 DEF RemediesOf
<1>7. RemedyOnce(plan'[c])
  BY <1>1, <1>2, <1>3, <1>6, RemedyConcat DEF RemediesOf
<1>8. i.event # 0 =>
        i.event \in processed /\ \A d \in Range(todo'[c]) : d.event # i.event
  <2>1. /\ Len(todo[c]) \in Nat \ {0} /\ i = todo[c][1]
        /\ todo'[c] \in Seq(Item)
        /\ Len(todo'[c]) = Len(todo[c]) - 1
        /\ \A j \in 1 .. Len(todo'[c]) : todo'[c][j] = todo[c][j + 1]
    <3>1. Len(todo[c]) \in Nat \ {0} /\ i = todo[c][1]
      BY <1>1, EmptySeq
    <3> QED
      BY <1>1, <3>1, HeadTailProperties
  <2>2. 1 \in 1 .. Len(todo[c])
    BY <2>1
  <2>3. i.event # 0 =>
          /\ i.event \in processed
          /\ \A l \in 1 .. Len(todo[c]) : todo[c][l].event = i.event => l = 1
    BY <2>1, <2>2 DEF OnceInv, Unasked
  <2>4. ASSUME i.event # 0, NEW d \in Range(todo'[c]) PROVE d.event # i.event
    <3>1. PICK j \in 1 .. Len(todo'[c]) : d = todo'[c][j]
      BY <2>1, <2>4, RangeEquality
    <3>2. j + 1 \in 1 .. Len(todo[c]) /\ j + 1 # 1 /\ d = todo[c][j + 1]
      BY <2>1, <3>1
    <3> QED
      BY <2>3, <2>4, <3>2
  <2> QED
    BY <2>3, <2>4
<1> HIDE DEF i
<1>9. ASSUME NEW k \in Range(plan'[c]), IsRemedy(k)
      PROVE  /\ k.event \in processed' /\ k.event # 0
             /\ \A d \in Range(todo'[c]) : d.event # k.event
  <2>1. CASE k \in Range(plan[c])
    BY <1>1, <1>9, <2>1 DEF RemediesOf
  <2>2. CASE k \in Range(p)
    BY <1>1, <1>3, <1>4, <1>8, <1>9, <2>2
  <2> QED
    BY <1>5, <1>9, <2>1, <2>2
<1> QED
  BY <1>1, <1>7, <1>9 DEF RemediesOf

\* Every step of a pass keeps the remediations of every plan different.
LEMMA RemedyStep ==
    ASSUME TInv, OnceInv, ReadTruly, RemedyInv, NEW c \in Collectors, Step(c)
    PROVE  RemedyInv'
<1>1. IsFiniteSet(outbox')
  <2>1. outbox' = outbox \/ outbox' = outbox \cup {Head(plan[c])}
    BY PlanSteps DEF TInv
  <2>2. IsFiniteSet(outbox \cup {Head(plan[c])})
    BY FS_AddElement DEF RemedyInv
  <2> QED
    BY <2>1, <2>2 DEF RemedyInv
<1>2. RemediesOf(c)'
  <2>1. CASE PlanNext(c)
    BY <2>1, RemedyWhenPlanning
  <2>2. CASE ~PlanNext(c)
    BY <2>2, RemedyWhenQuiet
  <2> QED
    BY <2>1, <2>2
<1>3. ASSUME NEW d \in Collectors, d # c PROVE RemediesOf(d)'
  <2>1. /\ todo'[d] = todo[d] /\ plan'[d] = plan[d]
        /\ processed \subseteq processed' /\ RemediesOf(d)
    BY <1>3, StepFrame DEF RemedyInv, TInv
  <2> QED
    BY <2>1 DEF RemediesOf
<1> QED
  BY <1>1, <1>2, <1>3 DEF RemedyInv

\* A sequence has finitely many elements.
LEMMA FiniteRange ==
    ASSUME NEW S, NEW s \in Seq(S)
    PROVE  IsFiniteSet(Range(s))
<1> DEFINE n == Len(s)
<1>1. /\ n \in Nat
      /\ \A j \in 1 .. n : s[j] \in Range(s)
      /\ \A k \in Range(s) : \E j \in 1 .. n : s[j] = k
  BY RangeEquality, LenProperties
<1>2. IsFiniteSet(1 .. n)
  BY <1>1, FS_Interval
<1>3. [j \in 1 .. n |-> s[j]] \in Surjection(1 .. n, Range(s))
  BY <1>1 DEF Surjection
<1> QED
  BY <1>2, <1>3, FS_Surjection

\* The places that the cap counts are different proposals.
LEMMA RemediesCounted ==
    ASSUME TypeOK, RemedyInv, NEW c \in Collectors
    PROVE  /\ IsFiniteSet(Remedies(c)) /\ Cardinality(Remedies(c)) \in Nat
           /\ Cardinality(Remediations(c)) \in Nat
           /\ Cardinality(Remediations(c)) <= Cardinality(Remedies(c))
<1> DEFINE s == plan[c]
           n == Len(s)
           f == [j \in Remediations(c) |-> s[j]]
<1>0. s \in Seq(Key) /\ Remediations(c) = {j \in 1 .. n : IsRemedy(s[j])}
  BY DEF TypeOK, Remediations, IsRemedy
<1>1. /\ n \in Nat
      /\ \A j \in 1 .. n : s[j] \in Range(s)
      /\ \A k \in Range(s) : \E j \in 1 .. n : s[j] = k
  <2> HIDE DEF s
  <2>1. Range(s) = {s[j] : j \in 1 .. n}
    BY <1>0, RangeEquality
  <2> QED
    BY <1>0, <2>1, LenProperties
<1>2. IsFiniteSet(1 .. n)
  BY <1>1, FS_Interval
<1>3. IsFiniteSet(Range(s))
  BY <1>0, FiniteRange
<1>4. IsFiniteSet(outbox \cup Range(s))
  BY <1>3, FS_Union DEF RemedyInv
<1>5. IsFiniteSet(Remedies(c)) /\ Cardinality(Remedies(c)) \in Nat
  <2>1. Remedies(c) \in SUBSET (outbox \cup Range(s))
    BY DEF Remedies
  <2> QED
    BY <1>4, <2>1, FS_Subset, FS_CardinalityType
<1>6. IsFiniteSet(Remediations(c)) /\ Cardinality(Remediations(c)) \in Nat
  <2>1. Remediations(c) \in SUBSET (1 .. n)
    BY <1>0
  <2> QED
    BY <1>2, <2>1, FS_Subset, FS_CardinalityType
<1>7. f \in [Remediations(c) -> Remedies(c)]
  BY <1>0, <1>1 DEF Remedies
<1>8. \A j, l \in Remediations(c) : f[j] = f[l] => j = l
  BY <1>0, <1>1 DEF RemedyInv, RemediesOf, RemedyOnce
<1> HIDE DEF f
<1>9. ~(Cardinality(Remedies(c)) < Cardinality(Remediations(c)))
  BY <1>5, <1>6, <1>7, <1>8, FS_PigeonHole
<1> QED
  BY <1>5, <1>6, <1>9

\* Proposals that are in the outbox or planned stay so until the pass leaves.
LEMMA CapStays ==
    ASSUME NEW S, NEW T, IsFiniteSet(T), S \subseteq T,
           Cardinality(S) >= MaxPerTick
    PROVE  Cardinality(T) >= MaxPerTick
<1>1. S \in SUBSET T
  OBVIOUS
<1>2. IsFiniteSet(S) /\ Cardinality(S) <= Cardinality(T)
  BY <1>1, FS_Subset
<1>3. Cardinality(S) \in Nat /\ Cardinality(T) \in Nat
  BY <1>2, FS_CardinalityType
<1> QED
  BY <1>2, <1>3, PipelineAssumption

\* What a pass has to do for a block it has in hand stays with it, or the
\* pass breaks off, or the block is answered or the cap used up.
LEMMA OwesStep ==
    ASSUME TInv, DoneInv, CapInv, NEW c \in Collectors, Step(c), RemedyInv',
           NEW e \in Events, e \in hand[c], e \notin lost', Asks(e), Owes(c, e)
    PROVE  Settled(e)' \/ (e \in hand'[c] /\ Owes(c, e)')
<1>0. /\ batch[c] \in Seq(Item) /\ todo[c] \in Seq(Item) /\ plan[c] \in Seq(Key)
      /\ plan'[c] \in Seq(Key) /\ outbox \subseteq outbox'
  BY TypeStep, StepFrame DEF TInv, TypeOK, Next, Step
<1>1. IsFiniteSet(Remedies(c)')
  <2>1. IsFiniteSet(outbox') /\ IsFiniteSet(Range(plan'[c]))
    BY <1>0, FiniteRange DEF RemedyInv
  <2>2. IsFiniteSet(outbox' \cup Range(plan'[c]))
    BY <2>1, FS_Union
  <2>3. Remedies(c)' \in SUBSET (outbox' \cup Range(plan'[c]))
    BY DEF Remedies
  <2> QED
    BY <2>2, <2>3, FS_Subset
\* A plan that keeps its actions until they are queued.
<1>2. ASSUME /\ e \in hand'[c]
             /\ InTodo(c, e) => InTodo(c, e)'
             /\ Range(plan[c]) \subseteq Range(plan'[c]) \cup outbox'
                  \cup {k \in Key : k.kind = "ensure_subscription"}
      PROVE  Settled(e)' \/ (e \in hand'[c] /\ Owes(c, e)')
  <2>1. CASE InTodo(c, e)
    BY <1>2, <2>1 DEF Owes
  <2>2. CASE \E k \in Range(plan[c]) : Addresses(k, e)
    <3>1. PICK k \in Range(plan[c]) : Addresses(k, e)
      BY <2>2
    <3>2. k \in Range(plan'[c]) \/ k \in outbox'
      BY <1>2, <3>1 DEF Addresses
    <3> QED
      BY <1>2, <3>1, <3>2 DEF Settled, Owes, Addresses
  <2>3. CASE Cardinality(Remedies(c)) >= MaxPerTick
    <3>1. Remedies(c) \subseteq Remedies(c)'
      BY <1>0, <1>2 DEF Remedies, IsRemedy
    <3> QED
      BY <1>1, <1>2, <2>3, <3>1, CapStays DEF Owes
  <2> QED
    BY <2>1, <2>2, <2>3 DEF Owes
<1>3. CASE MarkProcessed(c)
  <2>1. /\ e \in hand'[c] /\ plan' = plan
        /\ todo'[c] \in {todo[c], Append(todo[c], Head(batch[c]))}
    BY <1>3 DEF MarkProcessed, TInv, TypeOK
  <2>2. Head(batch[c]) \in Item
    BY <1>0, <1>3, HeadTailRange DEF MarkProcessed, TInv, Shape
  <2>3. Range(todo[c]) \subseteq Range(todo'[c])
    <3>1. Range(Append(todo[c], Head(batch[c]))) = Range(todo[c]) \cup {Head(batch[c])}
      BY <1>0, <2>2, AppendRange
    <3>2. CASE todo'[c] = todo[c]
      BY <3>2
    <3>3. CASE todo'[c] = Append(todo[c], Head(batch[c]))
      BY <3>1, <3>3
    <3> QED
      BY <2>1, <3>2, <3>3
  <2> QED
    BY <1>2, <2>1, <2>3 DEF InTodo
<1>4. CASE PlanNext(c)
  <2> DEFINE i == Head(todo[c])
  <2>1. /\ todo[c] # <<>> /\ i \in Item /\ todo'[c] = Tail(todo[c])
        /\ hand' = hand /\ Range(todo[c]) = {i} \cup Range(Tail(todo[c]))
    BY <1>0, <1>4, HeadTailRange DEF PlanNext, TInv, TypeOK
  <2>2. PICK p \in Plans(c, i) : plan'[c] = plan[c] \o p
    BY <1>4 DEF PlanNext, TInv, TypeOK
  <2>3. Range(plan'[c]) = Range(plan[c]) \cup Range(p)
    BY <1>0, <2>1, <2>2, PlanProperties, RangeConcatenation DEF TInv
  <2>4. CASE i.event # e
    <3>1. InTodo(c, e) => InTodo(c, e)'
      BY <2>1, <2>4 DEF InTodo
    <3> HIDE DEF i
    <3> QED
      BY <1>2, <2>1, <2>3, <3>1
  <2>5. CASE i.event = e
    <3>1. i.kind = "agent-actionable" /\ i.status = "blocked" /\ i.task \notin ForReview \cup Generated
      <4>1. TrueItem(i) /\ e # 0
        BY <2>1 DEF CapInv, ItemsTrue, Events
      <4> QED
        BY <2>5, <4>1 DEF TrueItem, Asks
    <3>2. \/ \E k \in Range(p) : Addresses(k, e)
          \/ ~(Cardinality(Remediations(c)) < MaxPerTick)
      BY <2>1, <2>2, <2>5, <3>1, RemediesOfPlan DEF TInv
    <3>3. CASE \E k \in Range(p) : Addresses(k, e)
      <4>1. PICK k \in Range(p) : Addresses(k, e)
        BY <3>3
      <4>2. k \in Range(plan'[c]) /\ Addresses(k, e)'
        BY <2>3, <4>1 DEF Addresses
      <4> QED
        BY <2>1, <4>2 DEF Owes, Addresses
    <3>4. CASE ~(Cardinality(Remediations(c)) < MaxPerTick)
      <4>1. Cardinality(Remedies(c)) >= MaxPerTick
        BY <3>4, RemediesCounted, PipelineAssumption DEF CapInv, TInv
      <4>2. Remedies(c) \subseteq Remedies(c)'
        BY <1>0, <2>3 DEF Remedies, IsRemedy
      <4> QED
        BY <1>1, <2>1, <4>1, <4>2, CapStays DEF Owes
    <3> QED
      BY <3>2, <3>3, <3>4
  <2> QED
    BY <2>4, <2>5
<1>5. CASE PlanEnds(c)
  <2>1. c \notin Previews
    BY <1>5 DEF PlanEnds
  <2> QED
    BY <1>2, <1>5, <2>1 DEF PlanEnds, InTodo
\* An action is dropped from the plan when it is done, and then it is queued.
<1>6. CASE Duplicate(c) \/ MarkDone(c)
  <2>1. /\ plan[c] # <<>> /\ plan'[c] = Tail(plan[c])
        /\ todo' = todo /\ hand' = hand /\ outbox' = outbox
    BY <1>6 DEF Duplicate, MarkDone, TInv, Shape, TypeOK, tables
  <2>2. Queued(Head(plan[c]))
    BY <1>6 DEF Duplicate, MarkDone, DoneInv, DoneIsQueued, Queued, Needless
  <2>3. /\ Head(plan[c]) \in Key
        /\ Range(plan[c]) = {Head(plan[c])} \cup Range(plan'[c])
    BY <1>0, <2>1, HeadTailRange
  <2>4. Head(plan[c]) \in outbox' \/ Head(plan[c]).kind = "ensure_subscription"
    BY <2>1, <2>2 DEF Queued, Needless
  <2> QED
    BY <1>2, <2>1, <2>3, <2>4 DEF InTodo
<1>7. CASE AnalyzeHealth(c) \/ EndPass(c)
  <2>1. /\ plan[c] = <<>> /\ todo[c] = <<>> /\ outbox' = outbox
    BY <1>7 DEF AnalyzeHealth, EndPass, CapInv, PlannedAll, tables
  <2>2. Cardinality(Remedies(c)) >= MaxPerTick
    BY <2>1, EmptyRange DEF InTodo, Owes
  <2>3. Remedies(c) = {k \in outbox' : IsRemedy(k)}
    BY <2>1, EmptyRange DEF Remedies
  <2> QED
    BY <2>2, <2>3 DEF Settled, IsRemedy
<1>8. CASE BreakOff(c)
  BY <1>8 DEF BreakOff
<1>9. CASE Begin(c) \/ ReadEvents(c) \/ SetCursor(c)
  BY <1>2, <1>9 DEF Begin, ReadEvents, SetCursor, InTodo
<1>10. CASE StartAction(c) \/ BumpRetry(c) \/ Queue(c)
  BY <1>2, <1>10 DEF StartAction, BumpRetry, Queue, InTodo
<1> QED
  BY <1>3, <1>4, <1>5, <1>6, <1>7, <1>8, <1>9, <1>10 DEF Step, Pass

\* What is settled stays settled.
LEMMA SettledStays ==
    ASSUME RemedyInv', outbox \subseteq outbox', NEW e, Settled(e)
    PROVE  Settled(e)'
<1> DEFINE S == {k \in outbox : IsRemedy(k)}
           T == {k \in outbox' : IsRemedy(k)}
<1>1. CASE \E k \in outbox : Addresses(k, e)
  BY <1>1 DEF Settled, Addresses
<1>2. CASE Cardinality(S) >= MaxPerTick
  <2>1. T \in SUBSET outbox' /\ S \subseteq T
    OBVIOUS
  <2>2. IsFiniteSet(T)
    BY <2>1, FS_Subset DEF RemedyInv
  <2>3. Cardinality(T) >= MaxPerTick
    BY <1>2, <2>1, <2>2, CapStays
  <2> QED
    BY <2>3 DEF Settled, IsRemedy
<1> QED
  BY <1>1, <1>2 DEF Settled

\* Every step of a pass keeps the marked blocks answered or owed an answer.
LEMMA BlocksStep ==
    ASSUME TInv, DoneInv, OnceInv, CapInv, NEW c \in Collectors, Step(c)
    PROVE  BlocksArePending'
<1>0. /\ board' = board /\ status' = status
      /\ outbox \subseteq outbox' /\ lost \subseteq lost'
      /\ RemedyInv'
  BY StepFrame, RemedyStep DEF TInv, CapInv
<1> SUFFICES ASSUME NEW e \in processed', e \notin lost', Asks(e)
             PROVE  Settled(e)' \/ (\E d \in Collectors : e \in hand'[d] /\ Owes(d, e)')
  <2>1. \A e : Asks(e)' = Asks(e)
    BY <1>0 DEF Asks, StillBlocked, Events
  <2> QED
    BY <2>1 DEF BlocksArePending
<1>1. CASE e \in processed
  <2>1. e \in Events
    BY <1>1 DEF CapInv, ReadTruly
  <2>2. CASE Settled(e)
    BY <1>0, <2>2, SettledStays
  <2>3. CASE ~Settled(e)
    <3>1. PICK d \in Collectors : e \in hand[d] /\ Owes(d, e)
      BY <1>0, <1>1, <2>3 DEF CapInv, BlocksArePending
    <3>2. CASE d = c
      BY <1>0, <2>1, <3>1, <3>2, OwesStep
    <3>3. CASE d # c
      <4>1. /\ hand'[d] = hand[d] /\ todo'[d] = todo[d] /\ plan'[d] = plan[d]
        BY <3>3, StepFrame DEF TInv
      <4>2. CASE Cardinality(Remedies(d)) >= MaxPerTick
        <5>1. Remedies(d) \subseteq Remedies(d)'
          BY <1>0, <4>1 DEF Remedies, IsRemedy
        <5>2. IsFiniteSet(Remedies(d)')
          <6>1. plan[d] \in Seq(Key)
            BY DEF TInv, TypeOK
          <6>2. IsFiniteSet(outbox') /\ IsFiniteSet(Range(plan[d]))
            BY <1>0, <6>1, FiniteRange DEF RemedyInv
          <6>3. IsFiniteSet(outbox' \cup Range(plan[d]))
            BY <6>2, FS_Union
          <6>4. Remedies(d)' \in SUBSET (outbox' \cup Range(plan[d]))
            BY <4>1 DEF Remedies
          <6> QED
            BY <6>3, <6>4, FS_Subset
        <5>3. Cardinality(Remedies(d)') >= MaxPerTick
          BY <4>2, <5>1, <5>2, CapStays
        <5> QED
          BY <3>1, <4>1, <5>3 DEF Owes
      <4>3. CASE InTodo(d, e) \/ \E k \in Range(plan[d]) : Addresses(k, e)
        BY <3>1, <4>1, <4>3 DEF Owes, InTodo, Addresses
      <4> QED
        BY <3>1, <4>2, <4>3 DEF Owes
    <3> QED
      BY <3>2, <3>3
  <2> QED
    BY <2>2, <2>3
<1>2. CASE e \notin processed
  <2>1. MarkProcessed(c)
    BY <1>2 DEF Step, Pass, Begin, ReadEvents, SetCursor, PlanNext, PlanEnds,
       Duplicate, StartAction, BumpRetry, Queue, MarkDone, AnalyzeHealth,
       EndPass, BreakOff, tables
  <2> DEFINE i == Head(batch[c])
  <2>2. i \in Item /\ i.event = e
    BY <1>2, <2>1, MarkedTruly DEF MarkProcessed, CapInv
  <2>3. e \in hand'[c] /\ todo'[c] = Append(todo[c], i)
    BY <1>2, <2>1, <2>2 DEF MarkProcessed, Inserts, TInv, TypeOK
  <2> HIDE DEF i
  <2>4. i \in Range(todo'[c])
    BY <2>2, <2>3, AppendRange DEF TInv, TypeOK
  <2> QED
    BY <2>2, <2>3, <2>4 DEF InTodo, Owes
<1> QED
  BY <1>1, <1>2

\* Every step keeps the marked blocks answered or owed an answer.
LEMMA CapStep == TInv /\ DoneInv /\ OnceInv /\ CapInv /\ [Next]_vars => CapInv'
<1> SUFFICES ASSUME TInv, DoneInv, OnceInv, CapInv, [Next]_vars PROVE CapInv'
  OBVIOUS
<1>1. CASE \E c \in Collectors : Step(c)
  BY <1>1, PlannedAllStep, ReadTrulyStep, ItemsStep, RemedyStep, BlocksStep
  DEF CapInv
<1>2. CASE ~ \E c \in Collectors : Step(c)
  <2>1. \/ UNCHANGED vars
        \/ \E t \in Tasks :
              Resume(t) \/ \E kind \in Occurring : WorkerStops(t, kind)
    BY <1>2 DEF Next, Step
  <2>2. /\ UNCHANGED <<tables, locals, lost, faults>>
        /\ Len(board) \in Nat /\ Len(board') \in Nat /\ Len(board) <= Len(board')
        /\ \A e \in Events : e \in Events' /\ board'[e] = board[e]
    BY <2>1, HermesFrame DEF TInv, Events
  <2>3. \/ board' = board /\ status' = status
        \/ \E t \in Tasks :
              Resume(t) \/ \E kind \in Occurring : WorkerStops(t, kind)
    BY <2>1 DEF vars
  <2>4. PlannedAll'
    BY <2>2 DEF CapInv, PlannedAll, locals
  <2>5. ReadTruly'
    BY <2>2, HermesReads DEF CapInv
  <2>6. ItemsTrue'
    <3>1. ASSUME NEW i, TrueItem(i) PROVE TrueItem(i)'
      BY <2>2, <2>3, <3>1, StillBlockedOnce DEF TInv, TrueItem
    <3> QED
      BY <2>2, <3>1 DEF CapInv, ItemsTrue, locals
  <2>7. RemedyInv'
    BY <2>2 DEF CapInv, RemedyInv, RemediesOf, tables, locals
  <2>8. BlocksArePending'
    <3>1. \A e : Settled(e)' = Settled(e)
      BY <2>2 DEF Settled, tables
    <3>2. \A c, e : Owes(c, e)' = Owes(c, e)
      BY <2>2 DEF Owes, InTodo, Remedies, tables, locals
    <3>3. ASSUME NEW e \in Events, Asks(e)' PROVE Asks(e)
      BY <2>2, <2>3, <3>3, StillBlockedOnce DEF Asks, TInv
    <3>4. processed \subseteq Events
      BY DEF CapInv, ReadTruly
    <3> QED
      BY <2>2, <3>1, <3>2, <3>3, <3>4
      DEF CapInv, BlocksArePending, tables, locals
  <2> QED
    BY <2>4, <2>5, <2>6, <2>7, <2>8 DEF CapInv
<1> QED
  BY <1>1, <1>2

\* For any supervisors, previews, caps and breaks, and however cards are
\* resumed and blocked again in between: a block that an agent can resolve and
\* that is still there has a comment or a remediation in the outbox, or as
\* many remediations as the cap allows are there, unless a pass has the event
\* in hand, or broke off with it, or was a preview.
THEOREM RemediationsUpToTheCapHolds == Spec => []RemediationsUpToTheCap
<1>1. Init => DoneInv /\ OnceInv /\ CapInv
  BY EmptyRange, EmptySeq, FS_EmptySet
  DEF Init, DoneInv, DoneIsQueued, OnceInv, AskedOnce, Unasked, Asked, CapInv,
      PlannedAll, ReadTruly, ItemsTrue, RemedyInv, RemediesOf, RemedyOnce,
      BlocksArePending
<1>2. TInv /\ DoneInv /\ OnceInv /\ CapInv /\ [Next]_vars
        => (TInv /\ DoneInv /\ OnceInv /\ CapInv)'
  BY TypeStep, ShapeStep, DoneStep, OnceStep, CapStep DEF TInv
<1>3. CapInv => RemediationsUpToTheCap
  BY DEF CapInv, BlocksArePending, Asks, Settled, Addresses, IsRemedy,
         RemediationsUpToTheCap, InHand
<1> QED
  BY <1>1, <1>2, <1>3, InitTInv, PTL DEF Spec

-----------------------------------------------------------------------------
(* Retries are paid for.  Passes that apply take turns, so that nothing     *)
(* else is queued between the count of a retry and its row in the outbox.   *)

TakeTurns ==
    \A c, d \in Collectors \ Previews : pc[c] # "idle" /\ pc[d] # "idle" => c = d

PreviewsApplyNothing ==
    \A c \in Previews :
        /\ pc[c] \notin {"bump", "queue", "finish"}
        /\ pc[c] = "apply" => plan[c] = <<>>

\* What is in the outbox, and what is counted but not queued yet.
CountedAhead ==
    \A c \in Collectors :
        LET k == Head(plan[c])
            r == RecoveryKind(k.event)
        IN  (pc[c] = "queue" /\ k.kind = "retry")
                => Cardinality(Retries(k.task, r)) + 1 <= retry[k.task][r]

PaidInv ==
    /\ TakeTurns
    /\ PreviewsApplyNothing
    /\ IsFiniteSet(outbox)
    /\ RetriesArePaid
    /\ CountedAhead

\* Passes take turns.
LEMMA TurnsStep ==
    ASSUME TInv, TakeTurns, PreviewsApplyNothing, NEW c \in Collectors, Step(c)
    PROVE  TakeTurns' /\ PreviewsApplyNothing'
<1> USE DEF TInv
<1>1. TakeTurns'
  <2>1. pc[c] = "idle" => Begin(c)
    BY DEF Step, Pass, ReadEvents, MarkProcessed, SetCursor, PlanNext,
       PlanEnds, Duplicate, StartAction, BumpRetry, Queue, MarkDone,
       AnalyzeHealth, EndPass, BreakOff
  <2>2. CASE Begin(c)
    BY <2>2, StepFrame DEF Begin, TakeTurns
  <2>3. CASE pc[c] # "idle"
    BY <2>3, StepFrame DEF TakeTurns
  <2> QED
    BY <2>1, <2>2, <2>3
<1>2. ASSUME c \in Previews =>
                /\ pc'[c] \notin {"bump", "queue", "finish"}
                /\ pc'[c] = "apply" => plan'[c] = <<>>
      PROVE  PreviewsApplyNothing'
  BY <1>2, StepFrame, PipelineAssumption DEF PreviewsApplyNothing
<1>3. PreviewsApplyNothing'
  <2> USE DEF GoTo, PreviewsApplyNothing, TypeOK
  <2>1. CASE Begin(c) \/ ReadEvents(c) \/ MarkProcessed(c) \/ SetCursor(c)
    BY <1>2, <2>1 DEF Begin, ReadEvents, MarkProcessed, SetCursor
  <2>2. CASE PlanNext(c) \/ PlanEnds(c) \/ AnalyzeHealth(c)
    BY <1>2, <2>2 DEF PlanNext, PlanEnds, AnalyzeHealth
  <2>3. CASE Duplicate(c) \/ StartAction(c) \/ BumpRetry(c) \/ Queue(c) \/ MarkDone(c)
    BY <1>2, <2>3 DEF Duplicate, StartAction, BumpRetry, Queue, MarkDone
  <2>4. CASE EndPass(c) \/ BreakOff(c)
    BY <1>2, <2>4 DEF EndPass, BreakOff, Leave
  <2> QED
    BY <2>1, <2>2, <2>3, <2>4 DEF Step, Pass
<1> QED
  BY <1>1, <1>3

\* A pass that applies is the only one.
LEMMA OnlyOneApplies ==
    ASSUME TInv, TakeTurns, PreviewsApplyNothing,
           NEW c \in Collectors, pc[c] \in {"bump", "queue", "finish"},
           NEW d \in Collectors, pc[d] \in {"bump", "queue", "finish"}
    PROVE  c = d
BY DEF TakeTurns, PreviewsApplyNothing

\* A finite outbox holds finitely many retries of a task.
LEMMA RetriesAreFinite ==
    ASSUME IsFiniteSet(outbox), NEW t, NEW r
    PROVE  IsFiniteSet(Retries(t, r)) /\ Cardinality(Retries(t, r)) \in Nat
<1>1. Retries(t, r) \in SUBSET outbox
  BY DEF Retries
<1> QED
  BY <1>1, FS_Subset, FS_CardinalityType

\* Every step keeps the retries of a task paid for.
LEMMA PaidStep == TInv /\ PaidInv /\ [Next]_vars => PaidInv'
<1> SUFFICES ASSUME TypeOK, Shape, TInv, PaidInv, [Next]_vars PROVE PaidInv'
  BY DEF TInv
<1> DEFINE Kinds == {"stale-running", "worker-failure"}
<1>0. \A k \in Key : k.task \in Tasks /\ RecoveryKind(k.event) \in Kinds
  BY DEF Key, RecoveryKind
<1>1. ASSUME NEW t \in Tasks, NEW r \in Kinds
      PROVE  /\ IsFiniteSet(Retries(t, r)) /\ Cardinality(Retries(t, r)) \in Nat
             /\ retry[t][r] \in Nat /\ Cardinality(Retries(t, r)) <= retry[t][r]
  BY RetriesAreFinite DEF PaidInv, RetriesArePaid, TypeOK
<1>2. ASSUME NEW c \in Collectors, Step(c)
      PROVE  TakeTurns' /\ PreviewsApplyNothing'
  BY <1>2, TurnsStep DEF PaidInv
<1>3. ASSUME NEW c \in Collectors, BumpRetry(c) PROVE PaidInv'
  <2> DEFINE k == Head(plan[c])
             t == k.task
             r == RecoveryKind(k.event)
  <2>1. /\ k \in Key /\ pc[c] = "bump"
        /\ retry' = [retry EXCEPT ![t][r] = retry[t][r] + 1]
        /\ outbox' = outbox /\ plan' = plan
        /\ pc' = [pc EXCEPT ![c] = "queue"]
    BY <1>3, HeadTailRange DEF BumpRetry, GoTo, Shape, TypeOK
  <2>2. t \in Tasks /\ r \in Kinds
    BY <1>0, <2>1
  <2> HIDE DEF k, t, r
  <2>3. /\ \A u \in Tasks, q \in Kinds : retry'[u][q] >= retry[u][q] /\ retry'[u][q] \in Nat
        /\ retry'[t][r] = retry[t][r] + 1
    BY <1>1, <2>1, <2>2 DEF TypeOK
  <2>4. \A u, q : Retries(u, q)' = Retries(u, q)
    BY <2>1 DEF Retries
  <2>5. RetriesArePaid'
    BY <1>1, <2>3, <2>4 DEF RetriesArePaid
  <2>6. CountedAhead'
    <3>1. \A d \in Collectors : pc'[d] = "queue" => d = c
      BY <2>1, OnlyOneApplies DEF PaidInv, TypeOK
    <3>2. Cardinality(Retries(t, r)) + 1 <= retry'[t][r]
      BY <1>1, <2>2, <2>3
    <3> QED
      BY <2>1, <2>4, <3>1, <3>2 DEF CountedAhead, k, t, r
  <2>7. Step(c)
    BY <1>3 DEF Step, Pass
  <2> QED
    BY <1>2, <2>1, <2>5, <2>6, <2>7 DEF PaidInv
<1>4. ASSUME NEW c \in Collectors, Queue(c) PROVE PaidInv'
  <2> DEFINE k == Head(plan[c])
  <2>1. /\ k \in Key /\ pc[c] = "queue"
        /\ outbox' = outbox \/ outbox' = outbox \cup {k}
        /\ retry' = retry /\ pc' = [pc EXCEPT ![c] = "finish"]
    BY <1>4, HeadTailRange DEF Queue, GoTo, Shape, TypeOK
  <2>2. k.kind = "retry" =>
          Cardinality(Retries(k.task, RecoveryKind(k.event))) + 1
            <= retry[k.task][RecoveryKind(k.event)]
    BY <2>1 DEF PaidInv, CountedAhead
  <2> HIDE DEF k
  <2>3. IsFiniteSet(outbox')
    BY <2>1, FS_AddElement DEF PaidInv
  <2>4. ASSUME NEW t \in Tasks, NEW r \in Kinds
        PROVE  Cardinality(Retries(t, r)') <= retry'[t][r]
    <3>1. CASE /\ outbox' = outbox \cup {k} /\ k.kind = "retry"
               /\ k.task = t /\ RecoveryKind(k.event) = r
      <4>1. Retries(t, r)' = Retries(t, r) \cup {k}
        BY <3>1 DEF Retries
      <4> DEFINE R == Retries(t, r)
      <4>2. IsFiniteSet(R) /\ Cardinality(R) \in Nat
        BY <1>1
      <4> HIDE DEF R
      <4>3. Cardinality(R \cup {k}) \in {Cardinality(R), Cardinality(R) + 1}
        BY <4>2, FS_AddElement
      <4>4. Cardinality(R) + 1 <= retry'[t][r]
        BY <2>1, <2>2, <3>1 DEF R
      <4>5. retry'[t][r] \in Nat
        BY <1>1, <2>1
      <4>6. Cardinality(R \cup {k}) <= retry'[t][r]
        BY <4>2, <4>3, <4>4, <4>5
      <4> QED
        BY <4>1, <4>6 DEF R
    <3>2. CASE ~ (/\ outbox' = outbox \cup {k} /\ k.kind = "retry"
                  /\ k.task = t /\ RecoveryKind(k.event) = r)
      <4>1. Retries(t, r)' = Retries(t, r)
        BY <2>1, <3>2 DEF Retries
      <4> QED
        BY <1>1, <2>1, <4>1
    <3> QED
      BY <3>1, <3>2
  <2>5. CountedAhead'
    <3>1. \A d \in Collectors : pc'[d] # "queue"
      BY <2>1, OnlyOneApplies DEF PaidInv, TypeOK
    <3> QED
      BY <3>1 DEF CountedAhead
  <2>6. Step(c)
    BY <1>4 DEF Step, Pass
  <2>7. RetriesArePaid'
    BY <2>4 DEF RetriesArePaid
  <2> QED
    BY <1>2, <2>3, <2>5, <2>6, <2>7 DEF PaidInv
\* The other steps count and queue nothing, and none of them but the start of
\* another action leads to the queue.
<1>5. ASSUME NEW c \in Collectors, Step(c), outbox' = outbox, retry' = retry,
             pc'[c] = "queue" => Head(plan'[c]).kind # "retry"
      PROVE  PaidInv'
  <2>1. \A u, q : Retries(u, q)' = Retries(u, q)
    BY <1>5 DEF Retries
  <2>2. RetriesArePaid'
    BY <1>5, <2>1 DEF PaidInv, RetriesArePaid
  <2>3. CountedAhead'
    <3> SUFFICES ASSUME NEW d \in Collectors, pc'[d] = "queue",
                        Head(plan'[d]).kind = "retry"
                 PROVE  Cardinality(Retries(Head(plan'[d]).task,
                                            RecoveryKind(Head(plan'[d]).event))) + 1
                          <= retry[Head(plan'[d]).task][RecoveryKind(Head(plan'[d]).event)]
      BY <1>5, <2>1 DEF CountedAhead
    <3>1. d # c /\ plan'[d] = plan[d] /\ pc[d] = "queue"
      BY <1>5, StepFrame
    <3> QED
      BY <3>1 DEF PaidInv, CountedAhead
  <2> QED
    BY <1>2, <1>5, <2>2, <2>3 DEF PaidInv
<1>6. ASSUME NEW c \in Collectors, Step(c), ~BumpRetry(c), ~Queue(c)
      PROVE  PaidInv'
  <2> USE DEF GoTo, tables, TypeOK
  <2>1. CASE StartAction(c)
    BY <1>5, <1>6, <2>1 DEF StartAction, Counts
  <2>2. CASE Begin(c) \/ ReadEvents(c) \/ MarkProcessed(c) \/ SetCursor(c)
    BY <1>5, <1>6, <2>2 DEF Begin, ReadEvents, MarkProcessed, SetCursor
  <2>3. CASE PlanNext(c) \/ PlanEnds(c) \/ AnalyzeHealth(c)
    BY <1>5, <1>6, <2>3 DEF PlanNext, PlanEnds, AnalyzeHealth
  <2>4. CASE Duplicate(c) \/ MarkDone(c) \/ EndPass(c) \/ BreakOff(c)
    BY <1>5, <1>6, <2>4 DEF Duplicate, MarkDone, EndPass, BreakOff, Leave
  <2> QED
    BY <1>6, <2>1, <2>2, <2>3, <2>4 DEF Step, Pass
<1>7. CASE ~ \E c \in Collectors : Step(c)
  BY <1>7, HermesFrame
  DEF PaidInv, TakeTurns, PreviewsApplyNothing, RetriesArePaid, CountedAhead,
      Retries, Next, Step, tables, locals
<1> QED
  BY <1>3, <1>4, <1>6, <1>7

\* For any supervisors, previews, budgets and breaks: every retry in the
\* outbox was counted against the budget of its task.
THEOREM RetriesArePaidHolds == Spec => []RetriesArePaid
<1>1. Init => PaidInv
  <2> SUFFICES ASSUME Init PROVE PaidInv
    OBVIOUS
  <2>1. \A t, r : Retries(t, r) = {}
    BY DEF Init, Retries
  <2>2. IsFiniteSet(outbox) /\ Cardinality({}) = 0
    BY FS_EmptySet DEF Init
  <2>3. RetriesArePaid
    <3>1. \A t \in Tasks, r \in {"stale-running", "worker-failure"} : retry[t][r] = 0
      BY DEF Init
    <3>2. \A t, r : Cardinality(Retries(t, r)) = 0
      BY <2>1, <2>2
    <3> QED
      BY <3>1, <3>2 DEF RetriesArePaid
  <2>4. \A c \in Collectors : pc[c] = "idle"
    BY DEF Init
  <2> QED
    BY <2>2, <2>3, <2>4, PipelineAssumption
    DEF PaidInv, TakeTurns, PreviewsApplyNothing, CountedAhead
<1>2. TInv /\ PaidInv /\ [Next]_vars => (TInv /\ PaidInv)'
  BY TypeStep, ShapeStep, PaidStep DEF TInv
<1>3. PaidInv => RetriesArePaid
  BY DEF PaidInv
<1> QED
  BY <1>1, <1>2, <1>3, InitTInv, PTL DEF Spec

-----------------------------------------------------------------------------
(* The key of a retry holds its attempt, and an attempt is within the       *)
(* budget; a retry for a stale task differs from another one for the same   *)
(* task in its attempt only.                                               *)

AttemptInv ==
    \A k \in Asked : k.kind = "retry" => k.attempt \in 1 .. MaxRetries

\* Every step keeps the attempt in a key within the budget.
LEMMA AttemptStep == TInv /\ AttemptInv /\ [Next]_vars => AttemptInv'
<1> SUFFICES ASSUME TInv, AttemptInv, [Next]_vars PROVE AttemptInv'
  OBVIOUS
<1> USE DEF TInv
<1>1. CASE \E c \in Collectors : Step(c)
  <2>1. PICK c \in Collectors : Step(c)
    BY <1>1
  <2>2. CASE Asked' \subseteq Asked
    BY <2>2 DEF AttemptInv
  <2>3. CASE /\ PlanNext(c)
             /\ \E p \in Plans(c, Head(todo[c])) : Asked' \subseteq Asked \cup Range(p)
    <3> DEFINE i == Head(todo[c])
               n == retry[i.task][RecoveryKind(i.event)]
    <3>1. i \in Item
      BY <2>3, HeadTailRange DEF PlanNext, TypeOK
    <3>2. PICK p \in Plans(c, i) : Asked' \subseteq Asked \cup Range(p)
      BY <2>3
    <3>3. n \in Nat
      BY <3>1 DEF TypeOK, Item, RecoveryKind
    <3> HIDE DEF i
    <3>4. BoundedRecovery(i) = IF n + 1 <= MaxRetries
                               THEN Action("retry", i, n + 1)
                               ELSE Action("escalate", i, 0)
      BY DEF BoundedRecovery
    <3> HIDE DEF n
    <3>5. BoundedRecovery(i).kind = "retry"
            => n + 1 <= MaxRetries /\ BoundedRecovery(i).attempt = n + 1
      BY <3>4 DEF Action
    <3>6. BoundedRecovery(i).kind = "retry"
            => BoundedRecovery(i).attempt \in 1 .. MaxRetries
      BY <3>3, <3>5, PipelineAssumption
    <3>7. \A k \in Range(p) : k.kind = "retry" => k = BoundedRecovery(i)
      BY <3>1, PlanProperties
    <3> QED
      BY <3>2, <3>6, <3>7 DEF AttemptInv
  <2> QED
    BY <2>1, <2>2, <2>3, AskedSteps
<1>2. CASE ~ \E c \in Collectors : Step(c)
  BY <1>2, HermesFrame DEF AttemptInv, Asked, Next, Step, tables, locals
<1> QED
  BY <1>1, <1>2

\* For any budget, previews and breaks: a task is retried as stale at most
\* max_retries times.
THEOREM StaleRetriesWithinBudgetHolds == Spec => []StaleRetriesWithinBudget
<1>1. Init => AttemptInv
  BY EmptyRange DEF Init, AttemptInv, Asked
<1>2. TInv /\ AttemptInv /\ [Next]_vars => (TInv /\ AttemptInv)'
  BY TypeStep, ShapeStep, AttemptStep DEF TInv
<1>3. TInv /\ AttemptInv => StaleRetriesWithinBudget
  <2> SUFFICES ASSUME TInv, AttemptInv, NEW t \in Tasks
               PROVE  Cardinality(Retries(t, "stale-running")) <= MaxRetries
    BY DEF StaleRetriesWithinBudget
  <2> DEFINE R == Retries(t, "stale-running")
             f == [k \in R |-> k.attempt]
  <2>1. \A k \in R : /\ k \in Key /\ k.kind = "retry" /\ k.task = t
                     /\ k.event = 0 /\ k.attempt \in 1 .. MaxRetries
    BY DEF TInv, TypeOK, AttemptInv, Asked, Retries, RecoveryKind
  <2>2. \A k, l \in R : k.attempt = l.attempt => k = l
    BY <2>1 DEF Key
  <2> HIDE DEF R
  <2>3. f \in [R -> 1 .. MaxRetries]
    BY <2>1
  <2>4. \A k, l \in R : f[k] = f[l] => k = l
    BY <2>2
  <2>5. f \in Injection(R, 1 .. MaxRetries)
    BY <2>3, <2>4 DEF Injection, IsInjective
  <2>6. IsFiniteSet(1 .. MaxRetries) /\ Cardinality(1 .. MaxRetries) = MaxRetries
    BY PipelineAssumption, FS_Interval
  <2> HIDE DEF f
  <2>7. Cardinality(R) <= MaxRetries
    BY <2>5, <2>6, FS_Injection
  <2> QED
    BY <2>7 DEF R
<1> QED
  BY <1>1, <1>2, <1>3, InitTInv, PTL DEF Spec

=============================================================================
