--------------------------- MODULE Ancestors_proofs ---------------------------
(* Proofs about the walks of BoardHealth and HealthSweep over the parents   *)
(* of a task.  The functions that walk are recursive, and induction is had  *)
(* from sets: a set of numbers that holds 0 and the successor of each of    *)
(* its members holds all, since the intervals below the others would have a *)
(* smallest one (SetInduction).                                             *)
EXTENDS HealthSweep_proofs

------------------------------------------------------------------------------
(* Induction over sets.                                                     *)

\* A family of finite sets has a smallest one.
LEMMA SmallestSet ==
    ASSUME NEW S, NEW F, F \subseteq FiniteSubsetsOf(S), F # {}
    PROVE  \E x \in F : \A y \in F : y \subseteq x => y = x
PROOF
<1>1. \E x \in F : \A y \in F : ~ (<<y, x>> \in StrictSubsetOrdering(S))
  BY FS_StrictSubsetOrderingWellFounded, WFMin
<1>2. PICK x \in F : \A y \in F : ~ (<<y, x>> \in StrictSubsetOrdering(S))
  BY <1>1
<1>3. ASSUME NEW y \in F, y \subseteq x, y # x PROVE FALSE
  <2>1. x \in SUBSET S /\ y \in SUBSET S
    BY DEF FiniteSubsetsOf
  <2>2. <<y, x>> \in StrictSubsetOrdering(S)
    BY <1>3, <2>1 DEF StrictSubsetOrdering
  <2> QED
    BY <1>2, <2>2
<1> QED
  BY <1>3

\* A set of numbers has a least one.
LEMMA LeastNumber ==
    ASSUME NEW S \in SUBSET Nat, S # {}
    PROVE  \E m \in S : \A n \in S : m <= n
PROOF
<1> DEFINE F == {1 .. n : n \in S}
<1>1. F \subseteq FiniteSubsetsOf(Nat)
  <2>1. ASSUME NEW n \in Nat PROVE 1 .. n \in SUBSET Nat /\ IsFiniteSet(1 .. n)
    BY FS_Interval
  <2> QED
    BY <2>1 DEF FiniteSubsetsOf
<1>2. F # {}
  OBVIOUS
<1>3. \E x \in F : \A y \in F : y \subseteq x => y = x
  <2> HIDE DEF F
  <2> QED
    BY <1>1, <1>2, SmallestSet
<1>4. PICK m \in S : \A y \in F : y \subseteq 1 .. m => y = 1 .. m
  BY <1>3
<1>5. ASSUME NEW n \in S, ~ (m <= n) PROVE FALSE
  <2>1. 1 .. n \subseteq 1 .. m /\ m \in 1 .. m /\ m \notin 1 .. n
    BY <1>5
  <2>2. 1 .. n \in F
    OBVIOUS
  <2> HIDE DEF F
  <2> QED
    BY <1>4, <2>1, <2>2
<1> QED
  BY <1>5

\* A set with 0 and the successors of its numbers holds all numbers.
LEMMA SetInduction ==
    ASSUME NEW S, 0 \in S, \A n \in Nat : n \in S => n + 1 \in S
    PROVE  Nat \subseteq S
PROOF
<1> SUFFICES ASSUME Nat \ S # {}
             PROVE  FALSE
  OBVIOUS
<1>1. PICK m \in Nat \ S : \A n \in Nat \ S : m <= n
  BY LeastNumber
<1>2. m - 1 \in Nat /\ ~ (m <= m - 1) /\ m - 1 + 1 = m
  OBVIOUS
<1> QED
  BY <1>1, <1>2

------------------------------------------------------------------------------
(* Layers.                                                                  *)

First(t) == [all |-> {t}, last |-> {t}]

Further(r) ==
    LET new == (UNION {Parents(u) : u \in r.last}) \ r.all
    IN  [all |-> r.all \cup new, last |-> IF new = {} THEN r.last ELSE new]

\* f holds the layers above t up to the nth.
Layered(f, n, t) ==
    f = [i \in 0 .. n |-> IF i = 0 THEN First(t) ELSE Further(f[i - 1])]

\* The recursion in Layers defines a function.
LEMMA LayersExist ==
    ASSUME NEW t, NEW N \in Nat
    PROVE  \E f : Layered(f, N, t)
PROOF
<1> DEFINE S == {n \in Nat : \E f : Layered(f, n, t)}
<1>1. 0 \in S
  <2>1. Layered([i \in 0 .. 0 |-> First(t)], 0, t)
    BY DEF Layered
  <2> QED
    BY <2>1
<1>2. ASSUME NEW n \in Nat, n \in S PROVE n + 1 \in S
  <2>1. PICK f : Layered(f, n, t)
    BY <1>2
  <2> DEFINE g == [i \in 0 .. n + 1 |->
                     IF i = 0 THEN First(t) ELSE Further(f[i - 1])]
  <2>2. \A i \in 0 .. n : g[i] = f[i]
    BY <2>1 DEF Layered
  <2>3. ASSUME NEW i \in 0 .. n + 1, i # 0 PROVE g[i - 1] = f[i - 1]
    <3>1. i - 1 \in 0 .. n
      BY <2>3
    <3> HIDE DEF g
    <3> QED
      BY <2>2, <3>1
  <2>4. g = [i \in 0 .. n + 1 |->
                     IF i = 0 THEN First(t) ELSE Further(g[i - 1])]
    BY <2>3
  <2>5. Layered(g, n + 1, t)
    BY <2>4 DEF Layered
  <2> QED
    BY <2>5
<1> HIDE DEF S
<1>3. N \in S
  BY <1>1, <1>2, SetInduction
<1> QED
  BY <1>3 DEF S

\* The result of Layers is what the last round leaves.
LEMMA LayersAreLayered ==
    ASSUME NEW t, Cardinality(Tasks) \in Nat
    PROVE  \E f : Layered(f, Cardinality(Tasks), t)
                    /\ Layers(t) = f[Cardinality(Tasks)]
PROOF
<1> DEFINE N == Cardinality(Tasks)
           f == CHOOSE g : Layered(g, N, t)
<1>1. Layered(f, N, t)
  BY LayersExist
<1>2. Layers(t) = f[N]
  BY DEF Layers, Layered, First, Further
<1> QED
  BY <1>1, <1>2

\* C holds the parents of what it holds.
Closed(C) == \A u \in C : Parents(u) \subseteq C

\* After n rounds: only the parents of the last layer may be missing, and
\* there are n tasks above t unless none are missing.
Reached(r, n, t) ==
    /\ t \in r.all /\ r.all \subseteq Tasks
    /\ r.last \subseteq r.all /\ r.last # {}
    /\ \A u \in r.all \ r.last : Parents(u) \subseteq r.all
    /\ Closed(r.all) \/ Cardinality(r.all) > n
    /\ \A C : t \in C /\ Closed(C) => r.all \subseteq C

\* A round keeps what Reached says, and adds a task if it can.
LEMMA ReachedFurther ==
    ASSUME NEW t \in Tasks, NEW r, NEW n \in Nat, Reached(r, n, t)
    PROVE  Reached(Further(r), n + 1, t)
PROOF
<1> DEFINE new == (UNION {Parents(u) : u \in r.last}) \ r.all
           A == r.all \cup new
<1>1. /\ Further(r).all = A
      /\ Further(r).last = IF new = {} THEN r.last ELSE new
  BY DEF Further
<1>2. A \subseteq Tasks
  BY DEF Reached, Parents
<1>3. \A u \in r.all : Parents(u) \subseteq A
  BY DEF Reached
<1>4. ASSUME NEW C, t \in C, Closed(C) PROVE A \subseteq C
  BY <1>4 DEF Reached, Closed
<1>5. CASE new = {}
  <2>1. Further(r).all = r.all /\ Further(r).last = r.last
    BY <1>1, <1>5
  <2>2. Closed(r.all)
    BY <1>3, <1>5 DEF Closed
  <2> QED
    BY <2>1, <2>2 DEF Reached
<1>6. CASE new # {}
  <2>1. ~ Closed(r.all)
    BY <1>6 DEF Reached, Closed
  <2>2. IsFiniteSet(A) /\ IsFiniteSet(r.all) /\ Cardinality(r.all) > n
    BY <1>2, <2>1, TasksAssumption, FS_Subset DEF Reached
  <2>3. /\ r.all \in SUBSET A /\ A # r.all
        /\ Cardinality(A) \in Nat /\ Cardinality(r.all) \in Nat
    BY <1>6, <2>2, FS_CardinalityType
  <2>4. Cardinality(A) > n + 1
    BY <2>2, <2>3, FS_Subset
  <2> QED
    BY <1>1, <1>2, <1>3, <1>4, <1>6, <2>4 DEF Reached
<1> QED
  BY <1>5, <1>6

\* So it holds after every round.
LEMMA LayersAreReached ==
    ASSUME NEW t \in Tasks, NEW N \in Nat, NEW f, Layered(f, N, t),
           NEW n \in 0 .. N
    PROVE  Reached(f[n], n, t)
PROOF
<1> DEFINE S == {k \in Nat : k <= N => Reached(f[k], k, t)}
<1>1. 0 \in S
  <2>1. f[0] = First(t)
    BY DEF Layered
  <2>2. Cardinality({t}) = 1
    BY FS_Singleton
  <2> QED
    BY <2>1, <2>2 DEF Reached, First, Closed
<1>2. ASSUME NEW k \in Nat, k \in S PROVE k + 1 \in S
  <2>1. ASSUME k + 1 <= N PROVE Reached(f[k + 1], k + 1, t)
    <3>1. f[k + 1] = Further(f[k])
      BY <2>1 DEF Layered
    <3>2. Reached(f[k], k, t)
      BY <1>2, <2>1
    <3> QED
      BY <3>1, <3>2, ReachedFurther
  <2> QED
    BY <2>1
<1>3. Nat \subseteq S
  <2> HIDE DEF S
  <2> QED
    BY <1>1, <1>2, SetInduction
<1> QED
  BY <1>3

\* No layer is as large as the board.
LEMMA ReachedIsClosed ==
    ASSUME NEW t \in Tasks, NEW r, Reached(r, Cardinality(Tasks), t)
    PROVE  Closed(r.all)
PROOF
<1> DEFINE N == Cardinality(Tasks)
<1>1. r.all \in SUBSET Tasks /\ IsFiniteSet(r.all) /\ Cardinality(r.all) <= N
  BY TasksAssumption, FS_Subset DEF Reached
<1>2. Cardinality(r.all) \in Nat /\ N \in Nat
  BY <1>1, TasksAssumption, FS_CardinalityType
<1>3. ~ (Cardinality(r.all) > N)
  BY <1>1, <1>2
<1> QED
  BY <1>3 DEF Reached

\* The ancestors of t are the least set that holds t and is closed.
LEMMA AncestorsAreClosed ==
    ASSUME NEW t \in Tasks
    PROVE  /\ t \in Layers(t).all /\ Layers(t).all \subseteq Tasks
           /\ Closed(Layers(t).all)
           /\ \A C : t \in C /\ Closed(C) => Layers(t).all \subseteq C
PROOF
<1> DEFINE N == Cardinality(Tasks)
<1>1. N \in Nat /\ N \in 0 .. N
  BY TasksAssumption, FS_CardinalityType
<1>2. PICK f : Layered(f, N, t) /\ Layers(t) = f[N]
  BY <1>1, LayersAreLayered
<1>3. Reached(Layers(t), N, t)
  BY <1>1, <1>2, LayersAreReached
<1> QED
  BY <1>3, ReachedIsClosed DEF Reached

------------------------------------------------------------------------------
(* What waits.                                                              *)

\* A task that waits and is not explained by itself waits for a parent that
\* waits too, or works, or that no query looks at.
LEMMA WaitsForParent ==
    ASSUME TypeOK, NEW t \in Tasks, status[t] \in {"todo", "blocked"},
           ~ Moving(t), \A f \in Findings : f.task # t
    PROVE  \E p \in Parents(t) :
              status[p] \in {"todo", "ready", "running"} \/ Unwatched(p)
PROOF
<1>1. \A kind \in Kinds : ~ Found(kind, t)
  <2>1. ASSUME NEW kind \in Kinds, Found(kind, t) PROVE FALSE
    <3>1. [task |-> t, kind |-> kind] \in Findings
      BY <2>1 DEF Findings, Finding
    <3> QED
      BY <3>1
  <2> QED
    BY <2>1
<1>2. /\ ~ LongTermBlocked(t) /\ ~ DependencyBlockedByStuckParent(t)
      /\ ~ BlockedWithAllParentsDone(t)
  BY <1>1 DEF Found, Kinds
<1>3. status[t] = "todo" /\ Parents(t) # {}
  BY <1>2 DEF Moving, LongTermBlocked, TypeOK
<1>4. PICK p \in Present(Parents(t)) :
         status[p] \notin {"done", "completed", "cancelled", "archived"}
  BY <1>2, <1>3 DEF BlockedWithAllParentsDone
<1>5. p \in Parents(t) /\ status[p] # "absent" /\ status[p] \in Statuses
  BY <1>4 DEF Present, Parents, TypeOK
<1>6. status[p] \notin {"blocked", "gave_up", "failed"}
  BY <1>2, <1>3, <1>5 DEF DependencyBlockedByStuckParent
<1> QED
  BY <1>4, <1>5, <1>6 DEF Statuses, Unwatched

\* Of the waiting ancestors of t, take one with the fewest ancestors: the
\* parent that it waits for has fewer.
LEMMA WaitingExplained == TypeOK => WaitingIsExplained
PROOF
<1> SUFFICES ASSUME TypeOK, Acyclic, NEW t \in Tasks,
                    status[t] \in {"todo", "blocked"},
                    \A u \in Layers(t).all :
                        /\ ~ Moving(u) /\ ~ Unwatched(u)
                        /\ \A f \in Findings : f.task # u
             PROVE  FALSE
  BY DEF WaitingIsExplained
<1> DEFINE A == Layers(t).all
           W == {u \in A : status[u] \in {"todo", "blocked"}}
           F == {Layers(u).all : u \in W}
<1>1. t \in W /\ W \subseteq Tasks /\ Closed(A)
  BY AncestorsAreClosed
<1>2. ASSUME NEW u \in W PROVE \E p \in W : p \in Parents(u)
  <2>1. PICK p \in Parents(u) :
           status[p] \in {"todo", "ready", "running"} \/ Unwatched(p)
    BY <1>1, <1>2, WaitsForParent
  <2>2. p \in A
    BY <1>1, <1>2 DEF Closed
  <2>3. status[p] = "todo"
    BY <2>1, <2>2 DEF Moving
  <2> QED
    BY <2>2, <2>3
<1>3. F \subseteq FiniteSubsetsOf(Tasks)
  <2>1. ASSUME NEW u \in W PROVE Layers(u).all \in FiniteSubsetsOf(Tasks)
    <3>1. Layers(u).all \in SUBSET Tasks
      BY <1>1, AncestorsAreClosed
    <3> QED
      BY <3>1, TasksAssumption, FS_Subset DEF FiniteSubsetsOf
  <2> QED
    BY <2>1
<1> HIDE DEF A
<1>4. PICK u \in W : \A y \in F : y \subseteq Layers(u).all => y = Layers(u).all
  <2>1. F # {}
    BY <1>1
  <2>2. \E x \in F : \A y \in F : y \subseteq x => y = x
    <3> HIDE DEF F
    <3> QED
      BY <1>3, <2>1, SmallestSet
  <2> QED
    BY <2>2
<1>5. PICK p \in W : p \in Parents(u)
  BY <1>2
<1>6. /\ u \in Layers(u).all /\ Closed(Layers(u).all)
      /\ p \in Layers(u).all
  BY <1>1, <1>5, AncestorsAreClosed DEF Closed
<1>7. Layers(p).all \subseteq Layers(u).all
  BY <1>1, <1>5, <1>6, AncestorsAreClosed
<1>8. u \notin Layers(p).all
  BY <1>1, <1>5 DEF Acyclic
<1> QED
  BY <1>4, <1>5, <1>6, <1>7, <1>8

\* Behind every task that waits, on an acyclic board, is a task that still
\* moves, a finding, or a task in triage, scheduled or in review: of the tasks
\* above it that wait, take one with the fewest ancestors.
THEOREM WaitingIsExplainedHolds == Spec => []WaitingIsExplained
PROOF
  BY TypeCorrect, WaitingExplained, PTL

------------------------------------------------------------------------------
(* Tail recursion: w goes from state to state until one is in Z.            *)

Recurses(w, X, Z, c, next) ==
    w = [x \in X |-> IF x \in Z THEN c[x] ELSE w[next[x]]]

\* m counts down on the way to Z.
CountsDown(m, X, Z, next) ==
    /\ next \in [X -> X] /\ m \in [X -> Nat]
    /\ \A x \in X \ Z : m[next[x]] < m[x]

\* w recurses where m is less than k.
RecursesBelow(w, X, Z, c, next, m, k) ==
    \A x \in X : m[x] < k => w[x] = IF x \in Z THEN c[x] ELSE w[next[x]]

\* There is a solution as far as k.
LEMMA TailRecursionBelow ==
    ASSUME NEW X, NEW Z, NEW c, NEW next, NEW m, CountsDown(m, X, Z, next),
           NEW k \in Nat
    PROVE  \E w : RecursesBelow(w, X, Z, c, next, m, k)
PROOF
<1> USE DEF CountsDown
<1> DEFINE S == {n \in Nat : \E w : RecursesBelow(w, X, Z, c, next, m, n)}
<1>1. 0 \in S
  BY DEF RecursesBelow
<1>2. ASSUME NEW n \in Nat, n \in S PROVE n + 1 \in S
  <2>1. PICK w : RecursesBelow(w, X, Z, c, next, m, n)
    BY <1>2
  <2> DEFINE v == [x \in X |-> IF m[x] < n THEN w[x]
                              ELSE IF x \in Z THEN c[x] ELSE w[next[x]]]
  <2>2. ASSUME NEW x \in X, m[x] < n + 1
        PROVE  v[x] = IF x \in Z THEN c[x] ELSE v[next[x]]
    <3>1. v[x] = IF x \in Z THEN c[x] ELSE w[next[x]]
      BY <2>1 DEF RecursesBelow
    <3>2. x \notin Z => m[next[x]] < n
      BY <2>2
    <3>3. x \notin Z => v[next[x]] = w[next[x]]
      BY <3>2
    <3> HIDE DEF v
    <3> QED
      BY <3>1, <3>3
  <2>3. RecursesBelow(v, X, Z, c, next, m, n + 1)
    BY <2>2 DEF RecursesBelow
  <2> HIDE DEF v
  <2> QED
    BY <2>3
<1> HIDE DEF S
<1>3. k \in S
  BY <1>1, <1>2, SetInduction
<1> QED
  BY <1>3 DEF S

\* There is a solution: the value of each state in a solution that reaches it.
LEMMA TailRecursion ==
    ASSUME NEW X, NEW Z, NEW c, NEW next, NEW m, CountsDown(m, X, Z, next)
    PROVE  \E w : Recurses(w, X, Z, c, next)
PROOF
<1> DEFINE u(k) == CHOOSE w : RecursesBelow(w, X, Z, c, next, m, k)
           w == [x \in X |-> u(m[x] + 1)[x]]
<1>1. \A k \in Nat : RecursesBelow(u(k), X, Z, c, next, m, k)
  BY TailRecursionBelow
<1> HIDE DEF u
<1> USE DEF CountsDown
\* Two solutions agree where both are defined.
<1>2. ASSUME NEW y \in X, NEW k \in Nat, m[y] < k
      PROVE  u(k)[y] = u(m[y] + 1)[y]
  <2> DEFINE S == {n \in Nat : \A x \in X : m[x] <= m[y] /\ m[x] < n =>
                                 u(k)[x] = u(m[y] + 1)[x]}
  <2>1. 0 \in S
    OBVIOUS
  <2>2. ASSUME NEW n \in Nat, n \in S PROVE n + 1 \in S
    <3>1. ASSUME NEW x \in X, m[x] <= m[y], m[x] < n + 1
          PROVE  u(k)[x] = u(m[y] + 1)[x]
      <4>1. /\ m[x] < k /\ m[x] < m[y] + 1 /\ m[y] + 1 \in Nat
        BY <1>2, <3>1
      <4>2. /\ u(k)[x] = IF x \in Z THEN c[x] ELSE u(k)[next[x]]
            /\ u(m[y] + 1)[x] = IF x \in Z THEN c[x] ELSE u(m[y] + 1)[next[x]]
        BY <1>1, <4>1 DEF RecursesBelow
      <4>3. x \notin Z => /\ next[x] \in X
                         /\ m[next[x]] <= m[y] /\ m[next[x]] < n
        BY <3>1
      <4>4. x \notin Z => u(k)[next[x]] = u(m[y] + 1)[next[x]]
        BY <2>2, <4>3
      <4> QED
        BY <4>2, <4>4
    <3> QED
      BY <3>1
  <2>3. Nat \subseteq S
    <3> HIDE DEF S
    <3> QED
      BY <2>1, <2>2, SetInduction
  <2>4. m[y] + 1 \in S /\ m[y] < m[y] + 1 /\ m[y] <= m[y]
    BY <2>3
  <2> QED
    BY <2>4
<1>3. ASSUME NEW x \in X
      PROVE  w[x] = IF x \in Z THEN c[x] ELSE w[next[x]]
  <2>1. m[x] + 1 \in Nat /\ m[x] < m[x] + 1
    OBVIOUS
  <2>2. u(m[x] + 1)[x] = IF x \in Z THEN c[x] ELSE u(m[x] + 1)[next[x]]
    BY <1>1, <2>1 DEF RecursesBelow
  <2>3. x \notin Z => u(m[x] + 1)[next[x]] = u(m[next[x]] + 1)[next[x]]
    <3>1. x \notin Z => next[x] \in X /\ m[next[x]] < m[x] + 1
      OBVIOUS
    <3> QED
      BY <1>2, <2>1, <3>1
  <2> QED
    BY <2>2, <2>3
<1>4. Recurses(w, X, Z, c, next)
  <2> HIDE DEF w
  <2> QED
    BY <1>3 DEF Recurses, w
<1> HIDE DEF w
<1> QED
  BY <1>4

\* I holds of a state and with it of the next one, and where it ends is G.
Leads(I, G, X, Z, c, next) ==
    /\ I \subseteq X
    /\ \A x \in I \ Z : next[x] \in I
    /\ \A x \in I \cap Z : c[x] \in G

\* What holds of the state that a walk starts from holds where it ends.
LEMMA TailInduction ==
    ASSUME NEW X, NEW Z, NEW c, NEW next, NEW m, CountsDown(m, X, Z, next),
           NEW w, Recurses(w, X, Z, c, next),
           NEW I, NEW G, Leads(I, G, X, Z, c, next)
    PROVE  \A x \in I : w[x] \in G
PROOF
<1> USE DEF CountsDown, Leads
<1> DEFINE S == {n \in Nat : \A x \in I : m[x] < n => w[x] \in G}
<1>1. 0 \in S
  OBVIOUS
<1>2. ASSUME NEW n \in Nat, n \in S PROVE n + 1 \in S
  <2>1. ASSUME NEW x \in I, m[x] < n + 1 PROVE w[x] \in G
    <3>1. w[x] = IF x \in Z THEN c[x] ELSE w[next[x]]
      BY DEF Recurses
    <3>2. x \notin Z => next[x] \in I /\ m[next[x]] < n
      BY <2>1
    <3> QED
      BY <1>2, <3>1, <3>2
  <2> QED
    BY <2>1
<1>3. Nat \subseteq S
  <2> HIDE DEF S
  <2> QED
    BY <1>1, <1>2, SetInduction
<1>4. ASSUME NEW x \in I PROVE w[x] \in G
  <2>1. m[x] + 1 \in S /\ m[x] < m[x] + 1
    BY <1>3
  <2> QED
    BY <2>1
<1> QED
  BY <1>4

------------------------------------------------------------------------------
(* The root.                                                                *)

Increasing(s, S) ==
    /\ s \in [1 .. Cardinality(S) -> S]
    /\ \A i, j \in DOMAIN s : i < j => s[i] < s[j]

\* A finite set of numbers can be sorted.
LEMMA SortedExists ==
    ASSUME NEW T \in SUBSET Nat, IsFiniteSet(T)
    PROVE  \E s : Increasing(s, T)
PROOF
<1> DEFINE P == {n \in Nat : \A S \in SUBSET Nat :
                    IsFiniteSet(S) /\ Cardinality(S) = n => \E s : Increasing(s, S)}
<1>1. 0 \in P
  <2>1. ASSUME NEW S \in SUBSET Nat, IsFiniteSet(S), Cardinality(S) = 0
        PROVE  Increasing(<<>>, S)
    BY <2>1 DEF Increasing
  <2> QED
    BY <2>1
<1>2. ASSUME NEW n \in Nat, n \in P PROVE n + 1 \in P
  <2>1. ASSUME NEW S \in SUBSET Nat, IsFiniteSet(S), Cardinality(S) = n + 1
        PROVE  \E s : Increasing(s, S)
    <3>1. S # {}
      BY <2>1, FS_EmptySet
    <3>2. PICK l \in S : \A k \in S : l <= k
      BY <3>1, LeastNumber
    <3>3. IsFiniteSet(S \ {l}) /\ Cardinality(S \ {l}) = n
      <4>1. Cardinality(S \ {l}) = Cardinality(S) - 1
        BY <2>1, FS_RemoveElement
      <4>2. IsFiniteSet(S \ {l})
        BY <2>1, FS_RemoveElement
      <4> QED
        BY <2>1, <4>1, <4>2
    <3>4. PICK s : Increasing(s, S \ {l})
      BY <1>2, <3>3
    <3> DEFINE u == [i \in 1 .. n + 1 |-> IF i = 1 THEN l ELSE s[i - 1]]
    <3>5. /\ s \in [1 .. n -> S \ {l}]
          /\ \A i, j \in 1 .. n : i < j => s[i] < s[j]
      BY <3>3, <3>4 DEF Increasing
    <3>6. \A i \in 2 .. n + 1 : i - 1 \in 1 .. n /\ u[i] = s[i - 1]
      OBVIOUS
    <3>7. ASSUME NEW i \in 2 .. n + 1 PROVE u[i] \in S /\ l < u[i]
      <4>1. s[i - 1] \in S \ {l}
        BY <3>5, <3>6
      <4>2. l \in Nat /\ s[i - 1] \in Nat /\ l <= s[i - 1]
        BY <3>2, <4>1
      <4> HIDE DEF u
      <4> QED
        BY <3>6, <4>1, <4>2
    <3>8. u \in [1 .. n + 1 -> S] /\ u[1] = l
      <4>1. u[1] = l
        OBVIOUS
      <4>2. ASSUME NEW i \in 1 .. n + 1 PROVE u[i] \in S
        <5>1. i = 1 \/ i \in 2 .. n + 1
          OBVIOUS
        <5> HIDE DEF u
        <5> QED
          BY <3>7, <4>1, <5>1
      <4> QED
        BY <4>1, <4>2
    <3>9. ASSUME NEW i \in 1 .. n + 1, NEW j \in 1 .. n + 1, i < j
          PROVE  u[i] < u[j]
      <4>1. CASE i = 1
        <5>1. j \in 2 .. n + 1
          BY <3>9, <4>1
        <5> HIDE DEF u
        <5> QED
          BY <3>7, <3>8, <4>1, <5>1
      <4>2. CASE i # 1
        <5>1. /\ i - 1 \in 1 .. n /\ j - 1 \in 1 .. n /\ i - 1 < j - 1
              /\ u[i] = s[i - 1] /\ u[j] = s[j - 1]
          BY <3>6, <3>9, <4>2
        <5> QED
          BY <3>5, <5>1
      <4> QED
        BY <4>1, <4>2
    <3> HIDE DEF u
    <3>10. Increasing(u, S)
      BY <2>1, <3>8, <3>9 DEF Increasing
    <3> QED
      BY <3>10
  <2> QED
    BY <2>1
<1>3. Nat \subseteq P
  <2> HIDE DEF P
  <2> QED
    BY <1>1, <1>2, SetInduction
<1>4. Cardinality(T) \in P
  BY <1>3, FS_CardinalityType
<1> QED
  BY <1>4

\* The rows of a set of tasks, in order: each of them once.
LEMMA SortedTasks ==
    ASSUME NEW S \in SUBSET Tasks
    PROVE  /\ Sorted(S) \in Seq(Tasks) /\ Len(Sorted(S)) = Cardinality(S)
           /\ {Sorted(S)[j] : j \in 1 .. Len(Sorted(S))} = S
           /\ Cardinality(S) \in Nat /\ Cardinality(S) <= Cardinality(Tasks)
PROOF
<1> DEFINE n == Cardinality(S)
           s == Sorted(S)
<1>1. /\ IsFiniteSet(S) /\ n \in Nat /\ S \subseteq Nat
      /\ n <= Cardinality(Tasks)
  BY TasksAssumption, FS_Subset, FS_CardinalityType
<1>2. Increasing(s, S)
  <2>1. \E u \in [1 .. n -> S] : \A i, j \in DOMAIN u : i < j => u[i] < u[j]
    BY <1>1, SortedExists DEF Increasing
  <2> QED
    BY <2>1 DEF Sorted, Increasing
<1> HIDE DEF s
<1>3. s \in [1 .. n -> S] /\ \A i, j \in 1 .. n : i < j => s[i] < s[j]
  BY <1>2 DEF Increasing
<1>4. s \in Seq(Tasks) /\ Len(s) = n
  <2>1. s \in [1 .. n -> Tasks] /\ n \in Nat
    BY <1>1, <1>3
  <2> HIDE DEF n
  <2> QED
    BY <2>1
<1>5. \A i, j \in 1 .. n : s[i] = s[j] => i = j
  <2>1. ASSUME NEW i \in 1 .. n, NEW j \in 1 .. n, s[i] = s[j], i # j PROVE FALSE
    <3>1. s[i] \in S /\ s[j] \in S /\ S \subseteq Nat
      BY <1>1, <1>3
    <3>2. ~ (s[i] < s[j]) /\ ~ (s[j] < s[i])
      <4>1. s[i] \in Nat
        BY <3>1
      <4>2. \A x \in Nat : ~ (x < x)
        OBVIOUS
      <4> QED
        BY <2>1, <4>1, <4>2, Zenon
    <3>3. i < j \/ j < i
      BY <1>1, <2>1
    <3> QED
      BY <1>3, <3>2, <3>3
  <2> QED
    BY <2>1
<1>6. s \in Injection(1 .. n, S)
  BY <1>3, <1>5 DEF Injection, IsInjective
<1>7. Cardinality(1 .. n) = n /\ IsFiniteSet(1 .. n)
  BY <1>1, FS_Interval
<1>8. s \in Surjection(1 .. n, S)
  BY <1>1, <1>6, <1>7, FS_Injection
<1>9. {s[j] : j \in 1 .. n} = S
  BY <1>3, <1>8 DEF Surjection
<1> QED
  BY <1>1, <1>4, <1>9 DEF s

\* The front of the frontier, of i tasks, and the rest.
Front(f, i) == {f[j] : j \in 1 .. i}
Back(f, i) == {f[j] : j \in i + 1 .. Len(f)}

\* pop(0) takes its task from the front.
LEMMA FrontierTail ==
    ASSUME NEW T, NEW f \in Seq(T), f # <<>>, NEW i \in 1 .. Len(f)
    PROVE  /\ Tail(f) \in Seq(T) /\ Len(Tail(f)) = Len(f) - 1 /\ Head(f) \in T
           /\ Len(f) \in Nat
           /\ Front(f, i) = {Head(f)} \cup Front(Tail(f), i - 1)
           /\ Back(f, i) = Back(Tail(f), i - 1)
PROOF
<1> DEFINE g == Tail(f)
<1>1. /\ Len(f) \in Nat \ {0} /\ g \in Seq(T) /\ Len(g) = Len(f) - 1
      /\ Head(f) = f[1] /\ f[1] \in T
      /\ \A j \in 1 .. Len(g) : g[j] = f[j + 1]
  OBVIOUS
<1> HIDE DEF g
<1>2. Front(f, i) = {f[1]} \cup Front(g, i - 1)
  <2>1. ASSUME NEW j \in 1 .. i PROVE f[j] \in {f[1]} \cup Front(g, i - 1)
    <3>1. CASE j = 1
      BY <3>1
    <3>2. CASE j # 1
      <4>1. j - 1 \in 1 .. i - 1 /\ j - 1 \in 1 .. Len(g) /\ (j - 1) + 1 = j
        BY <1>1, <3>2
      <4>2. g[j - 1] = f[j]
        BY <1>1, <4>1
      <4> QED
        BY <4>1, <4>2 DEF Front
    <3> QED
      BY <3>1, <3>2
  <2>2. ASSUME NEW j \in 1 .. i - 1 PROVE g[j] \in Front(f, i)
    <3>1. j \in 1 .. Len(g) /\ j + 1 \in 1 .. i
      BY <1>1
    <3> QED
      BY <1>1, <3>1 DEF Front
  <2>3. f[1] \in Front(f, i)
    BY DEF Front
  <2> QED
    BY <2>1, <2>2, <2>3 DEF Front
<1>3. Back(f, i) = Back(g, i - 1)
  <2>1. ASSUME NEW j \in i + 1 .. Len(f) PROVE f[j] \in Back(g, i - 1)
    <3>1. /\ j - 1 \in (i - 1) + 1 .. Len(g) /\ j - 1 \in 1 .. Len(g)
          /\ (j - 1) + 1 = j
      BY <1>1
    <3>2. g[j - 1] = f[j]
      BY <1>1, <3>1
    <3> QED
      BY <3>1, <3>2 DEF Back
  <2>2. ASSUME NEW j \in (i - 1) + 1 .. Len(g) PROVE g[j] \in Back(f, i)
    <3>1. j \in 1 .. Len(g) /\ j + 1 \in i + 1 .. Len(f)
      BY <1>1
    <3> QED
      BY <1>1, <3>1 DEF Back
  <2> QED
    BY <2>1, <2>2 DEF Back
<1> QED
  BY <1>1, <1>2, <1>3 DEF g

\* extend adds to the back.
LEMMA FrontierConcat ==
    ASSUME NEW T, NEW f \in Seq(T), NEW g \in Seq(T), NEW i \in 0 .. Len(f)
    PROVE  /\ f \o g \in Seq(T) /\ Len(f \o g) = Len(f) + Len(g)
           /\ Front(f \o g, i) = Front(f, i)
           /\ Back(f \o g, i) = Back(f, i) \cup Front(g, Len(g))
PROOF
<1> DEFINE h == f \o g
<1>1. /\ Len(f) \in Nat /\ Len(g) \in Nat
      /\ h \in Seq(T) /\ Len(h) = Len(f) + Len(g)
      /\ \A j \in 1 .. Len(f) : h[j] = f[j]
      /\ \A j \in 1 .. Len(g) : h[Len(f) + j] = g[j]
  OBVIOUS
<1> HIDE DEF h
<1>2. Front(h, i) = Front(f, i)
  <2>1. \A j \in 1 .. i : h[j] = f[j]
    BY <1>1
  <2> QED
    BY <2>1 DEF Front
<1>3. Back(h, i) = Back(f, i) \cup Front(g, Len(g))
  <2>1. ASSUME NEW j \in i + 1 .. Len(h)
        PROVE  h[j] \in Back(f, i) \cup Front(g, Len(g))
    <3>1. CASE j <= Len(f)
      <4>1. j \in i + 1 .. Len(f) /\ h[j] = f[j]
        BY <1>1, <3>1
      <4> QED
        BY <4>1 DEF Back
    <3>2. CASE ~ (j <= Len(f))
      <4>1. j - Len(f) \in 1 .. Len(g) /\ Len(f) + (j - Len(f)) = j
        BY <1>1, <3>2
      <4>2. h[j] = g[j - Len(f)]
        BY <1>1, <4>1
      <4> QED
        BY <4>1, <4>2 DEF Front
    <3> QED
      BY <3>1, <3>2
  <2>2. ASSUME NEW j \in i + 1 .. Len(f) PROVE f[j] \in Back(h, i)
    <3>1. j \in i + 1 .. Len(h) /\ h[j] = f[j]
      BY <1>1
    <3> QED
      BY <3>1 DEF Back
  <2>3. ASSUME NEW j \in 1 .. Len(g) PROVE g[j] \in Back(h, i)
    <3>1. Len(f) + j \in i + 1 .. Len(h) /\ h[Len(f) + j] = g[j]
      BY <1>1
    <3> QED
      BY <3>1 DEF Back
  <2> QED
    BY <2>1, <2>2, <2>3 DEF Back, Front
<1> QED
  BY <1>1, <1>2, <1>3 DEF h

\* The layer after the last one of r.
Beyond(r) == (UNION {Parents(u) : u \in r.last}) \ r.all

\* The walk is in the layer after r: it has been at D, the front of the
\* frontier holds the others and the rest the parents of D.
Within(w, r, i, D) ==
    /\ w \in Walk
    /\ i \in 0 .. Len(w.frontier)
    /\ D \subseteq Beyond(r)
    /\ w.seen = r.all \cup D
    /\ Front(w.frontier, i) \subseteq r.all \cup Beyond(r)
    /\ Beyond(r) \subseteq D \cup Front(w.frontier, i)
    /\ Back(w.frontier, i) = UNION {Parents(u) : u \in D}
    /\ w.root \in IF D = {} THEN r.last ELSE D

\* A turn leads to a state of the walk.
LEMMA TurnIsWalk ==
    ASSUME NEW w \in Walk, w.frontier # <<>>
    PROVE  /\ Turn(w) \in Walk
           /\ Head(w.frontier) \in Tasks
           /\ Parents(Head(w.frontier)) \in SUBSET Tasks
           /\ Sorted(Parents(Head(w.frontier))) \in Seq(Tasks)
PROOF
<1> DEFINE p == Head(w.frontier)
<1>1. /\ w.frontier \in Seq(Tasks) /\ w.seen \in SUBSET Tasks
      /\ w.root \in Tasks
      /\ w = [frontier |-> w.frontier, seen |-> w.seen, root |-> w.root]
  BY DEF Walk
<1>2. p \in Tasks /\ Tail(w.frontier) \in Seq(Tasks)
  BY <1>1
<1>3. Parents(p) \in SUBSET Tasks
  BY DEF Parents
<1>4. Sorted(Parents(p)) \in Seq(Tasks)
  BY <1>3, SortedTasks
<1>5. Tail(w.frontier) \o Sorted(Parents(p)) \in Seq(Tasks)
  BY <1>2, <1>4
<1>6. ASSUME p \in w.seen PROVE Turn(w) \in Walk
  <2>1. Turn(w) = [frontier |-> Tail(w.frontier), seen |-> w.seen, root |-> w.root]
    BY <1>1, <1>6 DEF Turn
  <2> QED
    BY <1>1, <1>2, <2>1 DEF Walk
<1>7. ASSUME p \notin w.seen PROVE Turn(w) \in Walk
  <2>1. Turn(w) = [frontier |-> Tail(w.frontier) \o Sorted(Parents(p)),
                   seen |-> w.seen \cup {p}, root |-> p]
    BY <1>7 DEF Turn
  <2> HIDE DEF p
  <2> QED
    BY <1>1, <1>2, <1>5, <2>1 DEF Walk
<1> QED
  BY <1>2, <1>3, <1>4, <1>6, <1>7

\* A turn takes the first of the front: it is a task of the layer, or one that
\* the walk has been at.
LEMMA TurnWithin ==
    ASSUME NEW w, NEW r, NEW D, NEW i, Within(w, r, i, D), i # 0
    PROVE  \E E : Within(Turn(w), r, i - 1, E)
PROOF
<1> DEFINE f == w.frontier
           p == Head(f)
           g == Tail(f)
           q == Sorted(Parents(p))
<1>1. w \in Walk /\ f \in Seq(Tasks) /\ i \in 1 .. Len(f) /\ f # <<>>
  BY DEF Within, Walk
<1>2. /\ g \in Seq(Tasks) /\ Len(g) = Len(f) - 1 /\ Len(f) \in Nat
      /\ Front(f, i) = {p} \cup Front(g, i - 1)
      /\ Back(f, i) = Back(g, i - 1)
  BY <1>1, FrontierTail
<1>3. i - 1 \in 0 .. Len(g)
  BY <1>1, <1>2
<1>4. Turn(w) \in Walk /\ Parents(p) \in SUBSET Tasks /\ q \in Seq(Tasks)
  BY <1>1, TurnIsWalk
<1>5. Front(q, Len(q)) = Parents(p)
  BY <1>4, SortedTasks DEF Front
<1>6. p \in r.all \cup Beyond(r)
  BY <1>2 DEF Within
<1>7. CASE p \in w.seen
  <2>1. /\ Turn(w).frontier = g /\ Turn(w).seen = w.seen
        /\ Turn(w).root = w.root
    BY <1>1, <1>7 DEF Turn, Walk
  <2>2. p \in Beyond(r) => p \in D
    BY <1>7 DEF Within, Beyond
  <2> HIDE DEF f, g, p, q
  <2>3. /\ Beyond(r) \subseteq D \cup Front(g, i - 1)
        /\ Front(g, i - 1) \subseteq r.all \cup Beyond(r)
        /\ Back(g, i - 1) = UNION {Parents(u) : u \in D}
    BY <1>2, <2>2 DEF Within, f
  <2>4. Within(Turn(w), r, i - 1, D)
    BY <1>3, <1>4, <2>1, <2>3 DEF Within
  <2> QED
    BY <2>4
<1>8. CASE p \notin w.seen
  <2> DEFINE E == D \cup {p}
  <2>1. /\ Turn(w).frontier = g \o q /\ Turn(w).seen = w.seen \cup {p}
        /\ Turn(w).root = p
    BY <1>1, <1>8 DEF Turn
  <2> HIDE DEF f, g, p, q
  <2>2. /\ Front(g \o q, i - 1) = Front(g, i - 1)
        /\ Back(g \o q, i - 1) = Back(g, i - 1) \cup Parents(p)
        /\ Len(g \o q) = Len(g) + Len(q)
    BY <1>2, <1>3, <1>4, <1>5, FrontierConcat
  <2>3. i - 1 \in 0 .. Len(g \o q)
    <3>1. Len(g) \in Nat /\ Len(q) \in Nat
      BY <1>2, <1>4
    <3> QED
      BY <1>3, <2>2, <3>1
  <2>4. p \in Beyond(r)
    BY <1>6, <1>8 DEF Within
  <2>5. /\ Beyond(r) \subseteq E \cup Front(g, i - 1)
        /\ Front(g, i - 1) \subseteq r.all \cup Beyond(r)
        /\ E \subseteq Beyond(r) /\ E # {} /\ p \in E
        /\ w.seen \cup {p} = r.all \cup E
    BY <1>2, <2>4 DEF Within, f
  <2>6. Back(g, i - 1) \cup Parents(p) = UNION {Parents(u) : u \in E}
    BY <1>2 DEF Within, f
  <2> HIDE DEF E
  <2>7. Within(Turn(w), r, i - 1, E)
    BY <1>4, <2>1, <2>2, <2>3, <2>5, <2>6 DEF Within
  <2> QED
    BY <2>7
<1> QED
  BY <1>7, <1>8

\* Once the front is empty, the walk enters the next layer.
LEMMA NextLayer ==
    ASSUME NEW w, NEW r, NEW D, Within(w, r, 0, D), w.frontier # <<>>,
           NEW t, NEW n, Reached(r, n, t)
    PROVE  /\ Within(w, Further(r), Len(w.frontier), {})
           /\ Len(w.frontier) # 0 /\ Beyond(r) # {}
PROOF
<1> DEFINE f == w.frontier
           s == Further(r)
<1>1. w \in Walk /\ f \in Seq(Tasks) /\ Len(f) \in Nat \ {0}
  BY DEF Within, Walk
<1>2. Front(f, 0) = {} /\ Back(f, Len(f)) = {} /\ Back(f, 0) = Front(f, Len(f))
  BY <1>1 DEF Front, Back
<1>3. D = Beyond(r)
  BY <1>2 DEF Within
<1>4. D # {}
  <2>1. f[1] \in Back(f, 0)
    BY <1>1 DEF Back
  <2> QED
    BY <2>1 DEF Within
<1>5. s.all = r.all \cup D /\ s.last = D
  BY <1>3, <1>4 DEF Further, Beyond
<1>6. Front(f, Len(f)) = UNION {Parents(u) : u \in s.last}
  BY <1>2, <1>5 DEF Within
<1>7. Beyond(s) = Front(f, Len(f)) \ s.all
  BY <1>6 DEF Beyond
<1>8. Len(f) \in 0 .. Len(f)
  BY <1>1
<1>9. w.seen = s.all /\ w.root \in s.last
  BY <1>4, <1>5 DEF Within
<1> HIDE DEF s, f
<1>10. Within(w, s, Len(w.frontier), {})
  BY <1>1, <1>2, <1>7, <1>8, <1>9 DEF Within, f
<1> QED
  BY <1>1, <1>3, <1>4, <1>10 DEF s, f

\* When nothing is left, the root is in a layer that is the last.
LEMMA WalkEnds ==
    ASSUME NEW w, NEW r, NEW D, NEW i, Within(w, r, i, D), w.frontier = <<>>
    PROVE  \/ w.root \in r.last /\ Beyond(r) = {}
           \/ /\ w.root \in Further(r).last /\ Beyond(Further(r)) = {}
              /\ Beyond(r) # {}
PROOF
<1>1. i = 0 /\ Front(w.frontier, i) = {} /\ Back(w.frontier, i) = {}
  BY DEF Within, Front, Back
<1>2. D = Beyond(r) /\ UNION {Parents(u) : u \in D} = {}
  BY <1>1 DEF Within
<1>3. CASE D = {}
  BY <1>2, <1>3 DEF Within
<1>4. CASE D # {}
  <2>1. Further(r).last = D
    BY <1>2, <1>4 DEF Further, Beyond
  <2> QED
    BY <1>2, <1>4, <2>1 DEF Within, Beyond
<1> QED
  BY <1>3, <1>4

\* After the last layer the rounds change nothing.
LEMMA LastStays ==
    ASSUME NEW t \in Tasks, NEW N \in Nat, NEW f, Layered(f, N, t),
           NEW n \in 0 .. N, Beyond(f[n]) = {}
    PROVE  f[N].last = f[n].last
PROOF
<1> DEFINE S == {k \in Nat : n + k <= N => /\ f[n + k].last = f[n].last
                                          /\ f[n + k].all = f[n].all}
<1>1. 0 \in S
  OBVIOUS
<1>2. ASSUME NEW k \in Nat, k \in S PROVE k + 1 \in S
  <2>1. ASSUME n + (k + 1) <= N
        PROVE  /\ f[n + (k + 1)].last = f[n].last
               /\ f[n + (k + 1)].all = f[n].all
    <3>1. f[n + (k + 1)] = Further(f[n + k])
      <4>1. n + (k + 1) \in 0 .. N /\ n + (k + 1) # 0 /\ n + (k + 1) - 1 = n + k
        BY <2>1
      <4> QED
        BY <4>1 DEF Layered
    <3>2. f[n + k].last = f[n].last /\ f[n + k].all = f[n].all
      BY <1>2, <2>1
    <3>3. Beyond(f[n + k]) = {}
      BY <3>2 DEF Beyond
    <3> QED
      BY <3>1, <3>2, <3>3 DEF Further, Beyond
  <2> QED
    BY <2>1
<1>3. Nat \subseteq S
  <2> HIDE DEF S
  <2> QED
    BY <1>1, <1>2, SetInduction
<1>4. N - n \in S /\ n + (N - n) = N
  BY <1>3
<1> QED
  BY <1>4

\* The states of a walk from t.
InWalk(w, f) ==
    \E n \in 0 .. Cardinality(Tasks) : \E i, D : Within(w, f[n], i, D)

\* A turn stays in its layer or enters the next one, which is not the last
\* round: only then is nothing missing.
LEMMA TurnInWalk ==
    ASSUME NEW t \in Tasks, NEW f, Layered(f, Cardinality(Tasks), t),
           NEW w, InWalk(w, f), w.frontier # <<>>
    PROVE  InWalk(Turn(w), f)
PROOF
<1> DEFINE N == Cardinality(Tasks)
<1>1. N \in Nat
  BY TasksAssumption, FS_CardinalityType
<1>2. PICK n \in 0 .. N : \E i, D : Within(w, f[n], i, D)
  BY DEF InWalk
<1>3. PICK i, D : Within(w, f[n], i, D)
  BY <1>2
<1>4. Reached(f[n], n, t)
  BY <1>1, LayersAreReached
<1>5. CASE i # 0
  BY <1>3, <1>5, TurnWithin DEF InWalk
<1>6. CASE i = 0
  <2>1. /\ Within(w, Further(f[n]), Len(w.frontier), {})
        /\ Len(w.frontier) # 0 /\ Beyond(f[n]) # {}
    BY <1>3, <1>4, <1>6, NextLayer
  <2>2. n # N
    BY <1>4, <2>1, ReachedIsClosed DEF Closed, Beyond, Reached
  <2>3. n + 1 \in 0 .. N /\ n + 1 # 0 /\ n + 1 - 1 = n
    BY <1>1, <2>2
  <2>4. f[n + 1] = Further(f[n])
    BY <2>3 DEF Layered
  <2>5. \E E : Within(Turn(w), f[n + 1], Len(w.frontier) - 1, E)
    BY <2>1, <2>4, TurnWithin
  <2> QED
    BY <2>3, <2>5 DEF InWalk
<1> QED
  BY <1>5, <1>6

\* The root that a walk ends with is in the last layer.
LEMMA WalkEndsLast ==
    ASSUME NEW t \in Tasks, NEW f, Layered(f, Cardinality(Tasks), t),
           NEW w, InWalk(w, f), w.frontier = <<>>
    PROVE  w.root \in f[Cardinality(Tasks)].last
PROOF
<1> DEFINE N == Cardinality(Tasks)
<1>1. N \in Nat
  BY TasksAssumption, FS_CardinalityType
<1>2. PICK n \in 0 .. N : \E i, D : Within(w, f[n], i, D)
  BY DEF InWalk
<1>3. PICK i, D : Within(w, f[n], i, D)
  BY <1>2
<1>4. Reached(f[n], n, t)
  BY <1>1, LayersAreReached
<1>5. CASE w.root \in f[n].last /\ Beyond(f[n]) = {}
  BY <1>1, <1>5, LastStays
<1>6. CASE /\ w.root \in Further(f[n]).last /\ Beyond(Further(f[n])) = {}
           /\ Beyond(f[n]) # {}
  <2>2. n # N
    BY <1>4, <1>6, ReachedIsClosed DEF Closed, Beyond, Reached
  <2>3. n + 1 \in 0 .. N /\ n + 1 # 0 /\ n + 1 - 1 = n
    BY <1>1, <2>2
  <2>4. f[n + 1] = Further(f[n])
    BY <2>3 DEF Layered
  <2> QED
    BY <1>1, <1>6, <2>3, <2>4, LastStays
<1> QED
  BY <1>3, <1>5, <1>6, WalkEnds

\* The turns that a walk has left, at most.
TurnsLeft(w) ==
    (Cardinality(Tasks) - Cardinality(w.seen)) * (Cardinality(Tasks) + 1)
        + Len(w.frontier)

\* A turn that adds parents to the frontier has seen one task more.
LEMMA TurnsDecrease ==
    ASSUME NEW w \in Walk
    PROVE  /\ TurnsLeft(w) \in Nat
           /\ w.frontier # <<>> =>
                /\ TurnsLeft(Turn(w)) \in Nat
                /\ TurnsLeft(Turn(w)) < TurnsLeft(w)
PROOF
<1> DEFINE N == Cardinality(Tasks)
           p == Head(w.frontier)
           q == Sorted(Parents(p))
<1>1. N \in Nat
  BY TasksAssumption, FS_CardinalityType
<1>2. ASSUME NEW v \in Walk
      PROVE  /\ Cardinality(v.seen) \in Nat /\ Cardinality(v.seen) <= N
             /\ IsFiniteSet(v.seen)
             /\ Len(v.frontier) \in Nat
             /\ N - Cardinality(v.seen) \in Nat
             /\ TurnsLeft(v) \in Nat
  <2>1. v.seen \in SUBSET Tasks /\ v.frontier \in Seq(Tasks)
    BY DEF Walk
  <2>2. /\ Cardinality(v.seen) \in Nat /\ Cardinality(v.seen) <= N
        /\ IsFiniteSet(v.seen)
    BY <2>1, TasksAssumption, FS_Subset, FS_CardinalityType
  <2>3. Len(v.frontier) \in Nat
    BY <2>1
  <2> DEFINE a == N - Cardinality(v.seen)
  <2>4. a \in Nat
    BY <1>1, <2>2
  <2>5. \A x, y, z \in Nat : x * (y + 1) + z \in Nat
    OBVIOUS
  <2>6. TurnsLeft(v) = a * (N + 1) + Len(v.frontier)
    BY DEF TurnsLeft
  <2> HIDE DEF a, N
  <2>7. TurnsLeft(v) \in Nat
    BY <1>1, <2>3, <2>4, <2>5, <2>6
  <2> QED
    BY <2>2, <2>3, <2>4, <2>7 DEF a
<1>3. ASSUME w.frontier # <<>> PROVE TurnsLeft(Turn(w)) < TurnsLeft(w)
  <2>1. /\ Turn(w) \in Walk /\ p \in Tasks /\ Parents(p) \in SUBSET Tasks
        /\ q \in Seq(Tasks) /\ Len(q) \in Nat /\ Len(q) <= N
    BY <1>3, TurnIsWalk, SortedTasks
  <2>2. /\ w.frontier \in Seq(Tasks) /\ Tail(w.frontier) \in Seq(Tasks)
        /\ Len(w.frontier) \in Nat \ {0}
        /\ Len(Tail(w.frontier)) = Len(w.frontier) - 1
    BY <1>3 DEF Walk
  <2>3. CASE p \in w.seen
    <3>1. Turn(w).seen = w.seen /\ Turn(w).frontier = Tail(w.frontier)
      BY <2>3 DEF Turn, Walk
    <3> DEFINE b == (N - Cardinality(w.seen)) * (N + 1)
    <3>2. b \in Nat
      <4>1. \A x, y \in Nat : x * (y + 1) \in Nat
        OBVIOUS
      <4>2. N - Cardinality(w.seen) \in Nat
        BY <1>2
      <4> QED
        BY <1>1, <4>1, <4>2
    <3>3. /\ TurnsLeft(w) = b + Len(w.frontier)
          /\ TurnsLeft(Turn(w)) = b + (Len(w.frontier) - 1)
      BY <2>2, <3>1 DEF TurnsLeft
    <3> HIDE DEF b
    <3> QED
      BY <2>2, <3>2, <3>3
  <2>4. CASE p \notin w.seen
    <3>1. /\ Turn(w).seen = w.seen \cup {p}
          /\ Turn(w).frontier = Tail(w.frontier) \o q
      BY <2>4 DEF Turn
    <3>2. Len(Turn(w).frontier) = Len(w.frontier) - 1 + Len(q)
      <4> DEFINE g == Tail(w.frontier)
      <4>1. g \in Seq(Tasks) /\ Len(g) = Len(w.frontier) - 1
        BY <2>2
      <4> HIDE DEF g, q
      <4>2. Len(g \o q) = Len(g) + Len(q)
        BY <2>1, <4>1
      <4> QED
        BY <3>1, <4>1, <4>2 DEF g
    <3>3. Cardinality(Turn(w).seen) = Cardinality(w.seen) + 1
      BY <1>2, <2>4, <3>1, FS_AddElement
    <3> DEFINE a == N - Cardinality(Turn(w).seen)
    <3>4. a \in Nat /\ N - Cardinality(w.seen) = a + 1
      BY <1>1, <1>2, <2>1, <3>3
    <3>5. /\ TurnsLeft(w) = (a + 1) * (N + 1) + Len(w.frontier)
          /\ TurnsLeft(Turn(w)) = a * (N + 1) + (Len(w.frontier) - 1 + Len(q))
      BY <3>2, <3>4 DEF TurnsLeft
    <3>6. \A x, y, l \in Nat : \A k \in 0 .. y :
              x * (y + 1) + (l - 1 + k) < (x + 1) * (y + 1) + l
      <4>1. ASSUME NEW x \in Nat, NEW y \in Nat, NEW l \in Nat, NEW k \in 0 .. y
            PROVE  x * (y + 1) + (l - 1 + k) < (x + 1) * (y + 1) + l
        <5>1. (x + 1) * (y + 1) = x * (y + 1) + (y + 1)
          OBVIOUS
        <5>2. x * (y + 1) \in Nat
          OBVIOUS
        <5> QED
          BY <5>1, <5>2
      <4> QED
        BY <4>1
    <3>7. Len(q) \in 0 .. N
      BY <1>1, <2>1
    <3> HIDE DEF a, N, q
    <3> QED
      BY <1>1, <2>2, <3>4, <3>5, <3>6, <3>7
  <2> QED
    BY <2>3, <2>4
<1> QED
  BY <1>2, <1>3, TurnIsWalk

\* walk in Root.
Walks(v) == v = [w \in Walk |-> IF w.frontier = <<>> THEN w.root ELSE v[Turn(w)]]

\* The walk is a recursion that ends, within its invariant.
LEMMA RootIsLast ==
    ASSUME NEW t \in Tasks
    PROVE  Root(t) \in Layers(t).last
PROOF
<1> DEFINE N == Cardinality(Tasks)
           Z == {w \in Walk : w.frontier = <<>>}
           c == [w \in Walk |-> w.root]
           next == [w \in Walk |-> IF w.frontier = <<>> THEN w ELSE Turn(w)]
           m == [w \in Walk |-> TurnsLeft(w)]
           start == [frontier |-> Sorted(Parents(t)), seen |-> {t}, root |-> t]
<1>1. N \in Nat
  BY TasksAssumption, FS_CardinalityType
<1>2. PICK f : Layered(f, N, t) /\ Layers(t) = f[N]
  BY <1>1, LayersAreLayered
<1> DEFINE I == {w \in Walk : InWalk(w, f)}
<1>3. next \in [Walk -> Walk]
  BY TurnIsWalk
<1>4. m \in [Walk -> Nat]
  BY TurnsDecrease
<1>5. CountsDown(m, Walk, Z, next)
  <2>1. \A w \in Walk \ Z : m[next[w]] < m[w]
    BY TurnsDecrease, TurnIsWalk
  <2> HIDE DEF Z, next, m
  <2> QED
    BY <1>3, <1>4, <2>1 DEF CountsDown
<1>6. \A v : Walks(v) <=> Recurses(v, Walk, Z, c, next)
  <2>1. ASSUME NEW v, NEW w \in Walk
        PROVE  (IF w.frontier = <<>> THEN w.root ELSE v[Turn(w)])
                 = IF w \in Z THEN c[w] ELSE v[next[w]]
    OBVIOUS
  <2> HIDE DEF Z, c, next
  <2>2. ASSUME NEW v
        PROVE  [w \in Walk |-> IF w.frontier = <<>> THEN w.root ELSE v[Turn(w)]]
                 = [w \in Walk |-> IF w \in Z THEN c[w] ELSE v[next[w]]]
    BY <2>1
  <2> QED
    BY <2>2 DEF Walks, Recurses
<1> DEFINE walk == CHOOSE v : Walks(v)
<1>7. Recurses(walk, Walk, Z, c, next)
  <2>1. \E v : Recurses(v, Walk, Z, c, next)
    <3> HIDE DEF Z, c, next, m
    <3> QED
      BY <1>5, TailRecursion
  <2> HIDE DEF Z, c, next
  <2> QED
    BY <1>6, <2>1
<1>8. Root(t) = walk[start]
  BY DEF Root, Walks
<1>9. \A w \in I \ Z : next[w] \in I
  BY <1>2, TurnInWalk, TurnIsWalk
<1>10. \A w \in I \cap Z : c[w] \in Layers(t).last
  BY <1>2, WalkEndsLast
<1>11. start \in I
  <2>1. /\ Parents(t) \in SUBSET Tasks /\ Sorted(Parents(t)) \in Seq(Tasks)
        /\ Front(Sorted(Parents(t)), Len(Sorted(Parents(t)))) = Parents(t)
    BY SortedTasks DEF Parents, Front
  <2>2. start \in Walk
    BY <2>1 DEF Walk
  <2>3. /\ Len(start.frontier) \in Nat
        /\ Back(start.frontier, Len(start.frontier)) = {}
    BY <2>1 DEF Back
  <2>4. f[0] = First(t) /\ 0 \in 0 .. N
    BY <1>1, <1>2 DEF Layered
  <2>5. Beyond(f[0]) = Parents(t) \ {t}
    BY <2>4 DEF Beyond, First
  <2>6. /\ Front(start.frontier, Len(start.frontier)) = Parents(t)
        /\ start.seen = {t} /\ start.root = t
    BY <2>1
  <2> HIDE DEF start
  <2>7. /\ Len(start.frontier) \in 0 .. Len(start.frontier)
        /\ UNION {Parents(u) : u \in {}} = {}
        /\ f[0].all = {t} /\ f[0].last = {t}
    BY <2>3, <2>4 DEF First
  <2>8. Within(start, f[0], Len(start.frontier), {})
    BY <2>2, <2>3, <2>5, <2>6, <2>7 DEF Within
  <2> QED
    BY <2>2, <2>4, <2>8 DEF InWalk
<1> HIDE DEF Z, c, next, m, start, walk
<1>12. I \in SUBSET Walk
  OBVIOUS
<1> DEFINE G == Layers(t).last
<1> HIDE DEF I, G
<1>13. Leads(I, G, Walk, Z, c, next)
  BY <1>9, <1>10, <1>12 DEF Leads, G
<1>14. \A w \in I : walk[w] \in G
  BY <1>5, <1>7, <1>13, TailInduction
<1> QED
  BY <1>8, <1>11, <1>14 DEF G

\* The root that the relationship of a task names is one of its farthest
\* ancestors, on every board and whatever its cycles: the walk is breadth
\* first, so it leaves no layer before it has been everywhere in it.
THEOREM RootIsFarthestHolds == Spec => []RootIsFarthest
PROOF
<1>1. RootIsFarthest
  BY RootIsLast DEF RootIsFarthest
<1> QED
  BY <1>1, PTL

=============================================================================
