-------------------------- MODULE LeaderLock_proofs --------------------------
(***************************************************************************)
(* Proofs about LeaderLock, for any number of supervisors and processes    *)
(* and any lease, heartbeat and join times that satisfy Timely.            *)
(***************************************************************************)
EXTENDS LeaderLock, TLAPS

-----------------------------------------------------------------------------
(* The inductive invariant.                                                *)

Live(s) == life[s] \in {"started", "stopping"}

\* A process has at most one supervisor that has not returned from stop().
OneLive ==
    \A s, t \in Supervisors :
        Live(s) /\ Live(t) /\ Owner[s] = Owner[t] => s = t

\* A thread in a tick belongs to a live supervisor: stop() outwaits it.
TickIsLive == \A s \in Supervisors : InTick(s) => Live(s)

\* Where the clock is with respect to what the threads remember of it.
ClockInv ==
    /\ clock >= HeartbeatSeconds
    /\ \A s \in Supervisors :
         /\ InTick(s) => /\ HeartbeatSeconds <= now[s]
                         /\ now[s] <= clock
                         /\ clock <= now[s] + TickBound
         /\ InTick(s) /\ life[s] = "stopping" => now[s] <= stop_at[s]
         /\ Acting(s) => now[s] < last_heartbeat[s] + HeartbeatSeconds
         /\ Acting(s) => last_heartbeat[s] > 0
         /\ life[s] = "stopping" => stop_at[s] <= clock

\* A live supervisor owns the row from a heartbeat until its lease is over.
LeaseInv ==
    \A s \in Supervisors :
        /\ Live(s)
        /\ last_heartbeat[s] > 0
        /\ clock < last_heartbeat[s] + LeaseSeconds
        => /\ lock.owner = Owner[s]
           /\ lock.expires_at >= last_heartbeat[s] + LeaseSeconds

\* No lease runs longer than one that a tick under way would write.
RowInv ==
    /\ lock.expires_at <= clock + LeaseSeconds
    /\ \A s \in Supervisors :
         InTick(s) /\ lock.owner = Owner[s]
             => lock.expires_at <= now[s] + LeaseSeconds

IInv ==
    /\ TypeOK
    /\ OneLive
    /\ TickIsLive
    /\ ClockInv
    /\ LeaseInv
    /\ RowInv
    /\ CleanStop

-----------------------------------------------------------------------------
(* Type correctness.                                                       *)

LEMMA TypeStep == TypeOK /\ [Next]_vars => TypeOK'
<1> SUFFICES ASSUME TypeOK, [Next]_vars PROVE TypeOK'
  OBVIOUS
<1> USE OwnerAssumption, TimeAssumption DEF TypeOK, LockRow
<1>1. ASSUME NEW s \in Supervisors, Register(s) PROVE TypeOK'
  BY <1>1 DEF Register
<1>2. ASSUME NEW s \in Supervisors, Unregister(s) PROVE TypeOK'
  BY <1>2 DEF Unregister
<1>3. ASSUME NEW s \in Supervisors, StopReturns(s) PROVE TypeOK'
  BY <1>3 DEF StopReturns, Release
<1>4. ASSUME NEW s \in Supervisors, LoopExit(s) PROVE TypeOK'
  BY <1>4 DEF LoopExit
<1>5. ASSUME NEW s \in Supervisors, BeginTick(s) PROVE TypeOK'
  BY <1>5 DEF BeginTick
<1>6. ASSUME NEW s \in Supervisors,
             HeartbeatHits(s) \/ AcquireGranted(s)
      PROVE  TypeOK'
  BY <1>6 DEF HeartbeatHits, AcquireGranted, Leased
<1>7. ASSUME NEW s \in Supervisors, HeartbeatMisses(s) PROVE TypeOK'
  BY <1>7 DEF HeartbeatMisses
<1>8. ASSUME NEW s \in Supervisors,
             AcquireRefused(s) \/ EndTick(s) \/ LockError(s)
      PROVE  TypeOK'
  BY <1>8 DEF AcquireRefused, EndTick, LockError, LoopAgain
<1>9. ASSUME NEW o \in Owners, Crash(o) PROVE TypeOK'
  BY <1>9 DEF Crash
<1>10. CASE Advance
  BY <1>10 DEF Advance
<1>11. CASE UNCHANGED vars
  BY <1>11 DEF vars
<1> QED
  BY <1>1, <1>2, <1>3, <1>4, <1>5, <1>6, <1>7, <1>8, <1>9, <1>10, <1>11
  DEF Next, Lifecycle, Loop, Ensure

\* Every step of the lock and of the loops keeps the variables in their
\* types; in particular the row is NoLock or a full row.
THEOREM TypeCorrect == Spec => []TypeOK
<1>1. Init => TypeOK
  BY TimeAssumption DEF Init, TypeOK, LockRow
<1> QED
  BY <1>1, TypeStep, PTL DEF Spec

-----------------------------------------------------------------------------
(* The inductive invariant holds.                                          *)

\* The row NoLock stands for belongs to nobody.
LEMMA NobodyOwnsNoLock ==
    /\ NoLock.owner = "none"
    /\ NoLock.expires_at = 0
    /\ \A s \in Supervisors : Owner[s] # NoLock.owner
BY OwnerAssumption DEF NoLock

LEMMA InitIInv == Timely /\ Init => IInv
BY OwnerAssumption, TimeAssumption
DEF Init, IInv, TypeOK, LockRow, NoLock, OneLive, Live, TickIsLive, InTick,
    ClockInv, Acting, LeaseInv, RowInv, CleanStop, Process

\* The thread that writes the row is the only live one of its process, so no
\* other supervisor's view of that row can be about the same owner.
LEMMA OnlyThread ==
    ASSUME IInv, NEW s \in Supervisors, NEW t \in Supervisors,
           InTick(s), Live(t), Owner[t] = Owner[s]
    PROVE  t = s
BY DEF IInv, OneLive, TickIsLive

\* register() builds a fresh object in a process that has no live one.
LEMMA RegisterIInv ==
    ASSUME Timely, IInv, TypeOK', NEW s \in Supervisors, Register(s)
    PROVE  IInv'
<1> USE OwnerAssumption, TimeAssumption DEF TypeOK, LockRow
<1>1. OneLive'
  BY DEF IInv, OneLive, Live, Register, Process
<1>2. TickIsLive'
  BY DEF IInv, TickIsLive, InTick, Live, Register
<1>3. ClockInv'
  BY DEF IInv, ClockInv, InTick, Acting, Register
<1>4. LeaseInv'
  BY DEF IInv, LeaseInv, Live, Register
<1>5. RowInv'
  BY DEF IInv, RowInv, InTick, Register
<1>6. CleanStop'
  BY DEF IInv, CleanStop, InTick, Register, Process
<1> QED
  BY <1>1, <1>2, <1>3, <1>4, <1>5, <1>6 DEF IInv

LEMMA UnregisterIInv ==
    ASSUME Timely, IInv, TypeOK', NEW s \in Supervisors, Unregister(s)
    PROVE  IInv'
<1> USE OwnerAssumption, TimeAssumption DEF TypeOK, LockRow
<1>1. OneLive'
  BY DEF IInv, OneLive, Live, Unregister
<1>2. TickIsLive'
  BY DEF IInv, TickIsLive, InTick, Live, Unregister
<1>3. ClockInv'
  BY DEF IInv, ClockInv, InTick, Acting, Unregister
<1>4. LeaseInv'
  BY DEF IInv, LeaseInv, Live, Unregister
<1>5. RowInv'
  BY DEF IInv, RowInv, InTick, Unregister
<1>6. CleanStop'
  BY DEF IInv, CleanStop, InTick, Unregister, Process
<1> QED
  BY <1>1, <1>2, <1>3, <1>4, <1>5, <1>6 DEF IInv

\* When the join times out the tick is over: it began before the stop event
\* was set and is shorter than the join.
LEMMA StopReturnsIInv ==
    ASSUME Timely, IInv, TypeOK', NEW s \in Supervisors, StopReturns(s)
    PROVE  IInv'
<1> USE OwnerAssumption, TimeAssumption DEF TypeOK, LockRow
<1>0. ~InTick(s)
  BY DEF IInv, ClockInv, InTick, StopReturns, JoinReturns, Timely
<1>1. OneLive'
  BY DEF IInv, OneLive, Live, StopReturns
<1>2. TickIsLive'
  BY <1>0 DEF IInv, TickIsLive, InTick, Live, StopReturns
<1>3. ClockInv'
  BY DEF IInv, ClockInv, InTick, Acting, StopReturns
<1>4. LeaseInv'
  <2> SUFFICES ASSUME NEW t \in Supervisors, Live(t)', last_heartbeat'[t] > 0,
                      clock' < last_heartbeat'[t] + LeaseSeconds
               PROVE  /\ lock'.owner = Owner[t]
                      /\ lock'.expires_at >= last_heartbeat'[t] + LeaseSeconds
    BY DEF LeaseInv
  <2>1. t # s /\ Live(t) /\ Live(s)
    BY DEF Live, StopReturns
  <2>2. Owner[t] # Owner[s]
    BY <2>1 DEF IInv, OneLive
  <2>3. lock.owner = Owner[t] /\ lock.expires_at >= last_heartbeat[t] + LeaseSeconds
    BY <2>1 DEF IInv, LeaseInv, StopReturns
  <2> QED
    BY <2>2, <2>3 DEF StopReturns, Release
<1>5. RowInv'
  BY DEF IInv, RowInv, InTick, StopReturns, Release, NoLock
<1>6. CleanStop'
  <2> SUFFICES ASSUME NEW t \in Supervisors, life'[t] = "stopped"
               PROVE  /\ ~InTick(t)'
                      /\ lock'.owner = Owner[t] =>
                           \E u \in Process(t) : life'[u] \in {"started", "stopping"}
    BY DEF CleanStop, Process
  <2>1. CASE Owner[t] = Owner[s]
    <3>1. lock'.owner # Owner[t]
      BY <2>1, NobodyOwnsNoLock DEF StopReturns, Release
    <3>2. ~InTick(t)'
      BY <1>0 DEF IInv, CleanStop, InTick, StopReturns
    <3> QED
      BY <3>1, <3>2
  <2>2. CASE Owner[t] # Owner[s]
    <3>1. life[t] = "stopped" /\ ~InTick(t)' /\ (lock'.owner = Owner[t] => lock.owner = Owner[t])
      BY <2>2, <1>0, NobodyOwnsNoLock
      DEF IInv, CleanStop, InTick, StopReturns, Release
    <3>2. \A u \in Process(t) : life'[u] = life[u]
      BY <2>2 DEF Process, StopReturns
    <3> QED
      BY <3>1, <3>2 DEF IInv, CleanStop
  <2> QED
    BY <2>1, <2>2
<1> QED
  BY <1>1, <1>2, <1>3, <1>4, <1>5, <1>6 DEF IInv

\* A dead process leaves its row; nobody relies on it any more.
LEMMA CrashIInv ==
    ASSUME Timely, IInv, TypeOK', NEW o \in Owners, Crash(o)
    PROVE  IInv'
<1> USE OwnerAssumption, TimeAssumption DEF TypeOK, LockRow
<1>1. OneLive'
  BY DEF IInv, OneLive, Live, Crash
<1>2. TickIsLive'
  BY DEF IInv, TickIsLive, InTick, Live, Crash
<1>3. ClockInv'
  BY DEF IInv, ClockInv, InTick, Acting, Crash
<1>4. LeaseInv'
  BY DEF IInv, LeaseInv, Live, Crash
<1>5. RowInv'
  BY DEF IInv, RowInv, InTick, Crash
<1>6. CleanStop'
  BY DEF IInv, CleanStop, InTick, Crash, Process
<1> QED
  BY <1>1, <1>2, <1>3, <1>4, <1>5, <1>6 DEF IInv

\* A tick that trusts its cached heartbeat starts inside the lease.
LEMMA BeginTickIInv ==
    ASSUME Timely, IInv, TypeOK', NEW s \in Supervisors, BeginTick(s)
    PROVE  IInv'
<1> USE OwnerAssumption, TimeAssumption DEF TypeOK, LockRow
<1>1. OneLive'
  BY DEF IInv, OneLive, Live, BeginTick
<1>2. TickIsLive'
  BY DEF IInv, TickIsLive, InTick, Live, BeginTick
<1>3. ClockInv'
  BY DEF IInv, ClockInv, InTick, Acting, BeginTick, FreshHeartbeat
<1>4. LeaseInv'
  BY DEF IInv, LeaseInv, Live, BeginTick
<1>5. RowInv'
  BY DEF IInv, RowInv, InTick, BeginTick
<1>6. CleanStop'
  BY DEF IInv, CleanStop, InTick, BeginTick, Process
<1> QED
  BY <1>1, <1>2, <1>3, <1>4, <1>5, <1>6 DEF IInv

\* A heartbeat or an acquire writes the row only when no other live
\* supervisor is inside the lease it wrote there.
LEMMA WriteIInv ==
    ASSUME Timely, IInv, TypeOK', NEW s \in Supervisors,
           HeartbeatHits(s) \/ AcquireGranted(s)
    PROVE  IInv'
<1> USE OwnerAssumption, TimeAssumption DEF TypeOK, LockRow
<1> DEFINE Written == /\ pc[s] \in {"heartbeat", "acquire"}
                      /\ lock' = Leased(s)
                      /\ last_heartbeat' = [last_heartbeat EXCEPT ![s] = now[s]]
                      /\ pc' = [pc EXCEPT ![s] = "collect"]
                      /\ UNCHANGED <<clock, life, now, stop_at>>
<1>0. Written
  BY DEF HeartbeatHits, AcquireGranted
<1>a. InTick(s) /\ Live(s) /\ 0 < now[s] /\ now[s] <= clock
  BY <1>0 DEF InTick, IInv, TickIsLive, ClockInv
<1>b. lock'.owner = Owner[s] /\ lock'.expires_at = now[s] + LeaseSeconds
  BY <1>0 DEF Leased
<1> HIDE DEF Written
<1>1. OneLive'
  BY <1>0 DEF IInv, OneLive, Live, Written
<1>2. TickIsLive'
  BY <1>0 DEF IInv, TickIsLive, InTick, Live, Written
<1>3. ClockInv'
  BY <1>0, <1>a DEF IInv, ClockInv, InTick, Acting, Written
<1>4. LeaseInv'
  <2> SUFFICES ASSUME NEW t \in Supervisors, Live(t)', last_heartbeat'[t] > 0,
                      clock' < last_heartbeat'[t] + LeaseSeconds
               PROVE  /\ lock'.owner = Owner[t]
                      /\ lock'.expires_at >= last_heartbeat'[t] + LeaseSeconds
    BY DEF LeaseInv
  <2>1. CASE t = s
    BY <2>1, <1>0, <1>b DEF Written
  <2>2. CASE t # s
    <3>1. Live(t) /\ last_heartbeat'[t] = last_heartbeat[t] /\ clock' = clock
      BY <2>2, <1>0 DEF Live, Written
    <3>2. /\ lock.owner = Owner[t]
          /\ lock.expires_at >= last_heartbeat[t] + LeaseSeconds
      BY <3>1 DEF IInv, LeaseInv
    <3>3. Owner[t] # Owner[s]
      BY <2>2, <3>1, <1>a, OnlyThread
    <3>4. Refuses(s)
      <4>1. lock # NoLock
        BY <3>2, NobodyOwnsNoLock
      <4>2. lock.expires_at > now[s]
        BY <3>1, <3>2, <4>1, <1>a DEF IInv
      <4> QED
        BY <4>1, <4>2, <3>2, <3>3 DEF Refuses
    <3> QED
      BY <3>2, <3>3, <3>4 DEF HeartbeatHits, AcquireGranted
  <2> QED
    BY <2>1, <2>2
<1>5. RowInv'
  <2> SUFFICES ASSUME NEW t \in Supervisors, InTick(t)', lock'.owner = Owner[t]
               PROVE  lock'.expires_at <= now'[t] + LeaseSeconds
    BY <1>0, <1>a, <1>b DEF RowInv, Written
  <2>1. InTick(t)
    BY <1>0, <1>a DEF InTick, Written
  <2>2. t = s
    BY <2>1, <1>a, <1>b, OnlyThread DEF IInv, TickIsLive
  <2> QED
    BY <2>2, <1>0, <1>b DEF Written
<1>6. CleanStop'
  BY <1>0, <1>a, <1>b DEF IInv, CleanStop, InTick, Live, Process, Written
<1> QED
  BY <1>1, <1>2, <1>3, <1>4, <1>5, <1>6 DEF IInv

\* The steps that only move a thread: out of the loop, on to acquire, or back
\* to the loop.
LEMMA ThreadIInv ==
    ASSUME Timely, IInv, TypeOK', NEW s \in Supervisors,
           \/ LoopExit(s) \/ HeartbeatMisses(s) \/ AcquireRefused(s)
           \/ EndTick(s) \/ LockError(s)
    PROVE  IInv'
<1> USE OwnerAssumption, TimeAssumption DEF TypeOK, LockRow
<1>0. /\ UNCHANGED <<clock, lock, life, last_heartbeat, stop_at>>
      /\ \A t \in Supervisors :
           /\ InTick(t)' => InTick(t) /\ now'[t] = now[t]
           /\ Acting(t)' => Acting(t) /\ InTick(t)
  BY DEF LoopExit, HeartbeatMisses, AcquireRefused, EndTick, LockError,
         LoopAgain, InTick, Acting
<1>1. OneLive'
  BY <1>0 DEF IInv, OneLive, Live
<1>2. TickIsLive'
  BY <1>0 DEF IInv, TickIsLive, Live
<1>3. ClockInv'
  BY <1>0 DEF IInv, ClockInv, InTick, Acting, TypeOK
<1>4. LeaseInv'
  BY <1>0 DEF IInv, LeaseInv, Live
<1>5. RowInv'
  BY <1>0 DEF IInv, RowInv
<1>6. CleanStop'
  BY <1>0 DEF IInv, CleanStop, Process
<1> QED
  BY <1>1, <1>2, <1>3, <1>4, <1>5, <1>6 DEF IInv

LEMMA AdvanceIInv ==
    ASSUME Timely, IInv, TypeOK', Advance
    PROVE  IInv'
<1> USE OwnerAssumption, TimeAssumption DEF TypeOK, LockRow
<1>1. OneLive' /\ TickIsLive' /\ CleanStop'
  BY DEF IInv, OneLive, TickIsLive, CleanStop, Live, InTick, Process, Advance
<1>2. ClockInv'
  BY DEF IInv, ClockInv, InTick, Acting, Advance
<1>3. LeaseInv'
  BY DEF IInv, LeaseInv, Live, Advance
<1>4. RowInv'
  BY NobodyOwnsNoLock DEF IInv, RowInv, InTick, Advance
<1> QED
  BY <1>1, <1>2, <1>3, <1>4 DEF IInv

LEMMA StepIInv == Timely /\ IInv /\ [Next]_vars => IInv'
<1> SUFFICES ASSUME Timely, IInv, [Next]_vars PROVE IInv'
  OBVIOUS
<1>0. TypeOK'
  BY TypeStep DEF IInv
<1>1. CASE UNCHANGED vars
  BY <1>1 DEF vars, IInv, TypeOK, OneLive, Live, TickIsLive, InTick, ClockInv,
              Acting, LeaseInv, RowInv, CleanStop, Process
<1>2. CASE Advance
  BY <1>0, <1>2, AdvanceIInv
<1>3. ASSUME NEW o \in Owners, Crash(o) PROVE IInv'
  BY <1>0, <1>3, CrashIInv
<1>4. ASSUME NEW s \in Supervisors, Lifecycle(s) PROVE IInv'
  BY <1>0, <1>4, RegisterIInv, UnregisterIInv, StopReturnsIInv DEF Lifecycle
<1>5. ASSUME NEW s \in Supervisors, Loop(s) PROVE IInv'
  BY <1>0, <1>5, BeginTickIInv, WriteIInv, ThreadIInv DEF Loop, Ensure
<1> QED
  BY <1>1, <1>2, <1>3, <1>4, <1>5 DEF Next

\* Under Timely the invariant holds in every reachable state: leases outlast
\* what is done under them.
THEOREM Inductive == Timely => (Spec => []IInv)
<1> SUFFICES ASSUME Timely PROVE Spec => []IInv
  OBVIOUS
<1>1. Init => IInv
  BY InitIInv
<1>2. IInv /\ [Next]_vars => IInv'
  BY StepIInv
<1> QED
  BY <1>1, <1>2, PTL DEF Spec

-----------------------------------------------------------------------------
(* What follows from it.                                                   *)

LEMMA ActorFacts ==
    ASSUME Timely, IInv
    PROVE  ActorHoldsLease /\ OneActor /\ MutualExclusion
<1> USE OwnerAssumption, TimeAssumption DEF TypeOK, LockRow
<1>1. ActorHoldsLease
  <2> SUFFICES ASSUME NEW s \in Supervisors, Acting(s)
               PROVE  lock.owner = Owner[s] /\ lock.expires_at > clock
    BY DEF ActorHoldsLease
  <2>1. InTick(s) /\ Live(s)
    BY DEF Acting, InTick, IInv, TickIsLive
  <2>2. last_heartbeat[s] > 0 /\ clock < last_heartbeat[s] + LeaseSeconds
    BY <2>1 DEF IInv, ClockInv, Timely
  <2>3. /\ lock.owner = Owner[s]
        /\ lock.expires_at >= last_heartbeat[s] + LeaseSeconds
    BY <2>1, <2>2 DEF IInv, LeaseInv
  <2>4. lock.expires_at \in Nat
    BY NobodyOwnsNoLock DEF IInv
  <2> QED
    BY <2>2, <2>3, <2>4 DEF IInv
<1>2. OneActor
  <2> SUFFICES ASSUME NEW s \in Supervisors, NEW t \in Supervisors,
                      Acting(s), Acting(t)
               PROVE  s = t
    BY DEF OneActor
  <2>1. Owner[s] = Owner[t]
    BY <1>1 DEF ActorHoldsLease
  <2>2. Live(s) /\ Live(t)
    BY DEF Acting, InTick, IInv, TickIsLive
  <2> QED
    BY <2>1, <2>2 DEF IInv, OneLive
<1> QED
  BY <1>1, <1>2 DEF MutualExclusion, OneActor

\* Under Timely, whoever runs collect() owns an unexpired row, for any number
\* of supervisors and processes and any times: the cached heartbeat of
\* _ensure_leader is safe to trust.
THEOREM ActorHoldsLeaseHolds == Timely => (Spec => []ActorHoldsLease)
<1> SUFFICES ASSUME Timely PROVE Spec => []ActorHoldsLease
  OBVIOUS
<1>1. IInv => ActorHoldsLease
  BY ActorFacts
<1>2. Spec => []IInv
  BY Inductive
<1> QED
  BY <1>1, <1>2, PTL

\* Under Timely, two owners never run collect() at once (README.md:43).
THEOREM MutualExclusionHolds == Timely => (Spec => []MutualExclusion)
<1> SUFFICES ASSUME Timely PROVE Spec => []MutualExclusion
  OBVIOUS
<1>1. IInv => MutualExclusion
  BY ActorFacts
<1>2. Spec => []IInv
  BY Inductive
<1> QED
  BY <1>1, <1>2, PTL

\* Under Timely, neither do two supervisors of one process.
THEOREM OneActorHolds == Timely => (Spec => []OneActor)
<1> SUFFICES ASSUME Timely PROVE Spec => []OneActor
  OBVIOUS
<1>1. IInv => OneActor
  BY ActorFacts
<1>2. Spec => []IInv
  BY Inductive
<1> QED
  BY <1>1, <1>2, PTL

\* Under Timely, a stop() that returned left no thread in a tick and no row.
THEOREM CleanStopHolds == Timely => (Spec => []CleanStop)
<1> SUFFICES ASSUME Timely PROVE Spec => []CleanStop
  OBVIOUS
<1>1. IInv => CleanStop
  BY DEF IInv
<1>2. Spec => []IInv
  BY Inductive
<1> QED
  BY <1>1, <1>2, PTL

-----------------------------------------------------------------------------
(* Action properties of the row.                                           *)

LEMMA TakeoverStep ==
    ASSUME IInv, [Next]_vars, lock # NoLock, lock' # NoLock,
           lock'.owner # lock.owner
    PROVE  lock.expires_at <= clock
<1> USE OwnerAssumption, TimeAssumption, NobodyOwnsNoLock DEF TypeOK, LockRow
<1>1. PICK s \in Supervisors : AcquireGranted(s)
  BY DEF Next, vars, Lifecycle, Register, Unregister, StopReturns, Release,
         Crash, Loop, LoopExit, BeginTick, Ensure, HeartbeatHits, Leased,
         HeartbeatMisses, AcquireRefused, EndTick, LockError, Advance
<1>2. lock.owner # Owner[s] /\ ~Refuses(s)
  BY <1>1 DEF AcquireGranted, Leased
<1>3. lock.expires_at \in Nat /\ now[s] \in Nat /\ clock \in Nat
  BY DEF IInv
<1>4. lock.expires_at <= now[s]
  BY <1>2, <1>3 DEF Refuses
<1>5. now[s] <= clock
  BY <1>1 DEF IInv, ClockInv, InTick, AcquireGranted
<1> QED
  BY <1>3, <1>4, <1>5

\* Under Timely, a row changes hands only after its lease ran out by the
\* clock, although acquire() compares it with an older reading.
THEOREM NoEarlyTakeoverHolds == Timely => (Spec => NoEarlyTakeover)
<1> SUFFICES ASSUME Timely PROVE Spec => NoEarlyTakeover
  OBVIOUS
<1>1. IInv /\ [Next]_vars
        => [(lock # NoLock /\ lock' # NoLock /\ lock'.owner # lock.owner)
              => lock.expires_at <= clock]_vars
  BY TakeoverStep
<1>2. Spec => []IInv
  BY Inductive
<1> QED
  BY <1>1, <1>2, PTL DEF Spec, NoEarlyTakeover

LEMMA LeaseForwardStep ==
    ASSUME IInv, [Next]_vars, lock # NoLock, lock' # NoLock,
           lock'.owner = lock.owner
    PROVE  lock'.expires_at >= lock.expires_at
<1> USE OwnerAssumption, TimeAssumption, NobodyOwnsNoLock DEF TypeOK, LockRow
<1>1. lock.expires_at \in Nat
  BY DEF IInv
<1>2. CASE lock' = lock
  BY <1>1, <1>2
<1>3. CASE lock' # lock
  <2>1. PICK s \in Supervisors : HeartbeatHits(s) \/ AcquireGranted(s)
    BY <1>3
    DEF Next, vars, Lifecycle, Register, Unregister, StopReturns, Release,
        Crash, Loop, LoopExit, BeginTick, Ensure,
        HeartbeatMisses, AcquireRefused, EndTick, LockError, Advance
  <2>2. lock' = Leased(s) /\ InTick(s)
    BY <2>1 DEF HeartbeatHits, AcquireGranted, InTick
  <2>3. lock.owner = Owner[s] /\ lock'.expires_at = now[s] + LeaseSeconds
    BY <2>2 DEF Leased
  <2>4. lock.expires_at <= now[s] + LeaseSeconds
    BY <2>2, <2>3 DEF IInv, RowInv
  <2> QED
    BY <2>3, <2>4
<1> QED
  BY <1>2, <1>3

\* Under Timely, an owner's lease is never shortened by a late write.
THEOREM LeaseMovesForwardHolds == Timely => (Spec => LeaseMovesForward)
<1> SUFFICES ASSUME Timely PROVE Spec => LeaseMovesForward
  OBVIOUS
<1>1. IInv /\ [Next]_vars
        => [(lock # NoLock /\ lock' # NoLock /\ lock'.owner = lock.owner)
              => lock'.expires_at >= lock.expires_at]_vars
  BY LeaseForwardStep
<1>2. Spec => []IInv
  BY Inductive
<1> QED
  BY <1>1, <1>2, PTL DEF Spec, LeaseMovesForward

-----------------------------------------------------------------------------
(* The lock implements ExclusiveWork.                                      *)

\* No step both ends the work of one supervisor and begins another's.
LEMMA ActorsGrowOrShrink ==
    ASSUME TypeOK, [Next]_vars
    PROVE  Actors' \subseteq Actors \/ Actors \subseteq Actors'
<1> USE DEF TypeOK, Actors, Acting
<1>1. CASE UNCHANGED vars \/ Advance
  BY <1>1 DEF vars, Advance
<1>2. ASSUME NEW o \in Owners, Crash(o)
      PROVE  Actors' \subseteq Actors
  BY <1>2 DEF Crash
<1>3. ASSUME NEW s \in Supervisors, Lifecycle(s)
      PROVE  Actors' \subseteq Actors
  BY <1>3 DEF Lifecycle, Register, Unregister, StopReturns
<1>4. ASSUME NEW s \in Supervisors, Loop(s)
      PROVE  Actors' \subseteq Actors \/ Actors \subseteq Actors'
  <2>1. CASE LoopExit(s) \/ HeartbeatMisses(s) \/ AcquireRefused(s)
             \/ EndTick(s) \/ LockError(s)
    BY <2>1 DEF LoopExit, HeartbeatMisses, AcquireRefused, EndTick,
                LockError, LoopAgain
  <2>2. CASE BeginTick(s) \/ HeartbeatHits(s) \/ AcquireGranted(s)
    BY <2>2 DEF BeginTick, HeartbeatHits, AcquireGranted
  <2> QED
    BY <1>4, <2>1, <2>2 DEF Loop, Ensure
<1> QED
  BY <1>1, <1>2, <1>3, <1>4 DEF Next

\* Under Timely, the loops of all processes together implement ExclusiveWork:
\* every step is one worker's begin, one worker's end, or no change.
THEOREM Implements == Timely => (Spec => TakesTurns)
<1> SUFFICES ASSUME Timely PROVE Spec => TakesTurns
  OBVIOUS
<1>1. Init => Work!Init
  BY DEF Init, Work!Init, Actors, Acting
<1>2. IInv /\ OneActor /\ OneActor' /\ [Next]_vars => [Work!Next]_Actors
  <2> SUFFICES ASSUME IInv, OneActor, OneActor', [Next]_vars, Actors' # Actors
               PROVE  Work!Next
    OBVIOUS
  <2>2. Actors' \subseteq Actors \/ Actors \subseteq Actors'
    BY ActorsGrowOrShrink DEF IInv
  <2>3. CASE Actors' \subseteq Actors
    <3>1. PICK s \in Supervisors : s \in Actors /\ s \notin Actors'
      BY <2>3 DEF Actors
    <3>2. Actors = {s} /\ Actors' = {}
      BY <2>3, <3>1 DEF OneActor, Actors
    <3> QED
      BY <3>2 DEF Work!Next, Work!Finish
  <2>4. CASE Actors \subseteq Actors'
    <3>1. PICK s \in Supervisors : s \in Actors' /\ s \notin Actors
      BY <2>4 DEF Actors
    <3>2. Actors' = {s} /\ Actors = {}
      BY <2>4, <3>1 DEF OneActor, Actors
    <3> QED
      BY <3>2 DEF Work!Next, Work!Begin
  <2> QED
    BY <2>2, <2>3, <2>4
<1>3. Spec => []IInv /\ []OneActor
  BY Inductive, OneActorHolds
<1> QED
  BY <1>1, <1>2, <1>3, PTL DEF Spec, TakesTurns, Work!Spec

=============================================================================
