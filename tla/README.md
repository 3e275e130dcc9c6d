# A verification of kanban-warden in TLA+

`hermes-kanban-warden` is a plugin that runs inside Hermes gateway processes.
Each process has a supervisor thread that tails the events of Kanban boards,
plans bounded actions, queues them in a SQLite outbox and delivers some of them
as messages. Several gateways, and command line invocations, share the same
databases. This directory holds TLA+ modules of that coordination, TLC runs over
small instances and TLAPS proofs.

Paths below are relative to `src/kanban_warden/`.

## The system

| Part | State it keeps | Operations | What makes it correct |
|---|---|---|---|
| Leader lock (`lock.py`) | one row: owner, expiry | acquire, heartbeat, release | one owner acts at a time; a dead owner is replaced |
| Supervisor loop (`supervisor.py`, `__init__.py`) | thread, stop event, last heartbeat, last sweep and cleanup | start, stop, tick, register, unregister, signal handler | a tick runs only under the lock; stop leaves nothing behind |
| Collection pass (`supervisor.py: collect`) | locals only | per board: tail, plan, apply, health, plan, apply; then drain | a pass that breaks off loses and repeats nothing that matters |
| Event tailer (`board.py: tail`) | board cursor, processed keys | get_cursor, read, mark_processed, set_cursor | every event is handed out once, none is skipped |
| Board health (`board.py: analyze_health, build_relationship`) | reads the board | findings, root and parents of a card | nothing waits unseen; the root is a farthest ancestor |
| Action engine (`actions.py`) | action log, retry budgets | plan for events and findings, apply | one proposal per key; retries within budget, then escalation |
| Notification outbox (`state.py`, `outbox.py`, `delivery.py`) | outbox rows with status, attempts, lease | enqueue, claim, send, mark | delivered means sent to all; retries bounded; every row settles |
| Remediation (`remediation.py`) | reads boards | proposals to unlink and to promote | agrees with the health findings of the same board |
| Cleanup (`cleanup.py`) | removes old rows and tasks | plan, archive, purge, prune | nothing that still guards against a repeat is removed, and nothing undelivered |
| Improvement, self-improvement (`improvement.py`, `self_improvement.py`) | signals, proposals, audit events | draft, approve, verify, review, publish, merge, deploy, roll back | no step without the approvals and evidence before it |
| Config patches (`config_patch.py`) | configuration file, backups | prepare, apply, compare, roll back | every value is approved or explained; the original is kept until a backup name is used again |
| Command line (`cli.py`) | none | status, dry-run, run-once | a preview changes nothing |
| Configuration, scanner, SQLite helpers, scripts | none | parsing, text search, connections | |

They interact through three kinds of shared state: the lock database, the state
store (cursors, keys, budgets, action log, outbox), and the board databases that
Hermes writes. A tick takes the lock, then runs one pass over the boards, which
reads a board, writes the state store, and ends with one drain of the outbox. The
outbox keys are the idempotency keys of the actions. The tick's opening clock
reading is used for the lock, for the claim of outbox rows and for every
retry time, however long the tick takes.

The hard behaviours are: supervisors of several processes and threads left
behind by an unregister/register cycle; leases compared with clock readings that
are minutes old; a pass that ends between any two of its many small
transactions; the `dry-run` command, which runs a pass without the lock; sends
whose answer is lost; batches in which one row or one event spoils the rest;
pruning that takes away, table by table, what keeps a proposal from being
repeated; and calls of several people whose checks and writes interleave.
`PROJECT.json` lists each of them at its line under `hazards`.

## Modules

| Module | Models |
|---|---|
| `LeaderLock` | `lock.py` and the life cycle of supervisors |
| `ExclusiveWork` | abstract: workers take turns |
| `Outbox` | outbox table, drainer, sender |
| `Notifications` | abstract: a durable notification queue |
| `EventPipeline` | tail, plan, apply over the state store, for one board |
| `BoardHealth` | a board, the findings of `analyze_health`, the root of a task |
| `Remediation` | the deadlock scan over the same board |
| `Retention` | action log, outbox and budgets, as health proposals use them and pruning cuts them |
| `HealthSweep` | these three composed: findings, plan, apply, scan, cleanup, prune, over days |
| `ImprovementTables` | proposals, approvals and audit rows; calls in hand |
| `SelfImprovement` | the handlers of a code change |
| `ConfigPatch` | approvals and configuration patches, the file and its backups |
| `Improvement` | both engines over the same tables |
| `LeaderLock_proofs`, `Outbox_proofs`, `EventPipeline_proofs`, `HealthSweep_proofs`, `Ancestors_proofs`, `Improvement_proofs` | theorems |
| `MCLeaderLock`, `MCOutbox`, `MCEventPipeline`, `MCHealthSweep`, `MCImprovement` | instances for TLC |

Operators whose comment begins with "Wrong variant" are not part of a
specification. Each is a plausible bug in the operator that follows it, and for
each property of a run there is one that makes TLC report that property.

### LeaderLock

A supervisor is a `WardenSupervisor` object; `Owner` maps it to the string
`profile:pid`, so that two supervisors of one process share an owner. `lock` is
the row. `pc` says where the loop thread is, `now` is the clock reading of its
tick, `last_heartbeat` the cached renewal, `life` and `stop_at` the object's life
and the join inside `stop()`. Each SQLite transaction is one action
(`HeartbeatHits`, `AcquireGranted`, the release in `StopReturns`), and so are
the two ends of a tick and both halves of `stop()`. `Crash` is the death of a
process, or the end of a `run-once` command: objects vanish, the row stays, and
the owner string may come back with a reused pid. The work of a tick is the
phase `collect`; `Actors` are the supervisors in it.

Time is an integer clock. A tick lasts at most `TickBound`: the code has no such
bound, so the runs and theorems choose it. `Timely` is the hypothesis under which
the lock works: a tick that trusts a heartbeat of age `HeartbeatSeconds` is over
before the lease is, and before `stop()` gives up joining.

Not modelled: a lock that is disabled, the signal handler (a second `stop()`).

### Outbox

`outbox` is the table and `sent` what each row's message has reached in the
outside world. A drain goes through `Begin` (the tick's clock reading), `Select`,
`ClaimRows`, then for each row `Skip`, `Reject`, `Unreachable` or `Open`,
`Send` for each subscriber, `AllSent`, and `Mark`. `Select` and `ClaimRows` are
two actions because Python's `sqlite3` opens a transaction only at the UPDATE.
`Send` has three outcomes: acknowledged, failed, and failed although it got
through. `Break` ends a drain anywhere (crash or database error); `Raise` is the
exception on a blank subscription that `drain()` does not catch. `Marked` is the
conditional UPDATE, which changes a row only while it is in progress, with the
attempt count that was read when the batch was selected. The constant
`Exclusive` says whether drains take turns, which is what `LeaderLock` provides.

Subscribers of a row, rows of gateway proposals (`Skip` marks them delivered
without a send), rows without a task and rows the scanner objects to are
constants. The `updated_at` fallback for rows without a lease is left out: every
claim writes one. Times past `MaxClock`, and attempts past the limit, are not
told apart (`Cap`, `Bump`).

### EventPipeline

A collector is a supervisor or a preview (`dry-run`). `board` is `task_events`,
`status` the task statuses, and `cursor`, `processed`, `logged`/`done`, `retry`
and `outbox` are the tables of the state store. A pass reads the cursor
(`Begin`), reads events with the status their task has at that moment
(`ReadEvents`), marks them one by one, saves the cursor, plans event by event
(`PlanNext`, with the retry budget and the remediation cap), applies the plan
action by action (`StartAction`, `BumpRetry`, `Queue`, `MarkDone`), then does the
same for health findings. `BreakOff` ends it anywhere. A preview marks and saves
like the others and skips its plan (`PlanEnds`). The actions of events have keys
with the event id; those of findings have the task; retries have the attempt.

Supervisors take turns (`Begin`): that is `TakesTurns` of `LeaderLock`. An event
has one of seven kinds (`EventKinds`): a worker failure, a block by what the
searches of `actions.py` find in its reason (`Blocks`), or a reviewer's verdict.
`Plans` is the whole of `_plan_event` for it, part by part in the order of the
code: `Subscription`, `Continuation` (the text that Hermes cuts off),
`BlockedRemediation`, `Review`, `Answer` and `Recovery`; health findings are
stale running tasks. `ForReview`, `Reviewers` and `Wordy` are what the texts of a
card say, and `Generated` are the cards that a remediation of the warden made
(`_is_self_generated_blocked_remediation`), which get none themselves. Whether a
remediation is already open is a nondeterministic choice, and a reason that is both a failure and a block, several boards and the terminal-task
filter (off by default) are not modelled. The keys of a review hold the card, or
the reviewer and the verdict, and no event. `hand` and `lost` are history: the
events a pass has marked and not served, and those whose pass broke off or was a
preview.

### BoardHealth, Remediation, Retention, HealthSweep

`BoardHealth` holds a board as the supervisor reads it: task statuses, links,
and what `analyze_health` compares with the clock, reduced to the two limits it
compares with (`age`, `beating`). Each finding is an operator named for its
`kind`; no query selects a task in triage, scheduled or in review (`Unwatched`).
`Root` is the breadth-first walk of `build_relationship`, with the parents of a
task in the order of their ids; `Turn` is one turn of its loop. `Remediation` is
the second reading of the board in a sweep. What a card's title, body, comments and events
say is a record of sets (`says`), one for each search the code makes.

`Retention` is the state database as far as health proposals are concerned:
each row has a status and the day of its last update, and `Prunes` is the one
transaction of `prune_state_store`. `sent` and `settled` are history.

`HealthSweep` composes them. A sweep is `BeginSweep` (`analyze_health` and
`plan_for_health`), then for each action of the plan `Start`, `Bump` (retries
only), `Queue` and `MarkDone`, each a transaction; `Remediate` (the scan, and
whether a cleanup is due, which plans it); `Archive` and `Purge`, commands of
Hermes that may fail for some tasks; and `Prune`. `BreakOff` ends it anywhere,
with an exception, which marks the action in hand as failed, or with the death
of the process, which forgets when the last cleanup was. `TaskChanges` is what
Hermes, workers and time do to a task, and `DayPasses` moves the clock, between
sweeps: a sweep is short beside a day. `Deliver` stands for the module `Outbox`.

Left out are dry-run, in which nothing is applied and yet the state is pruned,
several boards, vacuum and gc. A remediation proposal is only reported (`report`):
nothing in the code applies one. `Followed` chooses the actions whose keys are followed,
since actions of different kinds never share a key.

### ImprovementTables, SelfImprovement, ConfigPatch, Improvement

The engines are libraries: nothing schedules their calls, and any caller may
call any handler of any proposal it knows. A call checks its preconditions in
one step (`CreateDraft`, `RecordApproval`, ... `RecordMonitoring`,
`ApplyConfigPatch`, ...), which leaves the writes it has still to make in
`call`, and then makes them one by one (`Write`). `write_text` truncates a file
and fills it from the front, so another call may load or copy the configuration
in the middle of it (`HalfWrite`): what it finds does not parse, or has some
paths whole and the rest missing, or has one value cut off (`Torn`; `Cuts` says
what the front of a value parses as). `BreakOff` ends a call before a write, after
a half write, which then stays, or inside a copy (`TearsCopy`). A backup may
have any name of `Stamps`, used before or not: without `created_at` the code
calls every one `manual`. `torn` and `clashed` are history: whether the file was
ever half written, and whether two calls have used one name. A call that raises
changes nothing. `newest` is what `_audit_payload` finds. Rows are read by
`created_at`, which a caller may pass, so a row that is written later need not
be the newest.

A payload keeps what later calls compare: the pull request, the commit, the
profile. Blank arguments and the checks of branch and commands against the
proposal's own, which depend on nothing that changes, are left out. `Kept`
names the events whose rows the model keeps, those that some check or property
reads. Proposals of configuration changes exist at the start: only tests of the
repository record one.

## Runs

| Run | Instance | Shows |
|---|---|---|
| `leader_lock_timely` | 3 supervisors, 2 owners, lease 4, heartbeat 2, join 3, tick 2, clock to 8 | under `Timely`: `MutualExclusion`, `OneActor`, `ActorHoldsLease`, `CleanStop`, `LeaseMovesForward`, and `LeaderLock` implements `ExclusiveWork` |
| `leader_lock_failover` | 2 processes, crashes to 5, clock to 10 | `Failover`: a dead leader is replaced |
| `leader_lock_stop` | tick 5, join 2, lease 8 | `stop()` releases the row of a running tick |
| `outbox_exclusive` | 3 rows (2 subscribers; gateway; unsafe), batch 2, 2 attempts | `DeliveredReachedAll`, `ExhaustedIsJustified`, `AttemptsBounded`, `HeldRowsAreFresh`, `EveryRowSettles`, and `Outbox` implements `Notifications` |
| `outbox_overlap` | 2 drains at once, 2 rows, one of them with a blank subscription | what survives without exclusion: `DeliveredReachedAll` (and `ExhaustedIsJustified`, by its theorem) |
| `outbox_poison` | 1 drain, 2 rows | a blank subscription is retried for ever and never exhausted |
| `pipeline_board` | a supervisor and a preview, 1 task, 2 events, 1 break | `NothingSkipped`, `OneRecoveryPerEvent`, `FailuresAreAnswered`, `RetriesArePaid`, `StaleRetriesWithinBudget`, `EscalationIsLast`, `DoneIsQueued` |
| `pipeline_review` | a supervisor, a card for review and its reviewer, 2 blocks or verdicts, 1 break | `ReviewsAreAnswered`, `RemediationsUpToTheCap`, `EveryEventIsSeen` |
| `pipeline_preview` | a supervisor and a preview, 1 event, no breaks | a preview takes a failure away from the supervisor |
| `pipeline_budget` | a supervisor, 2 events in one batch | two retries are queued with a budget of one |
| `health_sweep` | every board of 3 tasks in 12 conditions with any links but pairs of opposites, every shape of 4 finished tasks, and three boards that change and are swept for 4 days with one break | `WaitingIsExplained`, `ScansAgree`, `RootIsFarthest`, `RepeatsAfterRetention`, `RetriesPerRetention`, `NothingIsForgotten`, `FindingsAreProposed` |
| `improvement` | 2 callers, one code change or one configuration change of two paths, 4 values of which one can be cut off, 2 pull requests, 2 commits, 2 backup names | `GatesInOrder`, `DeploysWhatWasReviewed`, `ValuesAreAccountedFor`, `OriginalIsKept` |

The last column of a run that expects a violation is a finding; `PROJECT.json`
quotes what the repository says and names the line that differs.

Four consequences of the code have no run of their own. A tick that outlives its
lease (nothing renews it within a tick) acts beside its successor: that is what
`Timely` excludes. Two drains that overlap may both claim a row, since the
SELECT of a claim comes before its transaction: `outbox_overlap` shows what
still holds then. `docs/loop-supervisor/v0.4-self-improvement.md:204` says that an
approval record must include the repository, the branch prefix and the
verification commands, but `ImprovementEngine.record_approval` writes an approval
of a code change without them, and `prepare_code_change_package` takes it: the
code departs from the document, and `GatesInOrder` follows the code, so its first
gate is an approval of any kind. And line 121 of `v0.3-improvement-proposals.md`
asks to back up the configuration before writing: every call does, but without
`created_at` to one file, so that the second call of all replaces the original
by what the first has made of it. `OriginalIsKept` says that this is the only way
to lose it.

Other behaviour that the models have and no property forbids, because no text of
the repository does:

* the answers to a review have keys without an event: a card that is blocked for
  a second review, or a reviewer that gives the same verdict again, gets no new
  proposal (`TaskAction`, `Duplicate`);
* a remediation past the cap of its pass is never proposed, since its event is
  marked (`RemediationsUpToTheCap` says that nothing else drops one);
* a block is planned for with the status its card has when it is read: one that
  was resolved before the next tick gets no reviewer, remediation or continuation
  (`ReviewsAreAnswered` says that a verdict is answered even so);
* a rejection does not revoke an approval, and a later failed verification does
  not cancel a passed one (`IsApproved`, `Reviewable`);
* a roll-back of a deployment is checked against the newest plan, which need not
  be the one that was deployed (`Deployed`);
* `rollback_config_patch` asks for no approval and puts one value at every path;
* of two applications that overlap, the one that writes last takes back what the
  other wrote, whose audit row stays (`ValuesAreAccountedFor` says where values
  come from, not that they stay);
* a task in triage, scheduled or in review gets no finding, nor does what waits
  for it (`WaitingIsExplained` says that nothing else waits unseen);
* the health findings and the remediation scan read the board one after the other,
  so what they say may differ if it changes in between (`ScansAgree` is about two
  readings of one board);
* an archived root with finished children is reported as not closed, and archived
  children hide an open root;
* pruning gives a stale task a fresh retry budget once the retention is over
  (`RetriesPerRetention` says how often at most), and rows of the action log that
  stay `started` are never pruned;
* an edge proposal of the remediation scan plans to promote its task as well,
  though another parent may be unfinished.

### Bounds

* LeaderLock: crashes happen up to `CrashHorizon`, the clock stops at `MaxClock`.
  The clock reaches two leases, so a row can be written, expire and be taken over,
  by a crash, by a stop and by a reused owner string. Three supervisors are the
  least that have a thread left behind in one process and a rival in another.
* Outbox: rows arrive and drains break until `FaultHorizon`; `MaxClock` lets a
  lease end and a second attempt be made after it. Two attempts tell the first
  failure from the last. Two drains are enough for overlap. When drains take
  turns, one drainer has all behaviours of several, since an idle drain keeps
  no state.
* EventPipeline: two events are a batch (for the cap and the budget), or two tails
  when the second comes late (for the cursor); one break between any two steps; `MaxRetries` 1 reaches
  escalation with the second recovery. `Occurring` chooses the kinds of events of
  a run: the theorems hold for all of them at once. Two blocks in one pass exceed
  `MaxPerTick` 1, and a card can be resumed between its event and the plan.
  `EveryEventIsSeen` is checked without a preview beside the supervisor, and
  `RemediationsUpToTheCap` without cards in `Generated`: a third card takes the
  run too far. Its theorem holds for any `Generated`.
* HealthSweep: three tasks have every finding, with parents that are done, stuck
  or moving; a root that depends on the order of a walk needs four. In the days
  of a watched board (`LastDay` 3, `StateRetention` 1) a row is written, expires,
  is pruned, and its key comes again; `MaxRetries` 1 reaches the escalation, and
  a task comes back once (`changes`). One break (`MaxFaults`) falls between any
  two steps. `FindingsAreProposed` is not vacuous: one watched board ends with a
  card whose parent is done, and one with a root whose only child was cancelled.
  `DayPasses` stops at `LastDay`, the sweeps do not.
* Improvement: a call begins while fewer than `MaxRows` = 12 rows are kept: a code
  change through every gate to its roll-back takes 11, and a second publication,
  merge or plan falls within them. Two callers give every interleaving of two
  calls; two backup names allow an application and a roll-back, or two
  applications, to overlap, and a name to be used again. The value 12 may be cut
  to 1, which is neither original nor in a patch. The constraint `Explored` leaves
  out states that have both a half write and a name used twice in their past,
  the code change's own roll-backs beyond their copy, approvals of proposals
  nobody made, and rejections of the code change, which nothing reads. The
  theorems need none of this.

### Fairness

`LeaderLock!FairSpec`: time passes, threads are scheduled, `stop()` returns. The
heartbeat and acquire transactions have strong fairness because `LockError` (a
busy database) may interrupt them: the SQLite busy timeout of 10 s makes a
transaction that is tried again on every tick get through in the end. Nothing
is assumed of `Register`, `Unregister` or `Crash`. `Outbox!FairSpec`: time
passes, some supervisor opens a tick again and again (the event interval of
`run_forever`), and a drain that is running goes on. Sends need not succeed.
`EventPipeline!FairSpec`: a supervisor begins again and again, and a pass
goes on. `HealthSweep!Spec` has weak fairness of `Sweep`: `run_forever` ticks
for ever and a sweep that began goes on or raises. Neither deliveries nor the
passing of days are fair. `Improvement` has none: its calls come from people.

## Proofs

`tlapm` checks every theorem for all values of the constants.

**LeaderLock_proofs.** `TypeCorrect` needs only the assumptions on the constants.
The others assume `Timely`. The safety properties are not inductive: mutual
exclusion at a take-over depends on how old the actor's clock reading is, on what
it knew of its heartbeat and on what the row says. The parts of `IInv` beside
`TypeOK`: a process has at most one live supervisor (`OneLive`), a thread in a
tick belongs to one (`TickIsLive`), how far the clock has run since the tick, the
heartbeat and the stop request (`ClockInv`), a live supervisor owns the row from
a heartbeat until that lease is over (`LeaseInv`), no lease runs longer than one
that a tick under way would write (`RowInv`), and `CleanStop` itself.
`Inductive` proves it action by action; the
named properties are corollaries. `Implements` maps `Actors` to the workers of
`ExclusiveWork`: only `BeginTick`, `HeartbeatHits` and `AcquireGranted` can add
an actor, and the invariant says that there is none when they do.

**Outbox_proofs.** Without any assumption on who drains: `TypeCorrect`;
`DeliveredReachedAllHolds`, whose strengthening says that the first `at`
subscribers of the current row of a sending drain have been reached, and all of
them once the drain is about to mark the row delivered; and
`ExhaustedIsJustifiedHolds`, whose strengthening says that a row has at least as
many attempts as any claim of it (`CountInv`). With drains that take turns
(`Exclusive`): `AttemptsBoundedHolds` and `HeldRowsAreFreshHolds`. `TurnsInv` says
that only one drain has left idle, and `FreshInv` that each row it read is still
pending, with the attempts it read, is in progress once claimed, and is in the
batch once. The limit holds because the count that decides is then the row's own.
`FreshInv` and the two strengthenings above also carry the refinement,
`ImplementsNotificationsHolds`: a send reaches one subscriber of a pending row, a
mark settles it or leaves it pending, and every other step but an arrival
stutters.

**EventPipeline_proofs.** Every safety property of `EventPipeline` that holds is
a theorem, for any number of supervisors, previews, cards and events, any budgets
and any number of passes that break off. The only assumption beyond those on the
constants is in the model: supervisors take turns. `Shape` strengthens `TypeOK`
(a pass takes the head of a sequence only where there is one, and numbers its
events on from its local cursor). Each property then has an invariant of its own:

* `NothingSkipped`: what a pass has read is marked, so any cursor that is written
  is behind marked events only;
* `DoneIsQueued`: the action about to be marked done is queued;
* `EscalationIsLast`: the condition holds from the plan on, and a budget never
  comes back (`RetryGrows`);
* `OneRecoveryPerEvent`: `AskedOnce` extends it from the outbox to all plans, and
  `Unasked` says that an event still to be planned for is in one place and has no
  recovery anywhere. That takes `mark_processed` to give an event to one pass;
* `FailuresAreAnswered`: a failure without a recovery is in the hand of a pass
  that has still to plan for it or to apply its recovery (`FailuresArePending`);
  the step that drops a done action needs `DoneIsQueued`;
* `ReviewsAreAnswered`: the same for what a review asks for (`ReviewsArePending`).
  A pass plans by what it read, so the invariant also says that an item whose
  status was not a block is of an event whose card does not wait now
  (`ItemsTrue`): a card blocks only with a newer event (`StillBlockedOnce`);
* `RemediationsUpToTheCap`: a marked block that an agent can still resolve is
  answered by a comment or a remediation, or finds the cap used up, or is owed one by a pass that has it in hand
  (`BlocksArePending`). The code counts the cap in actions of its plan and the
  property in rows of the outbox. The two agree because the remediations of a plan
  are of different events, none of which is still to be planned for (`RemedyInv`):
  a plan that reached the cap adds as many rows as it has places
  (`RemediesCounted`);
* `RetriesArePaid`: between the count and the queue the budget is one ahead
  (`CountedAhead`), and nobody else applies meanwhile (`TurnsStep`);
* `StaleRetriesWithinBudget`: the attempt in a key is within the budget, and such
  keys of one task differ in the attempt only, an injection into the attempts.

**HealthSweep_proofs.** `TypeCorrect` holds something back for itself: that an
attempt is within `MaxRetries` needs the attempt in a plan to be the next one of
its task, in one key only (`AttemptsInOrder`). `RepeatedAfterRetention` rests on
the outbox alone (`OutboxKept`: what was queued within the retention still has
its row), since the log may lose its row first; `RetriesAreBounded` on
`RetriesApart`: retries of a task within a retention differ in their attempt,
because the budget they were counted in was not yet pruned, so they map one to
one into `1 .. MaxRetries`. `NothingForgotten` and `BothScansAgree` are direct.
They hold for every board, any number of tasks, days, changes, restarts and
broken sweeps.

**Ancestors_proofs.** The two properties about functions that recurse over a
graph, for every board. Induction comes from a lemma on finite sets rather than
from an operator: a non-empty collection of finite sets has a smallest member
(`SmallestSet`), and numbers and turns of a loop follow (`SetInduction`,
`TailInduction`).

* `WaitingIsExplainedHolds`: the recursive `Layers` exists and its union is the
  least set of ancestors that is closed under parents (`AncestorsAreClosed`). Of
  the tasks that wait for no reason, take one with the fewest ancestors: the parent
  it waits for has fewer, as the board has no cycle, so that parent is explained,
  and so is the task. A parent in triage, scheduled or in review is where the chain
  may end with nothing said: `WaitsForParent` shows that there is no other.
* `RootIsFarthestHolds`: the loop of `Root` is a tail recursion that ends, as each
  turn empties the queue a little or visits a task for the first time
  (`TurnsDecrease`). While it runs it never enters a layer before it has been
  everywhere in the layers below (`TurnWithin`, `NextLayer`), so the task it visited
  last is one of the farthest (`WalkEndsLast`). Cycles are allowed.

**Improvement_proofs.** The invariant `IInv` says of every write that a call has
in hand that the gate before it still stands (`Sound`): rows are only ever added,
so what a precondition saw stays true however long the call waits, and what
`newest` holds is in the log (`NewestIsRecorded`). Of a file it says that a call
which will replace it makes its copy first, or the original is saved already,
and that no two calls copy to one name until `clashed` says so (`OneCopyEach`). A
half-written file is accounted for because what it was filled from is
(`HalfIsAccounted`), and a value that a call loaded from one and writes back stays
the front of an accounted value (`Cuts` of a cut value are cuts of the whole). The
five properties are its consequences, for any number of callers, proposals, paths,
values and names, with no bound on the rows.

Only model-checked: the liveness properties (`Failover`, `EveryRowSettles`,
`EveryEventIsSeen`, `FindingsAreProposed`), since fairness and `ENABLED` are outside
the proof system's reach. Every other property of a passing run is a theorem,
the two refinements included.

## Not modelled

* The searches of `actions.py` in texts, beyond what they can find.
* `aggregate_signals` and the recommendations of `improvement.py`, and loop
  traces: counts over rows that nothing acts on.
* Several boards in one pass, dry-run sweeps, vacuum and gc.
* Configuration parsing, the secret scanner, message formatting, snapshots, SQLite
  connections and operator scripts: pure functions or input and output.
* What Hermes does with a proposal.

## Plan

`Warden`: `LeaderLock`, `EventPipeline` and `Outbox` composed, where the exclusion
that the other two assume comes from the lock, and the theorems that rest on
that assumption hold under the timing hypothesis alone.
