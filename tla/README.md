# oxfuzz: specifications and proofs

TLA+ models of the parts of oxfuzz whose correctness depends on interleaving,
failure and order.  Each component has a module of its own; TLC checks it on
small instances, and for the components named in section 6 TLAPS proves the main
safety properties for every value of the constants.

`PROJECT.json` maps every definition to the lines it models, and lists the
components, the runs, the mutants, the hazards and the theorems.

## 1. Inventory

oxfuzz is a service that drives fuzzing campaigns with the help of language
models.  A service process holds one container (`hf-service`) of managers and
stores; front ends (CLI, HTTP, GUI) call it; several processes may share one
data directory, with its SQLite database, its journals and its schedule file.

| Component | State it keeps | Operations | What is hard | Module |
|---|---|---|---|---|
| Model budget (`hf-service/src/model_budget`, `hf-storage/src/model_budget_store.rs`) | rows of scopes and attempts | reserve, call, settle | concurrent callers, failed streams, rounding, i64 | `ModelBudget` |
| One-time occurrences (`hf-scheduler/src/manager.rs`, `schedule_occurrence_store.rs`) | receipt, execution row, schedule file, leases | fire, reserve, dispatch, renew, stop, recover, acknowledge | deaths between any two steps, expiring leases, calls that commit and report an error | `OneTimeOccurrence`, `DispatchOnce` |
| Recurring triggers and recovery (`hf-scheduler`) | cursor, recovery checkpoint, trigger queue, executions | tick, arm, submit missed fires, edit, stop | a batch submitted while the schedule changes or the manager stops | `RecurringSchedule` |
| Hourly limit (`manager.rs`, `executor.rs`, `store.rs`) | starts in memory and in rows | admit, start, record, prune | counts read from two places, restarts | `HourlyAdmission` |
| Event schedules (`event_bridge.rs`, `dispatch_context.rs`) | debounce windows, trigger channel | emit, match, send, execute | executions that fire executions, a full channel, cancellation of a producer | `EventSchedules` |
| Schedule retirement (`hf-service`) | active file, archive, receipt, certificate | retire, certify, serve, edit | deaths between files, edits while down, a second service | `ScheduleRetirement` |
| Provider pool (`hf-provider`) | freezes, permits, metrics | route, acquire, call, stream, freeze, thaw, probe | checks made before an await, cancellation with permits in hand | `ProviderPool` |
| Run journal (`recovery.rs`, `container/guards.rs`, `run.rs`, `harness.rs`) | run rows, write-ahead log | open, run, close, repair, reconcile, dismiss, delete | two stores written one after the other, torn lines, the size limit | `RunJournal` |
| Closeout (`run_closeout.rs`) | step rows, lease | pass over six steps | a failed step, its dependents, an upgrade | `RunCloseout` |
| Campaigns (`campaign_state.rs`, `scheduler.rs`) | progress file, registry, gate | fire, charge, pause, resize, remove | a lock-free gate, lost writes | `CampaignState` |
| Harness qualification (`container/harness.rs`, `policy.rs`, `run.rs`) | three files, four tables, a lease | compile, review, smoke, promote, campaign, revert | leases given back between review and run, operations cut between two writes | `HarnessRevision` |
| Work orders (`harness_work_order.rs`, `work_order_store.rs`) | submissions, attempts, locks | import, qualify, recover, promote | two imports at the limit, recovery beside an owner | `WorkOrders`, `WorkOrderSubmissions` |
| Remediation (`remediation_store.rs`, `hf-service`) | operations, stages | approve, claim, run stages, recover | a recovery that ends live work, stale approvals | `Remediation` |
| Chat sessions (`hf-session`, `hf-storage`) | two transcripts, rows, checkpoints | turn, roll back, branch, delete | compensation after a failed statement | `ChatSession` |
| Semgrep scans (`semgrep.rs`) | row, journal, staging directory | start, publish, cancel, recover, delete | repair beside a running scan, torn journals | `SemgrepJournal` |
| Issue filing (`hf-service`, `filed_issues`) | one row per key, the remote tracker | claim, search, create, record, take over | no idempotency key, requests that land late | `IssueFiling` |
| Agent loop, spill store, other stores, engines, sandbox, corpus, coverage, crashes, analysis, automotive, diagnostics, front ends | | | | not modelled, section 8 |

How they interact: the scheduler's task calls the workflow dispatcher, which
starts a run; a run opens a journal entry and calls models through the budgeted
provider; that decorator reserves in the ledger and then calls the pool, which
routes to a wire client.  The run's guard closes the journal entry and its row;
at the next start the service reconciles both, and the schedule's receipts.  The
components share the database and the data directory across processes, but
(work orders and the harness workspace excepted, which are composed) no state
that two of them write.  That is why each can be checked on its own.

What makes each correct:

* budget: charged totals are exactly the sum of what the attempts owe, never
  above the limits, and what providers really consumed is covered;
* one-time occurrences: the workflow is entered at most once, every receipt is
  settled in the end;
* recurring schedules: a missed fire is neither forgotten nor run without a
  record, and recovered work runs in order; event schedules neither cascade
  beyond the limit nor fire themselves;
* pool: permits are conserved, freezes are lifted for the right reason, waiters
  are served;
* run journal, closeout and scans: after a restart no record claims what did not
  happen, and what is final stays;
* harness: only bytes that were reviewed, smoked and approved are run;
* stores: limits hold under concurrent submissions, a claimed operation has one
  worker, a verified one its evidence;
* sessions: both transcripts tell the same story, and what was undone is undone;
* filing: one issue for a crash, and everyone is told of the same one.

## 2. Plan

Done: every module of the table, its runs, and the proofs of section 6.  The
order was: ledger, one-time occurrence and pool; run journal, closeout and
campaigns; harness and work orders; the other schedules and stores; then the
proofs, beginning with the components in which a broken invariant costs most.

Next: proofs for `ChatSession`.

## 3. The modules

Every module models whole handlers: an action is what the code does between two
awaits at which another actor, a cancellation or a death can come in.  Failures
are choices in the action they belong to.  Bounds are constants or budgets of
faults (`left`), spent by the step that uses one.

### ModelBudget

`scopes` and `attempts` are the two tables, `caller` the provider calls in
progress, `upstream` a history of what the provider really consumed.
`Reserve`, `ReserveDenied` and `Settle` are the two transactions of
`model_budget_store.rs`, one step each: the first statement of each is a write,
so SQLite serializes them.  `Call`, `ChatResponse`, `StreamUsage`,
`StreamError`, `StreamEnd` and `Abandon` are the steps of the decorator in
`model_budget/dispatch.rs`; `Abandon` is the dropped future and the dead
process alike, since only the ledger outlives either.  `Price` rounds up per
side as the code does, and `CheckedAdd` returns the overflow mark beyond
`I64Max`.  Requests are reduced to whether their input is bounded and to their
`max_tokens`; providers to window, prices and whether their adapter forwards
running usage counts (`partial_usage`, which Gemini's does).

### DispatchOnce and OneTimeOccurrence

`DispatchOnce` is what a one-time schedule promises: it is claimed, begun, its
one permit is used to enter the workflow or withdrawn, and it ends once.
`OneTimeOccurrence` is how it is done by any number of processes.  `receipt`,
`execution` and `cursorFile` survive a crash; everything indexed by a process
does not.  The refinement maps `phase` to the receipt's state and `permit` to
the existence of a task about to enter the dispatcher.

Every journal call takes an outcome: `ok`, `failed` (nothing changed) or
`unsure` (committed, reported as an error).  A failed write of the schedule file
is the choice `written`.  `Exit` may come between any two steps; `Halt` are the
phases of an orderly stop, with the aborted call in flight as `inFlight`.

Notes for a reader who compares it with the code:

* one schedule; receipts of others are separate rows and share only the global
  block after a journal failure, which is the absorbing value `blocked` of
  `status`;
* `memory` is the in-memory history's status of the tracked execution, from
  which `stop` derives the expected state of its compare-and-set;
* the branches of SkipIfRunning and CancelPrevious and the Idempotent result of
  a reservation cannot be reached by a one-time schedule: `TaskShutsAdmission`
  is why;
* a sequence of calls between two awaits with no failure of its own is one
  action; where an abort may cut it, the cut is an outcome of that action;
* removal and retirement of schedules, and rows that cannot be decoded, are not
  modelled.

### ProviderPool

`freeze` holds the FreezeManagers, with remaining ticks for `thaw_at`;
`free`, `waiting`, `globalFree` and `globalWait` the semaphores with their
queues; `pc`, `call`, `at`, `cand`, `sel`, `attempt` the calls, from routing to
their end; `todo`, `probe`, `answer` the health checks.  Reading and writing a
FreezeManager are separate steps wherever the code releases the lock in
between (`Scan`, `TryAutoThaw`), the router looks at one provider after the
other, and a permit is taken after the choice.  `Drop` is cancellation at any
await.  The semaphore is tokio's, external, and modelled as fair: a released
permit goes to the first waiter.

Abstracted: soft tags, preferred model and the five strategies all pick some
candidate (`Choose`); metrics are each call's contribution `counted`, which is
also the stream's `recorded` flag; the streak of freezes is capped where the
adaptive duration stops growing; no global limit is a limit no smaller than the
number of calls; error texts are reduced to the four classes the pool treats
differently.  Health checks take no permit, as in the code.  Recording,
freezing and releasing at the end of a call is one step; so is a snapshot of
the statuses.  Reloading the pool and building it from configuration are not
modelled.

### RunJournal and RunCloseout

`RunJournal` has the status column of each run (`row`), the lines of the journal
(`wal`), the drop guard, its spawned repair and the three code paths that own a
run: campaign, smoke and kernel.  `AppendLocked` is the append with compaction
at the byte limit and the three ways a write goes wrong; `Compact` writes the open
events by id, the order of the code's `BTreeMap`, not in the order of the log; `Crash`, `Restart` and
`Reconcile` are process loss and bootstrap.  A second process of the same user
opens the journal in three kinds of step, each at any time, as `wal_lock` is local
to a process: `PeerStart` reads the log, `PeerCompact` later renames a file with
what was read over it, `PeerReconcile` fails the rows.  A line appended after the
read, or to the file that the rename unlinks, is gone then.  Two variables are
history: `excused`, the runs whose evidence was lost in one of the ways the code
accepts, and `lost`, the runs whose lines such a rename replaced.

`RunCloseout` is the ladder of six steps: its rows, the lease, and one pass per
caller with `RecordedSteps`, `PendingSteps` and `BlockedBy` as in the code.  What
is pending is a set, taken in the order of `Ladder`.
Deleting a run under a pass leaves orphan rows (there is no foreign key), which
the model shows too.

### CampaignState

The sidecar file and each process's copy of it (`file`, `mem`), the registry,
the gate and the dispatches in flight.  `try_enter` is three actions
(`LoadRunning`, `CompareLimit`, `Cas`), because it takes no lock.  A fire
dispatched before the removal of its schedule runs with a fresh allowance.
Seconds are left out; a time budget shows only as a fire that may complete no
iteration.  The slots of `Fires` are a bound of the model.

### HarnessRevision and WorkOrders

`HarnessRevision` has the workspace's three files, the four tables, the lease
and one operation per caller.  A binary is identified by the build that made
it.  Checks that only refuse (policy, build profile, behaviour and target-entry
gates) are the refusals `SmokeRefused`, `PromoteFails` and `CompileRefused`.
Runs left running belong to `RunJournal`; deleting rows is not modelled.  The
revert reads its row before it takes the lease, as in the code.

`WorkOrders` extends it with the attempts of submissions, their file locks and
the recovery by any process that starts.  `WorkOrderSubmissions` is the import
of submissions in SQLite transactions: a transaction that wrote after another
committed is refused (`stale`), which is what the limit rests on.

### RecurringSchedule, HourlyAdmission and EventSchedules

`RecurringSchedule` has one interval schedule in memory and on disk, the recovery
worker, the trigger channel and the executions with their rows.  Producer,
receive and gate of a trigger are one handler (`hd`).  A write that fails may have
replaced the file; it then has a generation the process does not expect, and every
later write is refused until a restart (`fenced`).  An edit that cannot be saved is
undone, and can take the in-memory cursor back (`undone` is history).  `line` is the
serial lock's queue: each member with those before it.

`HourlyAdmission` is the limit of executions an hour: the count in memory, the
count in SQLite and what retention removes.  Rows of the last hour are never
pruned.  `loose` is history: a start was missing in SQLite when somebody looked.

`EventSchedules` has the bridge with its lock, its debounce windows, the bounded
channel, the executor and the executions that emit events in turn.  Filters are
folded into the kind of an event.  `chain` is history: the executions really
behind a trigger, next to the `depth` it carries.

### ScheduleRetirement

Phases of the receipt, archive, SQLite proof, rewrite of the active file and
certificate.  An input/output error is a death before or after the write.  The
operator edits, restores or removes files only while no service runs; an edit
during an unfinished retirement makes later starts refuse.  Digests are sets.

### Remediation

One row per operation and the workflow each process runs on it; `Claim` is the
compare-and-set, `Publish` the stage record, `Derived` the outcome from the
stages, `Recover` the startup pass.  `interrupted` stands for inconclusive with
`interrupted_after_restart`.  The corpus grows from outside.

### ChatSession

Two transcripts, the session's row, its checkpoints and each call with its plan
of statements and the compensation for a failed one.  One process; a turn's
content is its number.  `known` are the branches a caller has seen listed,
`early` the sessions that come from a branch used while `fork_session` was still
copying it.  Titles, prompts, pausing and merging are left out.

### SemgrepJournal

An operation's row, journal entry, staging directory and task, the recovery of
a process that starts, and deletion of the project.  A torn or empty journal
blocks until it is removed by hand.

### IssueFiling

One dedup key: the row, its claim, the attempts in several processes and the
tracker.  A request lands before or after its caller has given up (`flying`).
`overlap` is history: a create landed although another attempt had searched in
vain.  `release_filed_issue` has no caller and is not modelled.

## 4. The runs

Every run uses the specification as it is; a `.cfg` only gives constants their
values, and the `MC` modules define those values and the symmetry sets.
Symmetry is over interchangeable callers or processes, and never in a run that
checks liveness.  Deadlock is checked where the system cannot stop; it is off
where budgets of faults and bounded work let a behaviour end.

Four `MC` modules check several components at once.  They share no state, so a
behaviour picks one *scene*, a component with an instance, and the others keep
their initial state: the scenes add up instead of multiplying.  A property of
such a run says what holds of the component in its scene.

**model_budget**: two callers, one scope, two policies (one limits calls and
tokens, one cost), four providers (a price that leaves i64 on an overrun, no
prices, a worst case that already leaves i64, running usage counts), `I64Max =
12`, three attempts: one call settled, one in flight, one meeting the limit
exactly or by one over.  `LedgerBalanced`, `WithinLimits`,
`RealSpendWithinLimit`, `OverrunsBlock`, `FailedStreamKeepsCharge`.

**one_time_occurrence**: two processes, one of which stops, dies and starts
again; a lease of one tick.  `AtMostOnce`, `LiveLeaseRespected` and the
refinement `KeepsPromise` of `DispatchOnce`.

**one_time_recovery**: one process started three times (a first owner, one that
finds the receipt and may die acknowledging it, one that finishes), journal
calls that fail or commit and report an error, under fairness.
`ConsumedHasEvidence`, `LostLeaseWritesNothing`, `AbandonedIsSettled`.

**provider_pool**: two providers with one permit each, two callers, durations
of zero, one tick and more than the maximum, an operator's probes.
`PermitsBalance`, `CountedOnce`, `FreezeLiftedRightly`.

**provider_progress**: three callers of one provider under fairness: one holds,
one waits at each level.  `PoolRecovers` (`WaiterIsServed` and `DeadIsRevived`).

**records**, scenes *run* (two runs, every fault once, a journal that four lines
fill), *run and peer* (a second process that reads, replaces and reconciles between
any two steps of the first, with a crash, a failed append or rename and a deletion),
*closeout* (two callers over a fresh
table, one of an older version and one of a later), *scans* and *projects* (two
processes, two scans of one or of two projects).  `RunsAreExplained`,
`CloseoutHolds`, `ScansReconciled` and the action property `FinalStays`.

**campaign_state**: two campaigns, one with a budget of runs and one with a
budget of time, two fires racing for the gate, two operators who change the
limit, and either losses and removals, resizing with a failing write, or
cancelled fires.  `GateHolds`, `AllowanceHolds`.  One process: the registry is
local to a process, see 7.

**harness**, scenes *order* (an attempt and another caller on the target, one
lost call or failing write), *revision* (two callers, two revisions, every smoke
result, two failing writes), *revert* (four runs and no failure, so that a
campaign can be taken back).  `RanAsApproved`, `AttemptsAreEvidence`,
`RecordsAreTrue` (with the inductive invariants of section 6), `EvidenceStays`.

**chat**: two callers in two scenes: a session and one branch, two turns, two
failing statements or a death; a session and two branches, one turn, no fault (a
branch can be found half copied only through another branch).
`TranscriptsHold`, `UndoRestores`.

**recurring**: three missed occurrences at most and three execution slots, in
three cases: a failing write and a death under backfill, an operator under
catch-up (a stop with a failing write and an edit, a disarming, or both and two
edits), rival triggers under the other policies.  `RecoveryHolds`, `FileAdvances`.

**services**, scenes *imports* (two clients, two orders, limit 2, four
submissions), *hourly* (limit 2, three executions, a restart), *events* (two
schedules that fire each other, a channel of one place, cascade depth 1),
*offline* and *services* (a service whose files are edited while it is down; two
services with three faults), *remediation* and *two operations*, *filing* (three
attempts in two processes, a death, late requests).  `SubmissionsHold`,
`DepthQualifies`, `HourlyLimitHolds`, `EventsHold`, `RemediationHolds`,
`FilingAgrees`, `RetirementHolds` and the action property `ServicesStay`.

**progress**, eleven scenes under fairness: `WorkEnds` (what has begun ends),
`WellAgain` (what was disturbed comes back), `ComesToRest` (what is finite ends
for good).  Of subjects that are alike one is watched.

Each property has mutants: a changed definition, kept next to the one it
changes, that makes the property fail under the run's own configuration.

## 5. Fairness

*One-time schedule* (`FairSpec`): the clock runs; a dead service is started
again; an operator keeps acknowledging what is listed for recovery (weak
fairness of the check, the stamp and the finish), and the journal does not fail
every acknowledgement (strong fairness of `AckCommit` with outcome `ok`, since a
failed one is followed by another try).  Nothing is assumed of the owner: it may
stop at any step, which is what the property is about.

*Provider pool*: `Scheduling` is the code's part: routing, acquiring and the
return from a backoff go on, and the health loop, a loop around a sleep that
only shutdown ends, begins, sends and applies its checks.  `Environment` is
assumed of the world and not guaranteed by the code: a call in flight is
answered or given up by its caller (the HTTP clients of `hf-provider` are built
without a request timeout, so a provider that accepts a call and never answers
holds its permits until the caller drops it), and no provider fails every
health check for ever (a check ends after ten seconds, one way or the other).
`WaiterIsServed` is therefore about the pool's own queues and its two levels of
permits, given that calls end.  The clock need not run: no waiter waits for a
freeze to end.

*progress*: `scene` never changes, so one fairness formula per role means the
same as one per scene.  Weakly fair are the steps of tasks the runtime polls:
futures of a run, spawned repairs, startup reconciliation, closeout passes,
calls, workflows, the executor.  Strongly fair are steps that wait for a FIFO
lock or channel (tokio's mutex serves in order), the exit of a process that a
live remediation would otherwise keep up for ever, and the firing of an enabled
schedule, which a slot of the model only delays.  Assumed of the world: sandbox
commands and workflows return, a service that is down is started again, an
operator resumes an unfinished closeout.  The gate of `CampaignState` is
lock-free and not wait-free, so its liveness is checked with one fire; torn
journals block a Semgrep project until removed by hand, so its liveness is
checked without them.  Liveness of `IssueFiling` is not checked: it would assume
nearly everything it promises.

## 6. What is proved

The theorems hold for all values of the constants under the assumptions named in
the modules (`ConstantsAssumption`, `SentinelsAssumption`,
`OccurrenceAssumption`, `NoReceiptAssumption`, `PoolAssumption`,
`SubmissionAssumption`, `RemediationAssumption`, `FilingAssumption`, `CloseoutAssumption`,
`RecurringAssumption`, `HourlyAssumption`, `EventAssumption`,
`RetirementAssumption`, `SemgrepAssumption`, `JournalAssumption`),
which say what kind of values the constants are and which sentinels lie outside
the identifiers.  The bounds that keep TLC finite are constants like the others:
the theorems hold for every one.  Each invariant below was checked by TLC on the
run's instance before it was proved.

**ModelBudgetProofs** (all five properties of `model_budget`).  `IndInv` adds to
the properties that every attempt's scope has a row and that a caller that is
settling has usage to settle.  The limits are inductive only together with the
ownership of reservations: a settlement lowers the totals by what was reserved,
and only a reservation nobody else settles keeps them non-negative and below the
limit.  The balance needs sums over sequences: they are related to partial sums
by induction over sets, not over a recursive definition.  `OverrunsBlock` needs
that the rounded price is monotone.  `RealSpendWithinLimit` compares what was
really consumed with the charge, attempt by attempt.

**OneTimeOccurrenceProofs** (`AtMostOnce`, `KeepsPromise`, `LiveLeaseRespected`,
`ConsumedHasEvidence`, `LostLeaseWritesNothing`, and the supporting theorems
listed in `PROJECT.json`).  `AtMostOnce` is not inductive: `IndInv` adds that
only a started instance owns the receipt and that a task or a won admission
belongs to it (`OwnershipInv`), and how far receipt, task and dispatcher have got
together (`ProgressInv`).  The steps divide into those that touch neither the
journal nor a task (`Quiet`), those of the receipt's owner (`OwnerStep`, where
`OneOwner` says that no other process has a task), and the claim of a free
receipt.  From the same step lemmas follow the finality of outcomes and the step
of `DispatchOnce`.  `ClaimInv` relates what a process believes about the
schedule to the receipt and the file.

**ProviderPoolProofs** (`PermitsBalance`, `CountedOnce`, `FreezeLiftedRightly`).
The invariant adds where a call must have a provider.  The balance is proved from
what serving, joining and leaving a queue do to its members and from
`SwapCardinality`: when a call leaves, its permit goes to the first waiter or
becomes available, never both.  `FreezeLiftedRightly` follows from what each
operation of a FreezeManager other than `thaw` does in whatever state it meets,
which is why the unlocked gap between `Scan` and `TryAutoThaw` does no harm.

**ServicesProofs**, submissions (`SubmissionsHold`, `DepthQualifies`).  The
strengthening is `SnapshotCurrent`: a transaction that is not stale has the
committed table as its snapshot, so its count of a work order and its look at the
parent are still true when it writes.  Ancestors are distinct rows of one work
order, and the recursion over parents is well founded because identifiers grow.

**ServicesProofs**, remediation (`RemediationHolds`; `OutcomesStay`, part of
`ServicesStay`).  `IndInv` adds that a claimed operation is not open again, that
an approval is recorded for whatever is approved or verified, and that a
workflow's evidence so far is what its stages passed.  It is split into what it
says of a row, of a workflow and of how the two go together; one lemma covers
every step that changes one row and one workflow.

**ServicesProofs**, filing (`FilingAgrees`; `RecordedIssueIsFinal`, part of
`ServicesStay`).  `IndInv` adds that at most one attempt may create without
having searched in vain (`OneMaker`), that while nothing overlapped all issues
and all vain searches are of one attempt (`Searched`), and that what is recorded
exists.

**HarnessProofs**, the workspace (`RanAsApproved`; `EvidenceIsFinal`).  `RanAsApproved`
is about records that other callers go on changing, so it is not inductive.
`IndInv` says what each record rests on (`RowRests`, `RunRests`,
`ApprovalRestsOnSmoke`) and what each operation has established before the step
it is at (`OpRests`): that it holds the lease where it writes the workspace, that
a smoke's review allowed the bytes it remembers, that its run is still its own.
`Grows` is the reason the records may rely on one another although the lease is
given back between a review and a smoke, or a smoke and a promotion: no step
takes away a review, a finished run or an approval.  `BinaryHoldsSource` is not a
theorem: a build that dies half way refutes it, see 7.

**HarnessProofs**, the work orders (`AttemptsAreEvidence`;
`OrdersApproveWhatTheyShowed`, `EndedAttemptsStay`).  The attempts live in that
workspace, and its lemmas are used for every step they take there.  `OrdersInv` adds to
`IndInv` what the call of an attempt knows at each of its places (`TaskRests`):
it has the attempt's lock, the attempt is running in the stage the call is in,
its revision was built from the submitted source, and the review on record still
allows the digests the call keeps.  `OrderFrame` says why another call's step
cannot disturb that: it changes an attempt only with its lock, or when nobody
has it, which is the case of recovery.  A promotion rests on `ShownClean`, which
stays true once true, so that reading the evidence without a lease does no harm.
Like `RanAsApproved`, the theorems hold with every failure: torn builds and
dropped calls are among the steps.

**CampaignStateProofs** (`GateHolds`, `AllowanceHolds`; `GateNeverMiscounts`).
That the gate counts the permits that are out is inductive once a slot is known to
belong to a process that runs; that it is never overrun also needs what a fire
knows between its comparison and its exchange (`FireRests`): the number it read
was below a limit the gate has had, and the exchange succeeds only on that number.
`GateNeverMiscounts` therefore needs no hypothesis.  `GateHolds` adds that the
gate follows the setting, and assumes `Guarded = Setters`: every caller of
`try_set_max_concurrent` holds the schedule mutation lock, as the web route does
and the GUI does not.  Then what a setter read back is still the setting when it
stores it (`SettersRest`).  `AllowanceHolds` assumes `OneProcess`, since the
registry of fires is one process's.  Its invariant says that while a fire is in
flight its campaign is charged exactly with what the fire saw when it was admitted
(`SnapRests`), so what it may still run is what the budget has left, and that
memory is as honest as the file (`ChargeRests`), which is what a write that fails
after its rename, and a restart that reads it, need.  Both hypotheses are
necessary, see 7.

**RecordsProofs**, closeout (`CloseoutHolds`; `StepsAreNotRedone`, part of
`FinalStays`).  The rows are shared and a pass works from a copy it read at the
start, so every part of `CloseoutHolds` rests on the copy: while the run is stored
it is the table (`CopyRests`), because only the pass with the lease writes rows
(`LeaseRests`).  Once the run is deleted under the pass the two differ, and what
is left is one direction: no row is further on than the pass thinks.  `PlanRests`
says that what is still to do is not done, that what is not to do has an outcome,
and that the trust report is last; `StepRests` that the step at hand is not
blocked and that a report about to be recorded read the rows as they are.  From
these, a row changes only while the report is withdrawn (`TrustIsCurrent`) and a
step becomes terminal only after what it consumes (`DependentsRestOnSuccess`).
`CloseoutAssumption` says of the rows of an earlier version what it did: a
dependent was recorded as done only when what it consumes was.

**RecordsProofs**, the scans (`ScansReconciled`; `AnswersStay`, part of
`FinalStays`).  What the promises say of an operation at rest is not inductive:
between two writes its row, journal and directory disagree, and a crash leaves them
so.  `DiskFits` says which disagreements are possible with nobody's step in between,
`TaskFits` what they are at each step of a task, and `LeaseRests` that a recovery
runs beside no task and no other recovery, which is why a task finds what it left
and a recovery need not look again.  `RecoveryRests` follows the recovery: at each
step it has read every interrupted journal or still has it to do, so a success
means that none is left.  A torn file stops it before that.  `AnswersStay` needs
in addition that the journal accepts no line after a close and that only an
operation without a row gets an owner.

**RecordsProofs**, the run journal (`RunsAreExplained`; `FailedRunsStay`, part of
`FinalStays`).  Everything the promises say of the log is about `OpenRuns`, so the
log is first reduced to it: an appended line changes it for its own run only
(`OpenAppend`), compaction does not change it (`OpenCompact`), a log written for a
set of runs shows these (`OpenListed`, which needs that a finite set of runs can be
put in order of rank), and an append that did not have
its effect leaves a degraded journal (`AppendLockedFacts`).  `WalRests`, `RowRests`
and `GuardRests` say for each place of a future what its row, its guard and the log
are; what matters is that the guard exists from the open event to the return, so
that however a future ends its row is settled, to be repaired, or still open in the
log, and that a run left to repair is closed or the journal is degraded.  Each of
these speaks of one run, and `OneRun` shows that a step of one run keeps them for
the others; crash, restart and reconciliation are done for all runs at once, with
`StartRests`.  With a second process each of these excepts the runs in `lost`;
`PeerRests`, that what it has read as open had its open event by then, keeps the
file it renames from showing a run before that run is opened.  `AloneRests` holds
only without one: nothing is lost, and no run that executes is failed.  `JournalAssumption` asks that two runs differ in rank, as
ids do.

**RecurringScheduleProofs** (`RecoveryHolds`, `FileAdvances`).  The schedule exists
in several copies that are read at one step and written at a later one: the
manager's, the file's, the snapshot of a trigger, the two of an edit.  `KeepRests`
says that whatever is owed is in each copy that may still reach the file, and
`ClearedRests` that a copy without a finished checkpoint has a cursor past it, so
that `upsert_recovery` refuses to bring it back.  A checkpoint is cleared only when
all it covers is recorded (`DoneRests`), which rests on the three looks of the
worker: unless the recovery is blocked, what was handled is recorded or still at
work (`HandledRests`); nothing recovered is at work any more (`QuietRests`); no
record is unfinished.  That a cancelled recovered task blocks the recovery
(`CancelRests`) is what keeps a newer trigger from breaking it.  The order of a
backfill comes from the serial lock's queue (`LineRests`): releases enter it in the
order of their occurrences (`OrderRests`, `AtRests`).  `CursorMonotone` needs that
memory is ahead of the file and of everything on its way to it (`CopyRests`,
`PastRests`), which is true only until an edit has been undone, see 7.

**ServicesProofs**, hourly admission (`HourlyLimitHolds`).  The limit bounds
the size of a set, counted at one step of an admission and used at later ones.
`Load` is what counts against the limit in the running process: queued, or started
within the hour.  An admission has counted no less than that, and goes on only below
the limit (`LoadRests`); everything else, time included, only shrinks `Load`, because
just one admission is under way.  Across restarts the count comes from rows: while
nothing is `loose`, what dead processes dispatched within the hour has its start in
its row (`RowsRest`), so the rows and the queue the admission counted cover `Spent`
(`SpentRests`).  The cardinality facts come from `FiniteSetTheorems`.

**ServicesProofs**, event schedules (`EventsHold`; `WindowsStayApart`, part of
`ServicesStay`).  `CascadeBounded` is about a counter only the model has, the number
of executions behind one, and needs that the depth carried through events, the
channel, the executor and a task is that number (`DepthIsTrue`); `NoSelfFire` needs
the same of the source (`SourceIsTrue`).  For the windows the bridge's lock counts:
one call at a time is between its look at the windows and its last send, and what it
still has to send is a window after what was sent (`BridgeRests`).  The policies and
the channel's capacity stay constants.

**ServicesProofs**, retirement (`RetirementHolds`; `CertificatesBornOut`, part of
`ServicesStay`).  While a process serves, the receipt is completed, the archive is
the planned one and no proof names an identity the receipt does not (`ServingRests`);
nobody can disturb that, because the phases before completion and the operator need
that nobody serves.  That the archive holds exactly the identities the receipt
retires (`EvidenceRests`) then carries `ServedAreLive` from the receipt to the
archive, with any edit, restore or removal between two starts.  Without one
(`Undisturbed`) the receipt plans the first file (`PlanRests`), each phase finds its
predecessors' work done (`PhaseRests`), and a process about to move the receipt has
done its own (`MarkRests`); a process that dies between the two leaves the work done
in a phase that allows it to be done already, which is what the four `...Ready`
guards ask.

**Only model-checked.**  Liveness (`AbandonedIsSettled`, `PoolRecovers`,
`WorkEnds`, `WellAgain`, `ComesToRest`), which is out of the prover's reach, as
is induction over data: transcripts are sequences cut and copied.
The safety properties of `chat` are left for later.

## 7. Disagreements with the documents

Met while modelling; the models follow the code, and the properties say what the
code keeps.

* A truncated stream.  `docs/design/model-budgets-design.md:41-43` says
  incomplete streams retain their whole reservation.  The decorator settles the
  last usage it saw when a stream ends without an error item, and the Gemini
  adapter forwards running counts and ends cleanly when the connection is cut, so
  a truncated answer is refunded.  `RealSpendWithinLimit` is therefore about
  providers that report usage at the end.
* The reserve.  `router.rs:152` says a fifth of a provider's permits is reserved
  for critical calls.  The filter reads the available permits while routing, and
  the permits are taken later without looking again, so normal calls routed at
  the same time take the reserve.
* An overtaken health check.  `system.rs:69-70` says a still-broken provider
  stays frozen.  The answer to a check thaws whatever it finds, a permanent
  freeze that a call caused after the check was sent included.
* Run journal: a row stays active when its reconciliation was abandoned and the
  run then dismissed; a dropped guard closes the journal before the row is
  repaired (`guards.rs:183-185`), so a death in between loses the evidence; a
  failure is announced before the repair; appends may take the log past the replay limit.
  `StuckRowsAreExplained` lists these ways.
* Run journal, a second process.  `recovery.rs:3-7` takes every `open` without a
  `close` for a run of a process that is gone, and
  `service-orchestration-design.md:281` calls opening and closing a run synced
  events.  The lock on the log is local to a process (`recovery.rs:289-301`), and
  every command of the CLI opens the journal.  So a second process fails runs that
  execute here, and its compaction, which reads the log (112) and later renames a
  new file over it (526), drops what this process appended in between: the open
  event of a run that executes, which no startup then finds, or the close of one
  that is done, which the next startup fails.  The promises except these runs
  (`lost`); without `\cup lost` TLC finds each of `LaunchedIsJournaled`,
  `UnconfirmedIsBlocked` and `StuckRowsAreExplained` violated in the scene *run and
  peer*.  Without a second process `lost` is empty, which is proved.
* Campaigns: a limit set from the GUI does not hold the schedule lock, so two
  setters may leave the gate behind the setting; the registry is local to a
  process, so two processes may fire one campaign; a removal that dies leaves the
  state behind.  The cursor also advances for a fire that ran nothing.
* Harness: a compile cut between its writes leaves a binary without its source;
  the digests in every later check keep it from being run as approved.
* Remediation: the recovery of a starting process ends a live workflow of
  another; a claim dropped before its first stage leaves a running row until the
  next start; the regression corpus may differ from the bound one.
* Chat: a rollback cut by a death is torn; a branch is a prefix only until its
  parent is edited; a failed deletion may lose the session's row.  A fork holds
  only its source's lock, so a branch can be found through another branch and
  used while it is still being copied; the two calls mix their messages, where
  `container/mod.rs:730-732` says that the locks keep such mutations apart.  The
  properties except those sessions (`early`).
* Recurring: a stop is not reconciled with the rows of its executions; fires
  missed while the service was down twice are not backfilled; the undo of a
  failed edit restores a cleared checkpoint, and an old cursor that the next edit
  writes to the file.
* The hourly limit may be exceeded across a restart when a start's row was not
  yet written (`WrittenLimit` says when it holds).
* Issue filing: after a death the claim stays without a filer until it is old.

## 8. Not modelled

Parsing and encoding of vendor payloads, prompts, fuzzers, sandboxes, coverage,
crash triage, source analysis and front ends: data conversion, or the behaviour
of external programs.  The agent's decisions come from a model, its loop guard
and approvals are sequential checks.  The spill store writes unique names and
evicts files that may already be gone.  In modelled components: cron
expressions, exporting history, ranking and packet digests of work orders,
titles and merging of chat sessions, the database's own migrations, power loss.
Most of the repository's lines belong to these parts; the modules cover the
protocols.

## 9. Running it

    tlc -workers 2 -config Services.cfg MCServices
    tlapm RecurringScheduleProofs.tla
