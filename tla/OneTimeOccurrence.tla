------------------------- MODULE OneTimeOccurrence -------------------------
(***************************************************************************)
(* One one-time schedule, from its trigger to its durable outcome.         *)
(*                                                                         *)
(* crates/hf-scheduler/src/manager.rs admits the trigger, reserves an      *)
(* occurrence receipt, advances the schedule cursor, waits for a slot,     *)
(* moves the receipt to running, calls the workflow dispatcher and writes  *)
(* the outcome; crates/hf-storage/src/schedule_occurrence_store.rs holds   *)
(* the receipt and its execution row in SQLite; hf-service/src/            *)
(* scheduler.rs reconciles them at startup and lets an operator            *)
(* acknowledge a receipt whose owner is gone.                              *)
(*                                                                         *)
(* Any number of processes share the journal and the schedule file.  A     *)
(* process may die between any two steps, and is stopped in several; only  *)
(* the journal and the file survive.  Each journal call has one of three   *)
(* outcomes: it works; it fails and changes nothing; or it commits and     *)
(* still reports an error.  Receipts of other schedules are separate rows  *)
(* and share only the block a journal error leaves behind, which can only  *)
(* stop this one.                                                          *)
(***************************************************************************)
EXTENDS Integers, Sequences

CONSTANTS
    Processes,      \* operating-system processes that run the service
    LeaseLength,    \* ONE_TIME_LEASE, in clock ticks
    Outcomes,       \* what a journal call may do and report
    NoReceipt,      \* no row for the schedule
    MaxClock,       \* bound: clock ticks
    MaxInstances,   \* bound: times each process is started
    Stoppable,      \* bound: processes whose manager is stopped in order
    MaxQueued       \* bound: triggers waiting in one process's queue

ASSUME OccurrenceAssumption ==
    /\ LeaseLength \in Nat \ {0}
    /\ Outcomes \subseteq {"ok", "failed", "unsure"}
    /\ MaxClock \in Nat
    /\ MaxInstances \in [Processes -> Nat]
    /\ Stoppable \subseteq Processes
    /\ MaxQueued \in Nat

VARIABLES
    clock,          \* the host's wall clock
    receipt,        \* row of schedule_occurrences, or NoReceipt
    execution,      \* status of the paired row of schedule_executions
    cursorFile,     \* last_fire is set in the schedule file
    dispatches,     \* calls of WorkflowDispatcher::dispatch so far
    mode,           \* what the process is doing
    instance,       \* how often it was started: names its owner_id
    status,         \* one_time_runtime_status; "blocked" is the global block
    cursor,         \* last_fire is set in the in-memory schedule
    queued,         \* triggers in the trigger queue
    admission,      \* where handle_one_time_trigger is
    held,           \* the occurrence value that admission works on
    task,           \* where run_one_time_dispatch is
    memory,         \* status of the task's execution in the in-memory history
    healthy,        \* lease_healthy and terminal_allowed of the task
    ack,            \* where an operator's acknowledgement is
    ackAt           \* its acknowledged_at

journal == <<receipt, execution>>
flags == <<status, cursor>>
admitting == <<queued, admission, held>>
dispatching == <<task, memory, healthy>>
acking == <<ack, ackAt>>
vars == <<clock, journal, cursorFile, dispatches, mode, instance, flags,
          admitting, dispatching, acking>>

NoLease == -1
NoExecution == "none"
Live == {"reserved", "running"}
Terminal == {"completed", "failed", "cancelled"}
Owners == Processes \X Nat
ReceiptType == [state : Live \cup Terminal, owner : Owners, lease : Int]
Receipt(state, owner, lease) == [state |-> state, owner |-> owner, lease |-> lease]

ASSUME NoReceiptAssumption == NoReceipt \notin ReceiptType

\* A call that fails changes nothing; "unsure" commits and reports an error.
Effective(o) == o # "failed"

\* A task that dispatch_tasks still holds and that has not finished.
Tracked == {"waiting", "entering", "dispatching", "completed", "failed"}
Modes == {"down", "up", "draining", "aborting", "cancelling", "stopped"}
Admissions == {"idle", "reserving", "reserved", "existing", "unknown", "interrupted"}

\* Every variable stays in its type; the trigger queue never holds less than
\* nothing.
TypeOK ==
    /\ clock \in Nat
    /\ receipt \in ReceiptType \cup {NoReceipt}
    /\ execution \in {NoExecution, "pending", "running"} \cup Terminal
    /\ cursorFile \in BOOLEAN
    /\ dispatches \in Nat
    /\ mode \in [Processes -> Modes]
    /\ instance \in [Processes -> Nat]
    /\ status \in [Processes -> {"ready", "consumed", "recovery", "blocked"}]
    /\ cursor \in [Processes -> BOOLEAN]
    /\ queued \in [Processes -> Nat]
    /\ admission \in [Processes -> Admissions]
    /\ held \in [Processes -> ReceiptType \cup {NoReceipt}]
    /\ task \in [Processes -> Tracked \cup {"none", "aborted"}]
    /\ memory \in [Processes -> {"none", "pending", "running"}]
    /\ healthy \in [Processes -> BOOLEAN]
    /\ ack \in [Processes -> {"idle", "checked", "stamped", "finishing"}]
    /\ ackAt \in [Processes -> Nat]

Init ==
    /\ clock = 0
    /\ receipt = NoReceipt
    /\ execution = NoExecution
    /\ cursorFile = FALSE
    /\ dispatches = 0
    /\ mode = [p \in Processes |-> "down"]
    /\ instance = [p \in Processes |-> 0]
    /\ status = [p \in Processes |-> "ready"]
    /\ cursor = [p \in Processes |-> FALSE]
    /\ queued = [p \in Processes |-> 0]
    /\ admission = [p \in Processes |-> "idle"]
    /\ held = [p \in Processes |-> NoReceipt]
    /\ task = [p \in Processes |-> "none"]
    /\ memory = [p \in Processes |-> "none"]
    /\ healthy = [p \in Processes |-> TRUE]
    /\ ack = [p \in Processes |-> "idle"]
    /\ ackAt = [p \in Processes |-> 0]

(***************************************************************************)
(* The journal                                                             *)
(***************************************************************************)
\* owner_id is a fresh uuid of each manager.  An instance reserves at most
\* once, so the owner also stands for the occurrence and execution ids.
Owner(p) == <<p, instance[p]>>

Owns(p) == receipt # NoReceipt /\ receipt.owner = Owner(p)

Nonterminal(row) == row # NoReceipt /\ row.state \in Live

\* OneTimeOccurrence::recovery_eligible
Eligible(row, now) == Nonterminal(row) /\ row.lease <= now

\* transition_schedule_occurrence finds the row in the expected state, and
\* its execution row.
Accepts(p, from) ==
    Owns(p) /\ receipt.state = from /\ execution # NoExecution

\* Both rows after a transition of p's receipt.
Moved(to) ==
    Receipt(to, receipt.owner, IF to = "running" THEN clock + LeaseLength ELSE NoLease)

TransitionReceipt(p, from, to, o) ==
    IF Effective(o) /\ Accepts(p, from) THEN Moved(to) ELSE receipt

TransitionExecution(p, from, to, o) ==
    IF Effective(o) /\ Accepts(p, from) THEN to ELSE execution

Applied(p, from, o) == o = "ok" /\ Accepts(p, from)

\* renew_schedule_occurrence_lease on a row, which need not be unexpired.
Renewed(p, row, o) ==
    IF Effective(o) /\ Nonterminal(row) /\ row.owner = Owner(p)
    THEN Receipt(row.state, row.owner, clock + LeaseLength) ELSE row

\* release_schedule_occurrence_lease: the lease ends now.
Released(p, row, o) ==
    IF Effective(o) /\ Nonterminal(row) /\ row.owner = Owner(p)
    THEN Receipt(row.state, row.owner, clock) ELSE row

\* Bound: a lease never reaches past the last tick.
LeaseFits == clock + LeaseLength <= MaxClock

\* mark_consumed and mark_recovery_required, after journal calls that went
\* well or not: latch_journal_failure blocks the process for good, and the
\* block hides every mark.
Mark(p, ok, s) ==
    status' = [status EXCEPT ![p] = IF ok /\ @ # "blocked" THEN s ELSE "blocked"]

\* Advance last_fire in memory, and in the file when the write succeeds.
AdvanceCursor(p, written) ==
    /\ cursor' = [cursor EXCEPT ![p] = TRUE]
    /\ cursorFile' = (cursorFile \/ written)

(***************************************************************************)
(* Triggers and admission: handle_one_time_trigger                         *)
(***************************************************************************)
\* The evaluation tick enqueues the due schedule while it has not fired.
Fire(p) ==
    /\ mode[p] = "up"
    /\ ~cursor[p]
    /\ queued[p] < MaxQueued
    /\ queued' = [queued EXCEPT ![p] = @ + 1]
    /\ UNCHANGED <<clock, journal, cursorFile, dispatches, mode, instance, flags,
                   admission, held, dispatching, acking>>

\* one_time_trigger_blocked
TriggerBlocked(p) == status[p] # "ready"

\* The execution loop receives a trigger; one admission at a time.
Take(p) ==
    /\ mode[p] = "up"
    /\ queued[p] > 0
    /\ admission[p] = "idle"
    /\ queued' = [queued EXCEPT ![p] = @ - 1]

Suppress(p) ==
    /\ Take(p)
    /\ TriggerBlocked(p)
    /\ UNCHANGED <<clock, journal, cursorFile, dispatches, mode, instance, flags,
                   admission, held, dispatching, acking>>

\* The hourly history cannot be read, or no dispatcher or store is set.
Unavailable(p, history) ==
    /\ Take(p)
    /\ ~TriggerBlocked(p)
    /\ Mark(p, history, "recovery")
    /\ UNCHANGED <<clock, journal, cursorFile, dispatches, mode, instance, cursor,
                   admission, held, dispatching, acking>>

\* The hourly cap is reached or the parameters do not resolve: the fire is
\* recorded and the cursor advances, best effort.
Refuse(p, written) ==
    /\ Take(p)
    /\ ~TriggerBlocked(p)
    /\ AdvanceCursor(p, written)
    /\ UNCHANGED <<clock, journal, dispatches, mode, instance, status,
                   admission, held, dispatching, acking>>

\* Build the occurrence and register the admission.
Propose(p) ==
    /\ Take(p)
    /\ ~TriggerBlocked(p)
    /\ LeaseFits
    /\ admission' = [admission EXCEPT ![p] = "reserving"]
    /\ held' = [held EXCEPT ![p] = Receipt("reserved", Owner(p), clock + LeaseLength)]
    /\ UNCHANGED <<clock, journal, cursorFile, dispatches, mode, instance, flags,
                   dispatching, acking>>

\* Mutant: a receipt already there is replaced.
InsertsAnyway == TRUE

\* INSERT ... ON CONFLICT(schedule_id) DO NOTHING
Inserts == receipt = NoReceipt

\* reserve_schedule_occurrence: one receipt for the schedule, with a pending
\* execution; an existing receipt is returned instead.
Reserve(p, o) ==
    /\ admission[p] = "reserving"
    /\ IF Inserts /\ Effective(o)
       THEN receipt' = held[p] /\ execution' = "pending"
       ELSE UNCHANGED journal
    /\ admission' = [admission EXCEPT ![p] = IF o # "ok" THEN "unknown"
                                             ELSE IF Inserts THEN "reserved" ELSE "existing"]
    /\ held' = [held EXCEPT ![p] = IF o = "ok" /\ ~Inserts THEN receipt ELSE @]
    /\ Mark(p, o = "ok", status[p])
    /\ UNCHANGED <<clock, cursorFile, dispatches, mode, instance, cursor,
                   queued, dispatching, acking>>

EndAdmission(p) ==
    /\ admission' = [admission EXCEPT ![p] = "idle"]
    /\ held' = [held EXCEPT ![p] = NoReceipt]

\* Another admission won: adopt its cursor, and judge its lease by the copy
\* read at the reservation.
AdmitExisting(p, written) ==
    /\ admission[p] = "existing"
    /\ AdvanceCursor(p, written)
    /\ Mark(p, TRUE, IF ~written \/ Eligible(held[p], clock) THEN "recovery" ELSE "consumed")
    /\ EndAdmission(p)
    /\ UNCHANGED <<clock, journal, dispatches, mode, instance, queued,
                   dispatching, acking>>

\* Mutant: a reservation that reported an error counts as consumed.
AdmitUnknownConsumed(p, found, written, r) ==
    /\ admission[p] = "unknown"
    /\ found => Owns(p)
    /\ status' = [status EXCEPT ![p] = "consumed"]
    /\ EndAdmission(p)
    /\ UNCHANGED <<clock, journal, cursorFile, dispatches, mode, instance, cursor,
                   queued, dispatching, acking>>

\* The reservation reported an error: look the own receipt up, and give it
\* up for recovery when it is there.
AdmitUnknown(p, found, written, r) ==
    /\ admission[p] = "unknown"
    /\ found => Owns(p)
    /\ IF found
       THEN /\ AdvanceCursor(p, written)
            /\ receipt' = Released(p, receipt, r)
            /\ Mark(p, r = "ok" \/ receipt.state \in Terminal,
                    IF receipt.state \in Terminal /\ written THEN "consumed" ELSE "recovery")
       ELSE /\ Mark(p, ~Owns(p), "recovery")
            /\ UNCHANGED <<receipt, cursor, cursorFile>>
    /\ EndAdmission(p)
    /\ UNCHANGED <<clock, execution, dispatches, mode, instance, queued,
                   dispatching, acking>>

\* The receipt is ours: persist the cursor, then spawn the dispatch task.
AdmitReserved(p, written, r) ==
    /\ admission[p] = "reserved"
    /\ AdvanceCursor(p, written)
    /\ IF written
       THEN /\ Mark(p, TRUE, "consumed")
            /\ task' = [task EXCEPT ![p] = "waiting"]
            /\ memory' = [memory EXCEPT ![p] = "pending"]
            /\ UNCHANGED receipt
       ELSE /\ receipt' = Released(p, receipt, r)
            /\ Mark(p, r = "ok", "recovery")
            /\ UNCHANGED <<task, memory>>
    /\ EndAdmission(p)
    /\ UNCHANGED <<clock, execution, dispatches, mode, instance, queued, healthy, acking>>

(***************************************************************************)
(* The dispatch task: run_one_time_dispatch                                *)
(***************************************************************************)
EndTask(p) ==
    /\ task' = [task EXCEPT ![p] = "none"]
    /\ memory' = [memory EXCEPT ![p] = "none"]
    /\ healthy' = [healthy EXCEPT ![p] = TRUE]

\* A heartbeat, before or during the dispatch.  The renewal counts only when
\* it is reported and found the row.
RenewalHolds(p, o) == o = "ok" /\ Owns(p) /\ receipt.state \in Live

Renew(p, o) ==
    /\ task[p] \in {"waiting", "dispatching"}
    /\ healthy[p]
    /\ LeaseFits
    /\ RenewalHolds(p, o)
    /\ receipt' = Renewed(p, receipt, o)
    /\ UNCHANGED <<clock, execution, cursorFile, dispatches, mode, instance, flags,
                   admitting, dispatching, acking>>

\* Still waiting for a slot: give the receipt up.
LoseLeaseWaiting(p, o, r) ==
    /\ task[p] = "waiting"
    /\ LeaseFits
    /\ ~RenewalHolds(p, o)
    /\ receipt' = Released(p, Renewed(p, receipt, o), r)
    /\ Mark(p, o = "ok" /\ r = "ok", "recovery")
    /\ EndTask(p)
    /\ UNCHANGED <<clock, execution, cursorFile, dispatches, mode, instance, cursor,
                   admitting, acking>>

\* While the workflow runs: it goes on, but may no longer write an outcome.
LoseLeaseDispatching(p, o) ==
    /\ task[p] = "dispatching"
    /\ healthy[p]
    /\ LeaseFits
    /\ ~RenewalHolds(p, o)
    /\ healthy' = [healthy EXCEPT ![p] = FALSE]
    /\ receipt' = Renewed(p, receipt, o)
    /\ Mark(p, o = "ok", "recovery")
    /\ UNCHANGED <<clock, execution, cursorFile, dispatches, mode, instance, cursor,
                   admitting, task, memory, acking>>

\* Mutant: the dispatcher is entered on an error that may have committed.
BeginOptimistically(p, o, r) ==
    /\ task[p] = "waiting"
    /\ LeaseFits
    /\ receipt' = TransitionReceipt(p, "reserved", "running", o)
    /\ execution' = TransitionExecution(p, "reserved", "running", o)
    /\ task' = [task EXCEPT ![p] = "entering"]
    /\ memory' = [memory EXCEPT ![p] = "running"]
    /\ Mark(p, o = "ok", status[p])
    /\ UNCHANGED <<clock, cursorFile, dispatches, mode, instance, cursor,
                   admitting, healthy, acking>>

\* A slot is free: transition_one_time_to_running.
Begin(p, o, r) ==
    /\ task[p] = "waiting"
    /\ LeaseFits
    /\ execution' = TransitionExecution(p, "reserved", "running", o)
    /\ IF Applied(p, "reserved", o)
       THEN /\ receipt' = TransitionReceipt(p, "reserved", "running", o)
            /\ task' = [task EXCEPT ![p] = "entering"]
            /\ memory' = [memory EXCEPT ![p] = "running"]
            /\ UNCHANGED <<status, healthy>>
       ELSE /\ receipt' = Released(p, TransitionReceipt(p, "reserved", "running", o), r)
            /\ Mark(p, o = "ok" /\ r = "ok", "recovery")
            /\ EndTask(p)
    /\ UNCHANGED <<clock, cursorFile, dispatches, mode, instance, cursor,
                   admitting, acking>>

\* WorkflowDispatcher::dispatch is called.
Dispatch(p) ==
    /\ task[p] = "entering"
    /\ task' = [task EXCEPT ![p] = "dispatching"]
    /\ dispatches' = dispatches + 1
    /\ UNCHANGED <<clock, journal, cursorFile, mode, instance, flags, admitting,
                   memory, healthy, acking>>

\* The dispatcher declined to run the workflow: nothing durable but the
\* released lease says so.
DispatchSkipped(p, r) ==
    /\ task[p] = "dispatching"
    /\ EndTask(p)
    /\ IF healthy[p]
       THEN /\ receipt' = Released(p, receipt, r)
            /\ Mark(p, r = "ok", "recovery")
       ELSE UNCHANGED <<receipt, status>>
    /\ UNCHANGED <<clock, execution, cursorFile, dispatches, mode, instance, cursor,
                   admitting, acking>>

\* Mutant: the result is written even after the lease was lost.
ReturnAlways(p, result) ==
    /\ task[p] = "dispatching"
    /\ task' = [task EXCEPT ![p] = result]
    /\ UNCHANGED <<clock, journal, cursorFile, dispatches, mode, instance, flags,
                   admitting, memory, healthy, acking>>

\* The workflow returned; without a healthy lease its result is dropped.
DispatchReturns(p, result) ==
    /\ task[p] = "dispatching"
    /\ IF healthy[p]
       THEN task' = [task EXCEPT ![p] = result] /\ UNCHANGED <<memory, healthy>>
       ELSE EndTask(p)
    /\ UNCHANGED <<clock, journal, cursorFile, dispatches, mode, instance, flags,
                   admitting, acking>>

\* The terminal transition, both rows at once.
RecordOutcome(p, o) ==
    /\ task[p] \in {"completed", "failed"}
    /\ receipt' = TransitionReceipt(p, "running", task[p], o)
    /\ execution' = TransitionExecution(p, "running", task[p], o)
    /\ Mark(p, o = "ok", IF Applied(p, "running", o) THEN "consumed" ELSE "recovery")
    /\ EndTask(p)
    /\ UNCHANGED <<clock, cursorFile, dispatches, mode, instance, cursor, admitting,
                   acking>>

(***************************************************************************)
(* Stopping the manager, and crashes                                       *)
(***************************************************************************)
\* The evaluation and execution loops are aborted; a call in flight may
\* still have committed.
StopLoops(p, inFlight) ==
    /\ mode[p] = "up"
    /\ p \in Stoppable
    /\ mode' = [mode EXCEPT ![p] = "draining"]
    /\ queued' = [queued EXCEPT ![p] = 0]
    /\ admission' = [admission EXCEPT ![p] = IF @ = "idle" THEN @ ELSE "interrupted"]
    /\ \/ ~inFlight /\ UNCHANGED <<journal, cursorFile>>
       \/ /\ inFlight
          /\ admission[p] = "reserving"
          /\ Inserts
          /\ receipt' = held[p]
          /\ execution' = "pending"
          /\ UNCHANGED cursorFile
       \/ /\ inFlight
          /\ admission[p] \in {"reserved", "existing"}
          /\ cursorFile' = TRUE
          /\ UNCHANGED journal
    /\ UNCHANGED <<clock, dispatches, instance, flags, held, dispatching, acking>>

\* Interrupted admissions give their receipt up.
StopAdmissions(p, r) ==
    /\ mode[p] = "draining"
    /\ mode' = [mode EXCEPT ![p] = "aborting"]
    /\ EndAdmission(p)
    /\ IF admission[p] = "interrupted"
       THEN /\ receipt' = Released(p, receipt, r)
            /\ Mark(p, r = "ok", "recovery")
       ELSE UNCHANGED <<receipt, status>>
    /\ UNCHANGED <<clock, execution, cursorFile, dispatches, instance, cursor, queued,
                   dispatching, acking>>

\* The tracked task is aborted; its transition in flight may have committed
\* without the in-memory history hearing of it.
StopTasks(p, inFlight) ==
    LET from == IF task[p] = "waiting" THEN "reserved" ELSE "running"
        to == IF task[p] = "waiting" THEN "running" ELSE task[p]
    IN  /\ mode[p] = "aborting"
        /\ mode' = [mode EXCEPT ![p] = IF task[p] = "none" THEN "stopped" ELSE "cancelling"]
        /\ task' = [task EXCEPT ![p] = IF @ = "none" THEN @ ELSE "aborted"]
        /\ \/ ~inFlight /\ UNCHANGED journal
           \/ /\ inFlight
              /\ task[p] \in {"waiting", "completed", "failed"}
              /\ task[p] = "waiting" => LeaseFits
              /\ receipt' = TransitionReceipt(p, from, to, "ok")
              /\ execution' = TransitionExecution(p, from, to, "ok")
        /\ UNCHANGED <<clock, cursorFile, dispatches, instance, flags, admitting,
                       memory, healthy, acking>>

\* The aborted task's receipt is cancelled, from the state the in-memory
\* history gives it, unless its lease was lost.
StopCancels(p, o, r) ==
    LET from == IF memory[p] = "pending" THEN "reserved" ELSE "running"
    IN  /\ mode[p] = "cancelling"
        /\ mode' = [mode EXCEPT ![p] = "stopped"]
        /\ EndTask(p)
        /\ IF healthy[p]
           THEN /\ execution' = TransitionExecution(p, from, "cancelled", o)
                /\ IF Applied(p, from, o)
                   THEN /\ receipt' = TransitionReceipt(p, from, "cancelled", o)
                        /\ Mark(p, TRUE, "consumed")
                   ELSE /\ receipt' = Released(p,
                                        TransitionReceipt(p, from, "cancelled", o), r)
                        /\ Mark(p, o = "ok" /\ r = "ok", "recovery")
           ELSE UNCHANGED <<journal, status>>
        /\ UNCHANGED <<clock, cursorFile, dispatches, instance, cursor, admitting, acking>>

\* The process ends, in order or not; only the journal and the file remain.
\* Bound: the last instance stays.
Exit(p) ==
    /\ mode[p] # "down"
    /\ instance[p] < MaxInstances[p]
    /\ mode' = [mode EXCEPT ![p] = "down"]
    /\ queued' = [queued EXCEPT ![p] = 0]
    /\ EndAdmission(p)
    /\ EndTask(p)
    /\ ack' = [ack EXCEPT ![p] = "idle"]
    /\ ackAt' = [ackAt EXCEPT ![p] = 0]
    /\ status' = [status EXCEPT ![p] = "ready"]
    /\ cursor' = [cursor EXCEPT ![p] = FALSE]
    /\ UNCHANGED <<clock, journal, cursorFile, dispatches, instance>>

(***************************************************************************)
(* The service: startup reconciliation, listing, acknowledgement           *)
(***************************************************************************)
\* Readiness of the schedule in a new manager.
Reconciled(row, fired, now) ==
    IF Eligible(row, now) THEN "recovery"
    ELSE IF row # NoReceipt \/ fired THEN "consumed" ELSE "ready"

\* try_start: an unreadable journal, or a reconciled cursor that cannot be
\* written back, blocks every one-time schedule of the process.
Start(p, readable, written) ==
    LET restored == readable /\ receipt # NoReceipt /\ ~cursorFile
    IN  /\ mode[p] = "down"
        /\ instance[p] < MaxInstances[p]
        /\ mode' = [mode EXCEPT ![p] = "up"]
        /\ instance' = [instance EXCEPT ![p] = @ + 1]
        /\ Mark(p, readable /\ (restored => written), Reconciled(receipt, cursorFile, clock))
        /\ cursor' = [cursor EXCEPT ![p] = cursorFile \/ restored]
        /\ cursorFile' = (cursorFile \/ (restored /\ written))
        /\ UNCHANGED <<clock, journal, dispatches, admitting, dispatching, acking>>

\* refresh_one_time_receipt_statuses, run by every listing.
Refresh(p, o) ==
    /\ mode[p] # "down"
    /\ Mark(p, o = "ok", IF Eligible(receipt, clock) THEN "recovery" ELSE status[p])
    /\ UNCHANGED <<clock, journal, cursorFile, dispatches, mode, instance, cursor,
                   admitting, dispatching, acking>>

\* Mutant: a finished task is still taken for an active one.
AckCheckFinishedTasks(p) ==
    /\ mode[p] # "down"
    /\ ack[p] = "idle"
    /\ receipt # NoReceipt
    /\ \/ /\ receipt.state = "cancelled"
          /\ ack' = [ack EXCEPT ![p] = "finishing"]
       \/ /\ ~Owns(p)
          /\ Eligible(receipt, clock)
          /\ ack' = [ack EXCEPT ![p] = "checked"]
    /\ UNCHANGED <<clock, journal, cursorFile, dispatches, mode, instance, flags,
                   admitting, dispatching, ackAt>>

\* An operator acknowledges: the service looks at the receipt and at its own
\* tasks first.
AckCheck(p) ==
    /\ mode[p] # "down"
    /\ ack[p] = "idle"
    /\ receipt # NoReceipt
    /\ \/ /\ receipt.state = "cancelled"
          /\ ack' = [ack EXCEPT ![p] = "finishing"]
       \/ /\ ~(Owns(p) /\ task[p] \in Tracked)
          /\ Eligible(receipt, clock)
          /\ ack' = [ack EXCEPT ![p] = "checked"]
    /\ UNCHANGED <<clock, journal, cursorFile, dispatches, mode, instance, flags,
                   admitting, dispatching, ackAt>>

\* It reads the retained execution and takes the time of acknowledgement.
AckStamp(p) ==
    /\ ack[p] = "checked"
    /\ IF execution # NoExecution
       THEN /\ ack' = [ack EXCEPT ![p] = "stamped"]
            /\ ackAt' = [ackAt EXCEPT ![p] = clock]
       ELSE /\ ack' = [ack EXCEPT ![p] = "idle"]
            /\ UNCHANGED ackAt
    /\ UNCHANGED <<clock, journal, cursorFile, dispatches, mode, instance, flags,
                   admitting, dispatching>>

\* Mutant: the transaction trusts the check made before it.
AckAppliesUnchecked(p) == Nonterminal(receipt)

\* The lease is compared again inside the transaction.
AckApplies(p) == Eligible(receipt, ackAt[p])

\* acknowledge_schedule_occurrence
AckCommit(p, o) ==
    LET cancels == AckApplies(p) /\ Effective(o) /\ execution # NoExecution
        already == ~AckApplies(p) /\ receipt.state = "cancelled"
    IN  /\ ack[p] = "stamped"
        /\ IF cancels
           THEN /\ receipt' = Receipt("cancelled", receipt.owner, NoLease)
                /\ execution' = "cancelled"
           ELSE UNCHANGED journal
        /\ ack' = [ack EXCEPT ![p] = IF o = "ok" /\ (cancels \/ already)
                                     THEN "finishing" ELSE "idle"]
        /\ ackAt' = [ackAt EXCEPT ![p] = 0]
        /\ Mark(p, o = "ok", status[p])
        /\ UNCHANGED <<clock, cursorFile, dispatches, mode, instance, cursor,
                       admitting, dispatching>>

\* finish_one_time_acknowledgement
AckFinish(p, written) ==
    /\ ack[p] = "finishing"
    /\ ack' = [ack EXCEPT ![p] = "idle"]
    /\ Mark(p, TRUE, "consumed")
    /\ AdvanceCursor(p, written)
    /\ UNCHANGED <<clock, journal, dispatches, mode, instance,
                   admitting, dispatching, ackAt>>

\* Clearing history spares the execution of a receipt that is not terminal.
ClearHistory ==
    /\ execution # NoExecution
    /\ ~Nonterminal(receipt)
    /\ execution' = NoExecution
    /\ UNCHANGED <<clock, receipt, cursorFile, dispatches, mode, instance, flags,
                   admitting, dispatching, acking>>

Tick ==
    /\ clock < MaxClock
    /\ clock' = clock + 1
    /\ UNCHANGED <<journal, cursorFile, dispatches, mode, instance, flags, admitting,
                   dispatching, acking>>

Admit(p) ==
    \/ Fire(p)
    \/ Suppress(p)
    \/ \E history \in BOOLEAN : Unavailable(p, history)
    \/ \E written \in BOOLEAN : Refuse(p, written)
    \/ Propose(p)
    \/ \E o \in Outcomes : Reserve(p, o)
    \/ \E written \in BOOLEAN : AdmitExisting(p, written)
    \/ \E found, written \in BOOLEAN, r \in Outcomes : AdmitUnknown(p, found, written, r)
    \/ \E written \in BOOLEAN, r \in Outcomes : AdmitReserved(p, written, r)

Run(p) ==
    \/ \E o \in Outcomes : Renew(p, o)
    \/ \E o, r \in Outcomes : LoseLeaseWaiting(p, o, r)
    \/ \E o \in Outcomes : LoseLeaseDispatching(p, o)
    \/ \E o, r \in Outcomes : Begin(p, o, r)
    \/ Dispatch(p)
    \/ \E r \in Outcomes : DispatchSkipped(p, r)
    \/ \E result \in {"completed", "failed"} : DispatchReturns(p, result)
    \/ \E o \in Outcomes : RecordOutcome(p, o)

Halt(p) ==
    \/ \E inFlight \in BOOLEAN : StopLoops(p, inFlight)
    \/ \E r \in Outcomes : StopAdmissions(p, r)
    \/ \E inFlight \in BOOLEAN : StopTasks(p, inFlight)
    \/ \E o, r \in Outcomes : StopCancels(p, o, r)
    \/ Exit(p)

Serve(p) ==
    \/ \E readable, written \in BOOLEAN : Start(p, readable, written)
    \/ \E o \in Outcomes : Refresh(p, o)
    \/ AckCheck(p)
    \/ AckStamp(p)
    \/ \E o \in Outcomes : AckCommit(p, o)
    \/ \E written \in BOOLEAN : AckFinish(p, written)

Next ==
    \/ \E p \in Processes : Admit(p) \/ Run(p) \/ Halt(p) \/ Serve(p)
    \/ ClearHistory
    \/ Tick

Spec == Init /\ [][Next]_vars

\* The clock runs, a service is started again, and an operator keeps asking;
\* the journal does not fail every acknowledgement.
FairSpec ==
    /\ Spec
    /\ WF_vars(Tick)
    /\ \A p \in Processes :
          /\ WF_vars(\E readable, written \in BOOLEAN : Start(p, readable, written))
          /\ WF_vars(AckCheck(p))
          /\ WF_vars(AckStamp(p))
          /\ SF_vars(AckCommit(p, "ok"))
          /\ WF_vars(\E written \in BOOLEAN : AckFinish(p, written))

(***************************************************************************)
(* Properties                                                              *)
(***************************************************************************)
\* The workflow of a one-time schedule is entered at most once, across all
\* processes, crashes, restarts and journal errors (WorkflowDispatcher::
\* dispatch is called from run_one_time_dispatch).
AtMostOnce == dispatches <= 1

\* A task that has got as far as the dispatcher owns a receipt that left
\* reserved durably, and the fire is in the schedule file: a restart that
\* finds either one cannot fire again.
DispatchIsRecorded ==
    \A p \in Processes :
        task[p] \in {"entering", "dispatching", "completed", "failed"} =>
            /\ Owns(p)
            /\ receipt.state \in {"running", "cancelled"}
            /\ cursorFile

PairedExecution(row) ==
    CASE row.state = "reserved" -> {"pending"}
      [] row.state = "running" -> {"running"}
      [] OTHER -> {row.state, NoExecution}

\* The receipt and its execution row never disagree, and the execution of an
\* unfinished receipt survives every clearing of the history, so that an
\* acknowledgement finds it.
PairedRows ==
    IF receipt = NoReceipt THEN execution = NoExecution
    ELSE execution \in PairedExecution(receipt)

\* A schedule a process treats as consumed left durable evidence: a receipt
\* or a fired cursor.  Work is never dropped on a claim that was not stored.
ConsumedHasEvidence ==
    \A p \in Processes :
        status[p] = "consumed" => receipt # NoReceipt \/ cursorFile

\* While a process tracks a task of the schedule, it does not admit another
\* trigger of it: the concurrency policies (which would rewrite the task's
\* execution row without its receipt) never see one.
TaskShutsAdmission ==
    \A p \in Processes :
        task[p] # "none" => TriggerBlocked(p) /\ admission[p] \in {"idle", "interrupted"}

\* A receipt keeps its owner, and a recorded outcome is never replaced: an
\* acknowledged occurrence does not turn into a completed one when its old
\* owner comes back, nor the reverse.
OutcomeIsFinal ==
    [][receipt # NoReceipt =>
          /\ receipt' # NoReceipt
          /\ receipt'.owner = receipt.owner
          /\ receipt.state \in Terminal => receipt' = receipt]_vars

\* Nobody but the owner's own task ends an occurrence whose lease is live:
\* an acknowledgement that looked before a heartbeat of another process
\* renewed the lease is refused by the journal.
LiveLeaseRespected ==
    [][(Nonterminal(receipt) /\ receipt.lease > clock /\ receipt'.state \in Terminal) =>
          \E p \in Processes : Owns(p) /\ task[p] \in {"completed", "failed", "aborted"}]_vars

\* A task that lost its lease ends the occurrence neither by its result nor
\* when it is stopped; only an operator does.
LostLeaseWritesNothing ==
    [][\A p \in Processes :
          (Owns(p) /\ ~healthy[p] /\ Nonterminal(receipt) /\ receipt'.state \in Terminal) =>
              \E q \in Processes : ack[q] = "stamped" /\ ack'[q] # "stamped"]_vars

\* Nobody in a running process works on the receipt any more.
Abandoned ==
    /\ Nonterminal(receipt)
    /\ \A p \in Processes :
          Owns(p) /\ mode[p] # "down" => admission[p] = "idle" /\ task[p] = "none"

\* Whatever made an owner give up - a crash, a stop, a journal error, a
\* skipped workflow - the receipt becomes acknowledgeable and is settled.
AbandonedIsSettled ==
    Abandoned ~> (receipt # NoReceipt /\ receipt.state \in Terminal)

(***************************************************************************)
(* The inductive invariant behind AtMostOnce and DispatchIsRecorded        *)
(***************************************************************************)
\* Only an instance that has been started owns the receipt, and a task or a
\* won admission belongs to that instance.
OwnershipInv ==
    /\ receipt # NoReceipt => receipt.owner[2] <= instance[receipt.owner[1]]
    /\ \A p \in Processes :
          /\ mode[p] = "down" => task[p] = "none" /\ admission[p] = "idle"
          /\ mode[p] = "cancelling" => task[p] = "aborted"
          /\ task[p] # "none" => Owns(p)
          /\ admission[p] = "reserving" =>
                held[p] # NoReceipt /\ held[p].state = "reserved" /\ held[p].owner = Owner(p)
          /\ admission[p] = "reserved" => Owns(p)

\* How far the receipt, the tasks and the dispatcher have got together.
ProgressInv ==
    /\ (receipt = NoReceipt \/ receipt.state = "reserved") => dispatches = 0
    /\ (receipt # NoReceipt /\ receipt.state \in {"completed", "failed"}) => dispatches = 1
    /\ \A p \in Processes :
          /\ task[p] = "waiting" => cursorFile
          /\ task[p] = "entering" => dispatches = 0
          /\ task[p] \in {"dispatching", "completed", "failed"} => dispatches = 1

IndInv ==
    /\ TypeOK
    /\ OwnershipInv
    /\ TaskShutsAdmission
    /\ DispatchIsRecorded
    /\ ProgressInv
    /\ AtMostOnce
    /\ PairedRows

\* What a claim of consumption, an acknowledgement and a result rest on: the
\* receipt they have seen is still there, the time of an acknowledgement has
\* passed, and only a task with a healthy lease holds a result.
ClaimInv ==
    /\ ConsumedHasEvidence
    /\ \A p \in Processes :
          /\ admission[p] = "existing" => receipt # NoReceipt
          /\ ack[p] # "idle" => receipt # NoReceipt
          /\ ackAt[p] <= clock
          /\ task[p] \in {"completed", "failed"} => healthy[p]

\* The schedule keeps the promise of DispatchOnce.
Promise == INSTANCE DispatchOnce WITH
    phase <- IF receipt = NoReceipt THEN "unclaimed" ELSE receipt.state,
    permit <- \E p \in Processes : task[p] = "entering",
    dispatches <- dispatches

\* Every step of the processes is a step of the promised protocol, or
\* changes nothing it speaks of.
KeepsPromise == Promise!Spec
=============================================================================
