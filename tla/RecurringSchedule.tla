------------------------- MODULE RecurringSchedule -------------------------
(***************************************************************************)
(* A recurring schedule and the recovery of its missed occurrences         *)
(* (hf-scheduler manager.rs, recovery.rs, trigger.rs and store.rs, and the *)
(* schedule file of hf-service scheduler.rs).                              *)
(*                                                                         *)
(* start plans the occurrences missed while the scheduler was down and     *)
(* writes them as a checkpoint into the schedule before anything runs.  A  *)
(* recovery worker releases them one by one once an operator has armed the *)
(* scheduler, waits for their executions to end and only then clears the   *)
(* checkpoint.  The evaluator fires what falls due meanwhile.  Both go     *)
(* through the same admission, one trigger at a time.  The hourly limit is *)
(* in HourlyAdmission.                                                     *)
(***************************************************************************)
EXTENDS Integers, Sequences, FiniteSets

CONSTANTS
    Interval,      \* the schedule's interval
    MaxTime,       \* where the clock stops
    Slots,         \* execution records memory may hold at once
    Permits,       \* max_concurrent_executions
    QueueCap,      \* capacity of the trigger channel
    Kinds,         \* kinds of failure and of outside event
    Cases          \* the schedule's policies and how many events of each kind happen

ASSUME RecurringAssumption ==
    /\ Interval \in Nat \ {0}
    /\ MaxTime \in Nat
    /\ Permits \in Nat \ {0}
    /\ QueueCap \in Nat \ {0}
    /\ Cases \subseteq [missed : {"skip", "catch_up", "backfill"},
                       conc : {"allow", "queue", "skip_if_running", "cancel_previous"},
                       left : [Kinds -> Nat]]

VARIABLES
    policy,    \* the schedule's missed and concurrency policies
    now,
    mem,       \* the schedule in the manager's store
    disk,      \* the schedule in the schedule file
    fenced,    \* the file is not of the generation the process expects
    run,       \* what the manager is doing
    armed,
    held,      \* the evaluator passes the schedule over
    failed,    \* this run's recovery is blocked
    queue,     \* live triggers waiting in the channel
    worker,    \* run_recovery_batch
    hd,        \* handle_fired_trigger for a live and for a recovered trigger
    ex,        \* execution records in memory and their tasks
    line,      \* who has or awaits the schedule's serial lock, and who comes before
    edit,      \* try_set_enabled in progress
    undone,    \* an edit has been undone in this process
    decided,   \* an operator armed the scheduler since it last ran
    owed,      \* occurrences whose recovery the scheduler has accepted
    recorded,  \* occurrences with a finished recovery execution in SQLite
    cleared,   \* checkpoints removed from the file after their recovery
    left       \* failures and outside events left

lifeVars == <<run, armed, decided>>

recVars == <<held, failed, worker>>

execVars == <<ex, line>>

fileVars == <<disk, fenced>>

editVars == <<edit, undone>>

ghosts == <<owed, recorded, cleared>>

vars == <<policy, now, mem, fileVars, lifeVars, recVars, queue, hd, execVars, editVars, ghosts,
          left>>

Never == -1

Later(a, b) == IF a < b THEN b ELSE a

NoCheckpoint == [first |-> Never, count |-> 0, last |-> Never]

Checkpoint(first, count) ==
    [first |-> first, count |-> count, last |-> first + (count - 1) * Interval]

Covered(cp) == {cp.first + k * Interval : k \in 0..(cp.count - 1)}

Schedule(last, pending, enabled) == [last |-> last, pending |-> pending, enabled |-> enabled]

Blank == [at |-> Never, rec |-> FALSE, guard |-> FALSE, st |-> "none", row |-> FALSE, task |-> "none"]

NoWorker == [pc |-> "none", left |-> 0, at |-> Never, cp |-> NoCheckpoint, to |-> Never]

NoSchedule == Schedule(Never, NoCheckpoint, TRUE)

Idle == [pc |-> "idle", at |-> Never, to |-> Never, snap |-> NoSchedule, slot |-> 0, taken |-> {}]

NoEdit == [pc |-> "idle", prev |-> NoSchedule, snap |-> NoSchedule]

NoLine == [i \in {} |-> {}]

Handlers == {"live", "rec"}

Spend(k) == left[k] > 0 /\ left' = [left EXCEPT ![k] = @ - 1]

Init ==
    /\ \E c \in Cases : policy = [missed |-> c.missed, conc |-> c.conc] /\ left = c.left
    /\ now = 0
    /\ mem \in {Schedule(last, NoCheckpoint, TRUE) : last \in {Never, 0}}
    /\ disk = mem
    /\ fenced = FALSE
    /\ run = "off"
    /\ armed = FALSE
    /\ decided = FALSE
    /\ held = FALSE
    /\ failed = FALSE
    /\ queue = <<>>
    /\ worker = NoWorker
    /\ hd = [h \in Handlers |-> Idle]
    /\ ex = [i \in Slots |-> Blank]
    /\ line = NoLine
    /\ edit = NoEdit
    /\ undone = FALSE
    /\ owed = {}
    /\ recorded = {}
    /\ cleared = {}

----------------------------------------------------------------------------
(* The schedule file. *)

\* Mutant: a stale schedule is stored whatever its checkpoint.
UpsertStale(d, s, whole) ==
    [ok |-> TRUE,
     to |-> Schedule(Later(d.last, s.last),
                     IF d.pending # NoCheckpoint THEN d.pending ELSE s.pending,
                     IF whole THEN s.enabled ELSE d.enabled)]

\* What upsert_recovery makes of the stored schedule d when s is handed in;
\* whole says that the definition is written too, not the cursor alone.
Upsert(d, s, whole) ==
    LET conflict ==
            IF d.pending # NoCheckpoint
            THEN s.pending \notin {NoCheckpoint, d.pending}
            ELSE s.pending # NoCheckpoint /\ d.last >= s.pending.last
    IN  [ok |-> ~conflict,
         to |-> Schedule(Later(d.last, s.last),
                         IF d.pending # NoCheckpoint THEN d.pending ELSE s.pending,
                         IF whole THEN s.enabled ELSE d.enabled)]

\* Mutant: the cursor handed in replaces the stored one.
CompletedBack(d, cp, to) ==
    [ok |-> d.pending = cp, to |-> Schedule(to, NoCheckpoint, d.enabled)]

\* What it makes of d when the recovery of cp is complete.
Completed(d, cp, to) ==
    [ok |-> d.pending = cp, to |-> Schedule(Later(d.last, to), NoCheckpoint, d.enabled)]

\* A write of the file as its caller sees it: refused, made, or failed.  The file
\* may have been replaced all the same; it then has a generation the process does
\* not expect, and every later write is refused.
Persist(u, ok) ==
    \/ ok /\ u.ok /\ ~fenced /\ disk' = u.to /\ UNCHANGED <<fenced, left>>
    \/ ~ok /\ ~(u.ok /\ ~fenced) /\ UNCHANGED <<fileVars, left>>
    \/ ~ok /\ u.ok /\ ~fenced /\ Spend("write")
         /\ \/ UNCHANGED fileVars
            \/ disk' = u.to /\ fenced' = TRUE

\* A write of an execution row, and whether the row changed.
RowWrite(ok, written) ==
    \/ ok /\ written /\ UNCHANGED left
    \/ ~ok /\ Spend("write")

----------------------------------------------------------------------------
(* Starting. *)

MissedCount(s) ==
    IF s.last = Never THEN 0 ELSE (now - s.last) \div Interval

\* The checkpoint recover_missed plans.
Planned(s) ==
    IF s.pending # NoCheckpoint THEN s.pending
    ELSE IF ~s.enabled THEN NoCheckpoint
    ELSE IF s.last = Never THEN Checkpoint(now, 1)
    ELSE IF MissedCount(s) = 0 \/ policy.missed = "skip" THEN NoCheckpoint
    ELSE IF policy.missed = "catch_up" THEN Checkpoint(now, 1)
    ELSE Checkpoint(s.last + Interval, MissedCount(s))

\* The cursor it leaves: only skipped occurrences are passed at once.
Advanced(s) ==
    IF s.enabled /\ s.pending = NoCheckpoint /\ policy.missed = "skip"
    THEN s.last + MissedCount(s) * Interval
    ELSE s.last

\* Edits are made through the scheduler that starts the manager, once.
StartPlan ==
    /\ run = "off"
    /\ edit.pc = "idle"
    /\ run' = "starting"
    /\ mem' = Schedule(Advanced(mem), Planned(mem), mem.enabled)
    /\ UNCHANGED <<policy, now, fileVars, armed, decided, recVars, queue, hd, execVars, editVars, owed,
                   recorded, cleared, left>>

\* A checkpoint that cannot be written keeps the scheduler from starting.
StartPersist ==
    /\ run = "starting"
    /\ \E ok \in BOOLEAN :
          /\ Persist(Upsert(disk, mem, FALSE), ok)
          /\ IF mem.pending # NoCheckpoint /\ ~ok
             THEN run' = "off" /\ queue' = <<>> /\ UNCHANGED <<recVars, owed>>
             ELSE /\ run' = "on"
                  /\ held' = (mem.pending # NoCheckpoint)
                  /\ failed' = FALSE
                  /\ worker' = IF mem.pending = NoCheckpoint THEN NoWorker
                               ELSE [pc |-> "gate", left |-> mem.pending.count,
                                     at |-> mem.pending.first, cp |-> mem.pending, to |-> Never]
                  /\ owed' = owed \cup Covered(mem.pending)
                  /\ UNCHANGED queue
    /\ UNCHANGED <<policy, now, mem, armed, decided, hd, execVars, editVars, recorded, cleared>>

----------------------------------------------------------------------------
(* Triggers. *)

Due(s) ==
    LET from == Later(s.last, s.pending.last)
    IN  s.enabled /\ (from = Never \/ from + Interval <= now)

Evaluate ==
    /\ run = "on"
    /\ ~held
    /\ Due(mem)
    /\ Len(queue) < QueueCap
    /\ queue' = Append(queue, now)
    /\ UNCHANGED <<policy, now, mem, fileVars, lifeVars, recVars, hd, execVars, editVars, ghosts, left>>

Explicit ==
    /\ run \in {"starting", "on"}
    /\ Spend("explicit")
    /\ Len(queue) < QueueCap
    /\ queue' = Append(queue, now)
    /\ UNCHANGED <<policy, now, mem, fileVars, lifeVars, recVars, hd, execVars, editVars, ghosts>>

\* The executor loop takes a trigger from the channel.
Receive ==
    /\ run \in {"on", "stopping"}
    /\ queue # <<>>
    /\ hd["live"].pc = "idle"
    /\ hd' = [hd EXCEPT !["live"] = [Idle EXCEPT !.pc = "wait", !.at = Head(queue)]]
    /\ queue' = Tail(queue)
    /\ UNCHANGED <<policy, now, mem, fileVars, lifeVars, recVars, execVars, editVars, ghosts, left>>

----------------------------------------------------------------------------
(* Admission of one trigger, under the schedule's admission lock. *)

Locked == \E h \in Handlers : hd[h].pc \notin {"idle", "wait"}

Active(i) == ex[i].task # "none"

\* The serial lock is given in the order of asking.
Joined(i) == [j \in DOMAIN line \cup {i} |-> IF j = i THEN DOMAIN line ELSE line[j]]

Without(S) == [j \in DOMAIN line \ S |-> line[j] \ S]

Unfinished(i) == ex[i].st \in {"pending", "running"}

\* Mutant: backfilled triggers follow the configured policy.
ConcurrencyConfigured(h) == policy.conc

ConcurrencyOf(h) ==
    IF h = "rec" /\ policy.missed = "backfill" THEN "queue" ELSE policy.conc

\* Mutant: recovered triggers write through the plain persistence.
FailNever(h, ok) == failed' = failed

\* A failed write of the recovery's own persistence blocks the recovery.
FailIf(h, ok) == failed' = (failed \/ (h = "rec" /\ ~ok))

\* recovery_admission_allowed, on the schedule as it is loaded.
Denied(h) == mem.pending # NoCheckpoint /\ failed

Mismatched(h) == h = "rec" /\ mem.pending # worker.cp

Admit(h) ==
    /\ hd[h].pc = "wait"
    /\ ~Locked
    /\ IF Denied(h) \/ Mismatched(h)
       THEN /\ hd' = [hd EXCEPT ![h] = Idle]
            /\ failed' = (failed \/ Mismatched(h))
       ELSE /\ hd' = [hd EXCEPT ![h].pc = "policy", ![h].snap = mem,
                      ![h].to = IF h = "rec" THEN @ ELSE now]
            /\ UNCHANGED failed
    /\ UNCHANGED <<policy, now, mem, fileVars, lifeVars, held, worker, queue, execVars, editVars, ghosts, left>>

Apply(h) ==
    /\ hd[h].pc = "policy"
    /\ LET busy == {i \in Slots : Active(i)}
       IN  CASE ConcurrencyOf(h) = "skip_if_running" /\ busy # {} ->
                  /\ hd' = [hd EXCEPT ![h].pc = "skip"]
                  /\ UNCHANGED <<failed, execVars>>
             [] ConcurrencyOf(h) = "cancel_previous" /\ busy # {} ->
                  /\ hd' = [hd EXCEPT ![h].pc = "cancel", ![h].taken = busy]
                  /\ failed' = (failed \/ \E i \in busy : ex[i].rec)
                  /\ ex' = [i \in Slots |-> IF i \in busy THEN [ex[i] EXCEPT !.task = "none"] ELSE ex[i]]
                  /\ line' = Without(busy)
             [] OTHER ->
                  /\ hd' = [hd EXCEPT ![h].pc = "record"]
                  /\ UNCHANGED <<failed, execVars>>
    /\ UNCHANGED <<policy, now, mem, fileVars, lifeVars, held, worker, queue, editVars, ghosts, left>>

\* An aborted task has ended; its record is cancelled unless it was terminal.
CancelOne(h) ==
    /\ hd[h].pc = "cancel"
    /\ \E i \in hd[h].taken, ok, written \in BOOLEAN :
          /\ RowWrite(ok, written)
          /\ FailIf(h, ok)
          /\ ex' = [ex EXCEPT ![i] = Blank]
          /\ recorded' = IF ex[i].st = "done" /\ ex[i].rec /\ written THEN recorded \cup {ex[i].at} ELSE recorded
          /\ hd' = [hd EXCEPT ![h].taken = @ \ {i},
                              ![h].pc = IF hd[h].taken = {i} THEN "record" ELSE "cancel"]
    /\ UNCHANGED <<policy, now, mem, fileVars, lifeVars, held, worker, queue, line, editVars, owed, cleared>>

\* update_last_fire: a recovered trigger stands for its own occurrence, a live
\* one for the time t it is handled at.
Cursor(h, t) == Later(mem.last, IF h = "rec" THEN hd[h].at ELSE Later(hd[h].at, t))

\* record_policy_skip: the record is terminal at once, then cursor, file, row.
Skip(h) ==
    /\ hd[h].pc = "skip"
    /\ mem' = [mem EXCEPT !.last = Cursor(h, now)]
    /\ hd' = [hd EXCEPT ![h].pc = "skipFile", ![h].snap = mem']
    /\ UNCHANGED <<policy, now, fileVars, lifeVars, recVars, queue, execVars, editVars, ghosts, left>>

SkipFile(h) ==
    /\ hd[h].pc = "skipFile"
    /\ \E ok \in BOOLEAN : Persist(Upsert(disk, hd[h].snap, FALSE), ok) /\ FailIf(h, ok)
    /\ hd' = [hd EXCEPT ![h].pc = "skipRow"]
    /\ UNCHANGED <<policy, now, mem, lifeVars, held, worker, queue, execVars, editVars, ghosts>>

SkipRow(h) ==
    /\ hd[h].pc = "skipRow"
    /\ \E ok, written \in BOOLEAN :
          /\ RowWrite(ok, written)
          /\ FailIf(h, ok)
          /\ recorded' = IF h = "rec" /\ written THEN recorded \cup {hd[h].at} ELSE recorded
    /\ hd' = [hd EXCEPT ![h] = Idle]
    /\ UNCHANGED <<policy, now, mem, fileVars, lifeVars, held, worker, queue, execVars, editVars, owed, cleared>>

\* The execution is reserved in memory before anything is written.
Record(h) ==
    /\ hd[h].pc = "record"
    /\ \E i \in Slots :
          /\ ex[i] = Blank
          /\ \A j \in Slots : ex[j] = Blank => i <= j
          /\ ex' = [ex EXCEPT ![i] = [at |-> hd[h].at, rec |-> h = "rec",
                                      guard |-> hd[h].snap.pending # NoCheckpoint,
                                      st |-> "pending", row |-> FALSE, task |-> "none"]]
          /\ hd' = [hd EXCEPT ![h].pc = "cursor", ![h].slot = i]
    /\ UNCHANGED <<policy, now, mem, fileVars, lifeVars, recVars, queue, line, editVars, ghosts, left>>

MoveCursor(h) ==
    /\ hd[h].pc = "cursor"
    /\ mem' = [mem EXCEPT !.last = Cursor(h, hd[h].to)]
    /\ hd' = [hd EXCEPT ![h].pc = "file", ![h].snap = mem']
    /\ UNCHANGED <<policy, now, fileVars, lifeVars, recVars, queue, execVars, editVars, ghosts, left>>

PersistCursor(h) ==
    /\ hd[h].pc = "file"
    /\ \E ok \in BOOLEAN : Persist(Upsert(disk, hd[h].snap, FALSE), ok) /\ FailIf(h, ok)
    /\ hd' = [hd EXCEPT ![h].pc = "row"]
    /\ UNCHANGED <<policy, now, mem, lifeVars, held, worker, queue, execVars, editVars, ghosts>>

\* The pending row is written; the task is spawned unless the recovery is
\* blocked, and joins the serial lock's queue before it is spawned.
Spawn(h) ==
    /\ hd[h].pc = "row"
    /\ LET i == hd[h].slot
           queued == ConcurrencyOf(h) = "queue"
       IN  \E ok, written \in BOOLEAN :
              /\ RowWrite(ok, written)
              /\ FailIf(h, ok)
              /\ IF ex[i].guard /\ failed'
                 THEN ex' = [ex EXCEPT ![i].row = written] /\ UNCHANGED line
                 ELSE /\ ex' = [ex EXCEPT ![i].row = written,
                                          ![i].task = IF queued THEN "serial" ELSE "permit"]
                      /\ line' = IF queued THEN Joined(i) ELSE line
    /\ hd' = [hd EXCEPT ![h] = Idle]
    /\ UNCHANGED <<policy, now, mem, fileVars, lifeVars, held, worker, queue, editVars, ghosts>>

----------------------------------------------------------------------------
(* The task of one execution. *)

\* Mutant: the serial lock is not given back.
EndedHolding(i, e) ==
    /\ ex' = [ex EXCEPT ![i] = e]
    /\ UNCHANGED line

Ended(i, e) ==
    /\ ex' = [ex EXCEPT ![i] = e]
    /\ line' = Without({i})

TaskSerial(i) ==
    /\ ex[i].task = "serial"
    /\ i \in DOMAIN line /\ line[i] = {}
    /\ ex' = [ex EXCEPT ![i].task = "permit"]
    /\ UNCHANGED <<policy, now, mem, fileVars, lifeVars, recVars, queue, hd, line, editVars, ghosts, left>>

PermitFree == Cardinality({i \in Slots : ex[i].task \in {"begin", "work", "end"}}) < Permits

\* A recovered execution also waits until its schedule is enabled.
TaskPermit(i) ==
    /\ ex[i].task = "permit"
    /\ PermitFree
    /\ ex[i].rec => mem.enabled
    /\ IF ex[i].guard /\ failed
       THEN Ended(i, [ex[i] EXCEPT !.task = "none"])
       ELSE ex' = [ex EXCEPT ![i].st = "running", ![i].task = "begin"] /\ UNCHANGED line
    /\ UNCHANGED <<policy, now, mem, fileVars, lifeVars, recVars, queue, hd, editVars, ghosts, left>>

TaskBegin(i) ==
    /\ ex[i].task = "begin"
    /\ \E ok, written \in BOOLEAN :
          /\ RowWrite(ok, written)
          /\ failed' = (failed \/ (ex[i].rec /\ ~ok))
          /\ IF ex[i].guard /\ failed'
             THEN Ended(i, [ex[i] EXCEPT !.task = "none"])
             ELSE ex' = [ex EXCEPT ![i].task = "work"] /\ UNCHANGED line
    /\ UNCHANGED <<policy, now, mem, fileVars, lifeVars, held, worker, queue, hd, editVars, ghosts>>

\* The workflow returns: completed, failed or skipped are all terminal.
TaskWork(i) ==
    /\ ex[i].task = "work"
    /\ ex' = [ex EXCEPT ![i].st = "done", ![i].task = "end"]
    /\ UNCHANGED <<policy, now, mem, fileVars, lifeVars, recVars, queue, hd, line, editVars, ghosts, left>>

TaskEnd(i) ==
    /\ ex[i].task = "end"
    /\ \E ok, written \in BOOLEAN :
          /\ RowWrite(ok, written)
          /\ failed' = (failed \/ (ex[i].rec /\ ~ok))
          /\ recorded' = IF ex[i].rec /\ written THEN recorded \cup {ex[i].at} ELSE recorded
    /\ Ended(i, Blank)
    /\ UNCHANGED <<policy, now, mem, fileVars, lifeVars, held, worker, queue, hd, editVars, owed, cleared>>

----------------------------------------------------------------------------
(* The recovery worker. *)

\* The next occurrence passes when the scheduler is armed and the schedule
\* enabled; it is then handled like any other trigger.
Gate ==
    /\ worker.pc = "gate"
    /\ armed
    /\ mem.enabled
    /\ worker' = [worker EXCEPT !.pc = "handle"]
    /\ hd' = [hd EXCEPT !["rec"] = [Idle EXCEPT !.pc = "wait", !.at = worker.at]]
    /\ UNCHANGED <<policy, now, mem, fileVars, lifeVars, held, failed, queue, execVars, editVars, ghosts, left>>

\* A blocked recovery ends where it looks at the flag.
GiveUp ==
    /\ failed
    /\ \/ worker.pc = "gate"
       \/ worker.pc = "handle" /\ hd["rec"].pc = "idle"
    /\ worker' = NoWorker
    /\ UNCHANGED <<policy, now, mem, fileVars, lifeVars, held, failed, queue, hd, execVars, editVars, ghosts, left>>

Handled ==
    /\ worker.pc = "handle"
    /\ hd["rec"].pc = "idle"
    /\ ~failed
    /\ worker' = [worker EXCEPT !.pc = IF worker.left = 1 THEN "release" ELSE "gate",
                                !.left = @ - 1, !.at = @ + Interval]
    /\ UNCHANGED <<policy, now, mem, fileVars, lifeVars, held, failed, queue, hd, execVars, editVars, ghosts, left>>

Release ==
    /\ worker.pc = "release"
    /\ held' = FALSE
    /\ worker' = [worker EXCEPT !.pc = "drain"]
    /\ UNCHANGED <<policy, now, mem, fileVars, lifeVars, failed, queue, hd, execVars, editVars, ghosts, left>>

\* The loop that waits for the batch reads the flag, the tasks, and then the
\* records and the flag again.
Drain ==
    /\ worker.pc = "drain"
    /\ IF failed THEN held' = TRUE /\ worker' = NoWorker
       ELSE worker' = [worker EXCEPT !.pc = "active"] /\ UNCHANGED held
    /\ UNCHANGED <<policy, now, mem, fileVars, lifeVars, failed, queue, hd, execVars, editVars, ghosts, left>>

\* Mutant: the worker looks at the records only.
SeeNoTask ==
    /\ worker.pc = "active"
    /\ worker' = [worker EXCEPT !.pc = "rest"]
    /\ UNCHANGED <<policy, now, mem, fileVars, lifeVars, held, failed, queue, hd, execVars, editVars, ghosts, left>>

SeeActive ==
    /\ worker.pc = "active"
    /\ worker' = [worker EXCEPT !.pc = IF \E i \in Slots : ex[i].rec /\ Active(i) THEN "drain" ELSE "rest"]
    /\ UNCHANGED <<policy, now, mem, fileVars, lifeVars, held, failed, queue, hd, execVars, editVars, ghosts, left>>

BatchEnded == ~failed /\ ~\E i \in Slots : ex[i].rec /\ Unfinished(i)

SeeUnfinished ==
    /\ worker.pc = "rest"
    /\ worker' = IF ~BatchEnded THEN [worker EXCEPT !.pc = "drain"]
                 ELSE IF mem.pending = NoCheckpoint THEN NoWorker
                 ELSE [worker EXCEPT !.pc = "clear", !.cp = mem.pending, !.to = Later(mem.last, worker.cp.last)]
    /\ UNCHANGED <<policy, now, mem, fileVars, lifeVars, held, failed, queue, hd, execVars, editVars, ghosts, left>>

Clear ==
    /\ worker.pc = "clear"
    /\ \E ok \in BOOLEAN :
          /\ Persist(Completed(disk, worker.cp, worker.to), ok)
          /\ IF ok THEN worker' = [worker EXCEPT !.pc = "forget"] /\ UNCHANGED <<failed, held>>
             ELSE worker' = NoWorker /\ failed' = TRUE /\ held' = TRUE
    /\ cleared' = IF disk'.pending = NoCheckpoint /\ disk.pending = worker.cp
                  THEN cleared \cup {worker.cp} ELSE cleared
    /\ UNCHANGED <<policy, now, mem, lifeVars, queue, hd, execVars, editVars, owed, recorded>>

Forget ==
    /\ worker.pc = "forget"
    /\ worker' = NoWorker
    /\ IF mem.pending # worker.cp THEN failed' = TRUE /\ UNCHANGED <<mem, held>>
       ELSE /\ mem' = Schedule(Later(mem.last, worker.cp.last), NoCheckpoint, mem.enabled)
            /\ held' = FALSE
            /\ UNCHANGED failed
    /\ UNCHANGED <<policy, now, fileVars, lifeVars, queue, hd, execVars, editVars, ghosts, left>>

----------------------------------------------------------------------------
(* Operators, and the end of a run. *)

Arm ==
    /\ ~armed
    /\ armed' = TRUE
    /\ decided' = TRUE
    /\ UNCHANGED <<policy, now, mem, fileVars, run, recVars, queue, hd, execVars, editVars, ghosts, left>>

Disarm ==
    /\ armed
    /\ Spend("disarm")
    /\ armed' = FALSE
    /\ UNCHANGED <<policy, now, mem, fileVars, run, decided, recVars, queue, hd, execVars, editVars, ghosts>>

\* try_set_enabled: the manager's store, the one definition, then the whole
\* file from the manager's store.
SetEnabled ==
    /\ run = "on"
    /\ edit.pc = "idle"
    /\ Spend("edit")
    /\ mem' = [mem EXCEPT !.enabled = ~@]
    /\ edit' = [pc |-> "define", prev |-> mem, snap |-> mem']
    /\ UNCHANGED <<undone, policy, now, fileVars, lifeVars, recVars, queue, hd, execVars, ghosts>>

DefineEnabled ==
    /\ edit.pc = "define"
    /\ \E ok \in BOOLEAN : Persist(Upsert(disk, edit.snap, TRUE), ok)
    /\ edit' = [edit EXCEPT !.pc = "replace"]
    /\ UNCHANGED <<undone, policy, now, mem, lifeVars, recVars, queue, hd, execVars, ghosts>>

ReplaceFile ==
    /\ edit.pc = "replace"
    /\ \E ok \in BOOLEAN :
          /\ Persist([ok |-> TRUE, to |-> mem], ok)
          /\ edit' = IF ok THEN NoEdit ELSE [edit EXCEPT !.pc = "undo"]
    /\ UNCHANGED <<undone, policy, now, mem, lifeVars, recVars, queue, hd, execVars, ghosts>>

UndoEnabled ==
    /\ edit.pc = "undo"
    /\ mem' = edit.prev
    /\ edit' = NoEdit
    /\ undone' = TRUE
    /\ UNCHANGED <<policy, now, fileVars, lifeVars, recVars, queue, hd, execVars, ghosts, left>>

\* Mutant: stop leaves the scheduler armed.
StopArmed ==
    /\ run = "on"
    /\ Spend("stop")
    /\ run' = "stopping"
    /\ decided' = FALSE
    /\ worker' = NoWorker
    /\ hd' = [hd EXCEPT !["rec"] = Idle]
    /\ UNCHANGED <<policy, now, mem, fileVars, armed, held, failed, queue, execVars, editVars, ghosts>>

StopBegin ==
    /\ run = "on"
    /\ Spend("stop")
    /\ run' = "stopping"
    /\ armed' = FALSE
    /\ decided' = FALSE
    /\ worker' = NoWorker
    /\ hd' = [hd EXCEPT !["rec"] = Idle]
    /\ UNCHANGED <<policy, now, mem, fileVars, held, failed, queue, execVars, editVars, ghosts>>

\* Tracked tasks are aborted and their records cancelled; then every record
\* that is still pending is.
StopEnd ==
    /\ run = "stopping"
    /\ run' = "off"
    /\ queue' = <<>>
    /\ hd' = [hd EXCEPT !["live"] = Idle]
    /\ ex' = [i \in Slots |-> IF Active(i) \/ ex[i].st # "running" THEN Blank ELSE ex[i]]
    /\ line' = NoLine
    /\ UNCHANGED <<policy, now, mem, fileVars, armed, decided, recVars, editVars, ghosts, left>>

\* A new manager reads the schedule file.
Fresh ==
    /\ mem' = disk
    /\ run' = "off"
    /\ armed' = FALSE
    /\ decided' = FALSE
    /\ held' = FALSE
    /\ failed' = FALSE
    /\ queue' = <<>>
    /\ worker' = NoWorker
    /\ hd' = [h \in Handlers |-> Idle]
    /\ ex' = [i \in Slots |-> Blank]
    /\ line' = NoLine
    /\ edit' = NoEdit
    /\ undone' = FALSE
    /\ fenced' = FALSE
    /\ UNCHANGED <<policy, now, disk, ghosts>>

Die == Spend("crash") /\ Fresh

Reload == run = "off" /\ Fresh /\ UNCHANGED left

Clock ==
    /\ now < MaxTime
    /\ Spend("tick")
    /\ now' = now + 1
    /\ UNCHANGED <<policy, mem, fileVars, lifeVars, recVars, queue, hd, execVars, editVars, ghosts>>

Handler(h) ==
    \/ Admit(h)
    \/ Apply(h)
    \/ CancelOne(h)
    \/ Skip(h)
    \/ SkipFile(h)
    \/ SkipRow(h)
    \/ Record(h)
    \/ MoveCursor(h)
    \/ PersistCursor(h)
    \/ Spawn(h)

Task(i) == TaskSerial(i) \/ TaskPermit(i) \/ TaskBegin(i) \/ TaskWork(i) \/ TaskEnd(i)

Worker ==
    Gate \/ GiveUp \/ Handled \/ Release \/ Drain \/ SeeActive \/ SeeUnfinished \/ Clear \/ Forget

Next ==
    \/ StartPlan \/ StartPersist
    \/ Evaluate \/ Explicit \/ Receive
    \/ \E h \in Handlers : Handler(h)
    \/ \E i \in Slots : Task(i)
    \/ Worker
    \/ Arm \/ Disarm
    \/ SetEnabled \/ DefineEnabled \/ ReplaceFile \/ UndoEnabled
    \/ StopBegin \/ StopEnd \/ Die \/ Reload
    \/ Clock

Spec == Init /\ [][Next]_vars

----------------------------------------------------------------------------
(* Properties. *)

\* Schedules, records and program counters have their types.
TypeOK ==
    LET times == Never..MaxTime
        checkpoints == [first : times, count : 0..(MaxTime + 1), last : times]
        schedules == [last : times, pending : checkpoints, enabled : BOOLEAN]
    IN  /\ mem \in schedules /\ disk \in schedules
        /\ now \in 0..MaxTime
        /\ run \in {"off", "starting", "on", "stopping"}
        /\ worker.left \in 0..(MaxTime + 1)
        /\ \A i \in Slots : ex[i].st \in {"none", "pending", "running", "done"}
        /\ DOMAIN line \subseteq Slots
        /\ \A k \in Kinds : left[k] \in Nat

\* An occurrence whose recovery was accepted stays in the schedule file's
\* checkpoint until SQLite holds a finished, not cancelled, execution of it:
\* whatever dies, fails or is cancelled, no recovered work is forgotten.
OwedIsKept == \A t \in owed : t \in Covered(disk.pending) \/ t \in recorded

\* The checkpoint of a finished recovery does not come back to the file, where
\* the next start would run the whole batch again.
ClearedStaysCleared ==
    disk.pending \notin cleared /\ disk'.pending \in cleared' => edit.pc # "idle"

\* A recovered execution starts only when its pending record is in SQLite.
RecoveredHasRow == \A i \in Slots : ex[i].rec /\ ex[i].st = "running" => ex[i].row

\* Restored work runs only after an operator has armed the scheduler since the
\* manager was last told to stop.
RestoredWaitsForOperator ==
    run = "on" /\ ((\E i \in Slots : ex[i].rec /\ Active(i)) \/ hd["rec"].pc # "idle") => decided

\* Backfilled executions run one at a time and in the order of their
\* occurrences.
BackfillInOrder ==
    policy.missed = "backfill" =>
        \A i, j \in Slots :
            /\ ex[i].rec /\ ex[i].task \in {"begin", "work", "end"}
            /\ i # j /\ ex[j].rec /\ Active(j)
            => ex[i].at < ex[j].at /\ ex[j].task \in {"serial", "permit"}

\* The cursor in the schedule file moves back only with an operator's edit, after
\* the undo of one that failed has put an old schedule back into memory.
CursorMonotone == disk'.last >= disk.last \/ (undone /\ edit.pc = "replace")

\* The recovery is over: the batch has ended, or an operator disarmed or
\* disabled it.
RecoveryOver == worker.pc = "none" \/ ~armed \/ ~mem.enabled

\* Recovered work is not forgotten, not started without a record or an operator,
\* and runs in order.
RecoveryHolds ==
    TypeOK /\ OwedIsKept /\ RecoveredHasRow /\ RestoredWaitsForOperator /\ BackfillInOrder

\* The schedule file only moves on: its cursor goes back only with an edit after
\* a failed one, and a finished checkpoint returns only with an operator's edit.
FileAdvances == [][CursorMonotone /\ ClearedStaysCleared]_vars
=============================================================================
