-------------------------- MODULE RecurringScheduleProofs --------------------------
(***************************************************************************)
(* For any interval, clock, number of records, permits and budgets of      *)
(* failures: recovered work is not forgotten, not started without its row  *)
(* or an operator, and backfilled in order; and the schedule file moves    *)
(* on.                                                                     *)
(*                                                                         *)
(* One lemma per part of the inductive invariant, with one step per action *)
(* that the part depends on; the actions that leave its variables alone    *)
(* are taken together.                                                     *)
(***************************************************************************)
EXTENDS RecurringSchedule, TLAPS

----------------------------------------------------------------------------
(* The inductive invariant. *)

WorkerPCs == {"none", "gate", "handle", "release", "drain", "active", "rest", "clear", "forget"}

HandlerPCs ==
    {"idle", "wait", "policy", "cancel", "skip", "skipFile", "skipRow", "record", "cursor",
     "file", "row"}

Tasks == {"none", "serial", "permit", "begin", "work", "end"}

Checkpoints == [first : Int, count : Int, last : Int]

Schedules == [last : Int, pending : Checkpoints, enabled : BOOLEAN]

Executions ==
    [at : Int, rec : BOOLEAN, guard : BOOLEAN, st : {"none", "pending", "running", "done"},
     row : BOOLEAN, task : Tasks]

HandlerStates ==
    [pc : HandlerPCs, at : Int, to : Int, snap : Schedules, slot : Slots \cup {0},
     taken : SUBSET Slots]

\* The variables have their shapes.
Shape ==
    /\ policy \in [missed : {"skip", "catch_up", "backfill"},
                   conc : {"allow", "queue", "skip_if_running", "cancel_previous"}]
    /\ now \in 0..MaxTime
    /\ mem \in Schedules /\ disk \in Schedules /\ fenced \in BOOLEAN
    /\ run \in {"off", "starting", "on", "stopping"}
    /\ armed \in BOOLEAN /\ decided \in BOOLEAN
    /\ held \in BOOLEAN /\ failed \in BOOLEAN
    /\ worker \in [pc : WorkerPCs, left : Int, at : Int, cp : Checkpoints, to : Int]
    /\ queue \in Seq(Int)
    /\ hd \in [Handlers -> HandlerStates]
    /\ ex \in [Slots -> Executions]
    /\ line \in [DOMAIN line -> SUBSET DOMAIN line] /\ DOMAIN line \subseteq Slots
    /\ edit \in [pc : {"idle", "define", "replace", "undo"}, prev : Schedules, snap : Schedules]
    /\ undone \in BOOLEAN
    /\ cleared \subseteq Checkpoints
    /\ left \in [Kinds -> Nat]

\* A checkpoint holds occurrences up to time t.
DatedCheckpoint(cp, t) ==
    \/ cp = NoCheckpoint
    \/ /\ cp.first >= 0 /\ cp.count >= 1 /\ cp.count <= t + 1
       /\ cp.last = cp.first + (cp.count - 1) * Interval /\ cp.first <= cp.last /\ cp.last <= t

DatedSchedule(s, t) == Never <= s.last /\ s.last <= t /\ DatedCheckpoint(s.pending, t)

\* Nothing is of the future.
Dated ==
    /\ DatedSchedule(mem, now) /\ DatedSchedule(disk, now)
    /\ \A k \in 1..Len(queue) : queue[k] <= now
    /\ \A h \in Handlers : hd[h].at <= now /\ hd[h].to <= now /\ DatedSchedule(hd[h].snap, now)
    /\ DatedSchedule(edit.prev, now) /\ DatedSchedule(edit.snap, now)
    /\ DatedCheckpoint(worker.cp, now) /\ worker.to <= now

\* A run and what works in it: an operator armed what is armed, and only a manager that
\* is on recovers anything.
LifeRests ==
    /\ armed => decided
    /\ run # "on" => worker.pc = "none"
    /\ hd["rec"].pc # "idle" => worker.pc = "handle" /\ hd["rec"].at = worker.at
    /\ run \in {"off", "starting"} => hd["live"].pc = "idle" /\ \A i \in Slots : ~Active(i)
    /\ run = "starting" => edit.pc = "idle"
    /\ RestoredWaitsForOperator

\* The worker goes through the occurrences of the checkpoint in memory, which an edit in
\* progress keeps as well.
WorkerRests ==
    worker.pc # "none" =>
        /\ worker.cp # NoCheckpoint
        /\ mem.pending = worker.cp
        /\ edit.pc # "idle" => edit.prev.pending = worker.cp
        /\ worker.at = worker.cp.first + (worker.cp.count - worker.left) * Interval
        /\ 0 <= worker.left /\ worker.left <= worker.cp.count
        /\ worker.pc \in {"gate", "handle"} <=> worker.left # 0

\* Without a worker nothing is left of one.
NoneRests == worker.pc = "none" => worker = NoWorker

\* Admission is one at a time.
LockRests == hd["live"].pc \in {"idle", "wait"} \/ hd["rec"].pc \in {"idle", "wait"}

\* A record that is being admitted has no task yet.
SlotRests ==
    \A h \in Handlers :
        hd[h].pc \in {"cursor", "file", "row"} =>
            /\ hd[h].slot \in Slots
            /\ LET e == ex[hd[h].slot]
               IN  /\ e.at = hd[h].at /\ e.rec = (h = "rec") /\ e.st = "pending"
                   /\ e.task = "none"
                   /\ h = "rec" => e.guard

\* A recovered trigger is admitted from a schedule with a checkpoint.
GuardRests ==
    hd["rec"].pc \in {"policy", "cancel", "skip", "record"} => hd["rec"].snap.pending # NoCheckpoint

\* A cancelled task is gone; cancelling a recovered one blocks the recovery.
CancelRests ==
    \A h \in Handlers :
        hd[h].pc = "cancel" =>
            \A i \in hd[h].taken : ex[i].task = "none" /\ (ex[i].rec => failed)

\* A recovered execution has its row before it has a task.
RowRests == \A i \in Slots : ex[i].rec /\ (Active(i) \/ ex[i].st = "running") => ex[i].row

\* The serial lock's queue is a queue of tasks; its head has no one before it.
LineRests ==
    /\ \A i \in DOMAIN line : Active(i) /\ (ex[i].task # "serial" => line[i] = {})
    /\ \A i, j \in DOMAIN line : i # j => i \in line[j] \/ j \in line[i]

\* Backfilled executions are queued in the order of their occurrences.
OrderRests ==
    policy.missed = "backfill" =>
        /\ \A i \in Slots : ex[i].rec /\ Active(i) => i \in DOMAIN line
        /\ \A i, j \in DOMAIN line : ex[i].rec /\ ex[j].rec /\ i \in line[j] => ex[i].at < ex[j].at

\* What runs was released before what comes next.
AtRests ==
    worker.pc # "none" =>
        \A i \in Slots : ex[i].rec /\ Active(i) =>
            \/ ex[i].at < worker.at
            \/ ex[i].at = worker.at /\ worker.pc = "handle" /\ hd["rec"].pc = "idle"

\* Occurrence k of the worker's checkpoint has been handled.
Released(k) ==
    \/ k < worker.cp.count - worker.left
    \/ k = worker.cp.count - worker.left /\ worker.pc = "handle" /\ hd["rec"].pc = "idle"

Carried(t) == \E i \in Slots : ex[i].rec /\ ex[i].at = t /\ (Active(i) \/ Unfinished(i))

\* Unless the recovery is blocked, what was handled is recorded or still at work.
HandledRests ==
    worker.pc # "none" /\ ~failed =>
        \A k \in 0..(worker.cp.count - 1) :
            Released(k) => \/ worker.cp.first + k * Interval \in recorded
                           \/ Carried(worker.cp.first + k * Interval)

\* A worker that saw no recovered task looks at the records of no recovered task.
QuietRests == worker.pc = "rest" => \A i \in Slots : ex[i].rec => ~Active(i)

\* A checkpoint is cleared only when all it covers is recorded.
DoneRests == worker.pc \in {"clear", "forget"} => Covered(worker.cp) \subseteq recorded

\* What is owed is in every copy of the schedule that may reach the file.
KeepRests ==
    /\ owed \subseteq Covered(disk.pending) \cup recorded
    /\ owed \subseteq Covered(mem.pending) \cup recorded
    /\ edit.pc # "idle" => owed \subseteq Covered(edit.prev.pending) \cup recorded

PassedIn(s, cp) == s.pending = cp \/ s.last >= cp.last

\* A copy of the schedule without a cleared checkpoint is past it.
ClearedRests ==
    /\ NoCheckpoint \notin cleared
    /\ \A cp \in cleared : /\ PassedIn(disk, cp) /\ PassedIn(mem, cp)
                           /\ edit.pc # "idle" => PassedIn(edit.prev, cp)
    /\ worker.pc = "clear" => worker.to >= worker.cp.last

\* Until an edit is undone, memory is ahead of the file and of all that is written to it.
CopyRests ==
    ~undone =>
        /\ disk.last <= mem.last
        /\ \A h \in Handlers : hd[h].pc \in {"file", "skipFile"} => hd[h].snap.last <= mem.last
        /\ edit.pc = "define" => edit.snap.last <= mem.last
        /\ worker.pc = "clear" => worker.to <= mem.last

\* And it is past what the recovery has handled.
PastRests ==
    ~undone =>
        /\ hd["rec"].pc \in {"file", "row", "skipFile", "skipRow"} => hd["rec"].at <= mem.last
        /\ worker.pc # "none" /\ ~failed =>
              \A k \in 0..(worker.cp.count - 1) :
                  Released(k) => worker.cp.first + k * Interval <= mem.last

IndInv ==
    /\ Shape /\ Dated /\ LifeRests /\ NoneRests /\ WorkerRests /\ LockRests /\ SlotRests
    /\ GuardRests /\ CancelRests /\ RowRests /\ LineRests /\ OrderRests /\ AtRests
    /\ HandledRests /\ QuietRests /\ DoneRests /\ KeepRests /\ ClearedRests /\ CopyRests
    /\ PastRests

----------------------------------------------------------------------------
(* What the operators compute. *)

\* The later of two times is one of them, and neither is later.
LEMMA LaterFacts ==
  ASSUME NEW a \in Int, NEW b \in Int
  PROVE  /\ Later(a, b) \in Int /\ a <= Later(a, b) /\ b <= Later(a, b)
         /\ Later(a, b) \in {a, b}
BY DEF Later

\* The values of a process that has just begun have their shapes.
LEMMA FreshFacts ==
  /\ NoCheckpoint \in Checkpoints /\ NoCheckpoint.count = 0
  /\ NoCheckpoint.first = -1 /\ NoCheckpoint.last = -1
  /\ Blank \in Executions /\ Blank.task = "none" /\ Blank.rec = FALSE /\ Blank.st = "none"
  /\ NoWorker \in [pc : WorkerPCs, left : Int, at : Int, cp : Checkpoints, to : Int]
  /\ NoWorker.pc = "none" /\ NoWorker.cp = NoCheckpoint /\ NoWorker.to = -1
  /\ NoSchedule \in Schedules /\ NoSchedule.last = -1 /\ NoSchedule.pending = NoCheckpoint
  /\ Idle \in HandlerStates
  /\ Idle.pc = "idle" /\ Idle.at = -1 /\ Idle.to = -1 /\ Idle.snap = NoSchedule
  /\ NoEdit \in [pc : {"idle", "define", "replace", "undo"}, prev : Schedules, snap : Schedules]
  /\ NoEdit.pc = "idle" /\ NoEdit.prev = NoSchedule /\ NoEdit.snap = NoSchedule
<1>1. NoCheckpoint = [first |-> -1, count |-> 0, last |-> -1] /\ NoCheckpoint \in Checkpoints
  BY DEF NoCheckpoint, Checkpoints, Never
<1>2. NoSchedule \in Schedules /\ NoSchedule.last = -1 /\ NoSchedule.pending = NoCheckpoint
  BY <1>1 DEF NoSchedule, Schedule, Schedules, Never
<1>3. Blank \in Executions /\ Blank.task = "none" /\ Blank.rec = FALSE /\ Blank.st = "none"
  BY DEF Blank, Executions, Tasks, Never
<1>4. /\ NoWorker \in [pc : WorkerPCs, left : Int, at : Int, cp : Checkpoints, to : Int]
      /\ NoWorker.pc = "none" /\ NoWorker.cp = NoCheckpoint /\ NoWorker.to = -1
  BY <1>1 DEF NoWorker, WorkerPCs, Never
<1>5. /\ Idle \in HandlerStates
      /\ Idle.pc = "idle" /\ Idle.at = -1 /\ Idle.to = -1 /\ Idle.snap = NoSchedule
  BY <1>2 DEF Idle, HandlerStates, HandlerPCs, Never
<1>6. /\ NoEdit \in [pc : {"idle", "define", "replace", "undo"}, prev : Schedules, snap : Schedules]
      /\ NoEdit.pc = "idle" /\ NoEdit.prev = NoSchedule /\ NoEdit.snap = NoSchedule
  BY <1>2 DEF NoEdit
<1> QED
  BY <1>1, <1>2, <1>3, <1>4, <1>5, <1>6

\* A schedule put together has its parts.
LEMMA ScheduleFacts ==
  ASSUME NEW l \in Int, NEW p \in Checkpoints, NEW e \in BOOLEAN
  PROVE  /\ Schedule(l, p, e) \in Schedules
         /\ Schedule(l, p, e).last = l /\ Schedule(l, p, e).pending = p
         /\ Schedule(l, p, e).enabled = e
BY DEF Schedule, Schedules

\* An event that happens comes out of what is left of its kind.
LEMMA SpendType ==
  ASSUME left \in [Kinds -> Nat], NEW k, Spend(k)
  PROVE  left' \in [Kinds -> Nat]
<1>1. CASE k \in Kinds
  BY <1>1 DEF Spend
<1>2. CASE k \notin Kinds
  <2>1. left' = left
    BY <1>2 DEF Spend
  <2> QED
    BY <2>1
<1> QED
  BY <1>1, <1>2

\* A row that is written is in the database.
LEMMA RowFacts ==
  ASSUME left \in [Kinds -> Nat], NEW ok \in BOOLEAN, NEW written \in BOOLEAN,
         RowWrite(ok, written)
  PROVE  left' \in [Kinds -> Nat] /\ (ok => written)
BY SpendType DEF RowWrite

\* A write leaves the file or makes it what was asked for, and says so if it succeeds.
LEMMA PersistFacts ==
  ASSUME Shape, NEW u, NEW ok \in BOOLEAN, Persist(u, ok)
  PROVE  /\ disk' = disk \/ (u.ok /\ disk' = u.to)
         /\ ok => u.ok /\ disk' = u.to
         /\ fenced' \in BOOLEAN
         /\ left' \in [Kinds -> Nat]
<1>1. left \in [Kinds -> Nat] /\ fenced \in BOOLEAN
  BY DEF Shape
<1>2. CASE ok /\ u.ok /\ ~fenced /\ disk' = u.to /\ UNCHANGED <<fenced, left>>
  BY <1>1, <1>2
<1>3. CASE ~ok /\ ~(u.ok /\ ~fenced) /\ UNCHANGED <<fileVars, left>>
  BY <1>1, <1>3 DEF fileVars
<1>4. CASE /\ ~ok /\ u.ok /\ ~fenced /\ Spend("write")
           /\ UNCHANGED fileVars \/ (disk' = u.to /\ fenced' = TRUE)
  BY <1>1, <1>4, SpendType DEF fileVars
<1> QED
  BY <1>2, <1>3, <1>4 DEF Persist

\* A write of a schedule never takes the cursor back, keeps a checkpoint that is in the
\* file, and accepts none that the cursor has passed.
LEMMA UpsertFacts ==
  ASSUME NEW d \in Schedules, NEW s \in Schedules, NEW whole \in BOOLEAN
  PROVE  LET u == Upsert(d, s, whole) IN
         /\ u.to \in Schedules
         /\ u.to.last = Later(d.last, s.last)
         /\ d.pending # NoCheckpoint => u.to.pending = d.pending
         /\ d.pending = NoCheckpoint => u.to.pending = s.pending
         /\ u.ok /\ d.pending # NoCheckpoint => s.pending \in {NoCheckpoint, d.pending}
         /\ u.ok /\ d.pending = NoCheckpoint /\ s.pending # NoCheckpoint =>
               d.last < s.pending.last
<1>1. /\ d.last \in Int /\ s.last \in Int /\ d.pending \in Checkpoints /\ s.pending \in Checkpoints
      /\ d.enabled \in BOOLEAN /\ s.enabled \in BOOLEAN /\ s.pending.last \in Int
  BY DEF Schedules, Checkpoints
<1>2. Later(d.last, s.last) \in Int
  BY <1>1, LaterFacts
<1> DEFINE p == IF d.pending # NoCheckpoint THEN d.pending ELSE s.pending
           e == IF whole THEN s.enabled ELSE d.enabled
           u == Upsert(d, s, whole)
<1>3. p \in Checkpoints /\ e \in BOOLEAN
  BY <1>1
<1>4. u.to = Schedule(Later(d.last, s.last), p, e)
  BY DEF Upsert
<1>5. /\ u.to \in Schedules /\ u.to.last = Later(d.last, s.last) /\ u.to.pending = p
  BY <1>2, <1>3, <1>4, ScheduleFacts
<1>6. u.ok <=> ~(IF d.pending # NoCheckpoint
               THEN s.pending \notin {NoCheckpoint, d.pending}
               ELSE s.pending # NoCheckpoint /\ d.last >= s.pending.last)
  BY DEF Upsert
<1>7. /\ u.ok /\ d.pending # NoCheckpoint => s.pending \in {NoCheckpoint, d.pending}
      /\ u.ok /\ d.pending = NoCheckpoint /\ s.pending # NoCheckpoint => d.last < s.pending.last
  <2> HIDE DEF u
  <2>1. CASE d.pending # NoCheckpoint
    BY <1>1, <1>6, <2>1
  <2>2. CASE d.pending = NoCheckpoint
    <3>1. u.ok <=> ~(s.pending # NoCheckpoint /\ d.last >= s.pending.last)
      BY <1>6, <2>2
    <3> QED
      BY <1>1, <2>2, <3>1
  <2> QED
    BY <2>1, <2>2
<1> QED
  BY <1>5, <1>7

\* A recovery that is complete leaves no checkpoint and a cursor past it.
LEMMA CompletedFacts ==
  ASSUME NEW d \in Schedules, NEW cp \in Checkpoints, NEW to \in Int
  PROVE  LET u == Completed(d, cp, to) IN
         /\ u.ok <=> d.pending = cp
         /\ u.to \in Schedules
         /\ u.to.last = Later(d.last, to) /\ u.to.pending = NoCheckpoint
<1>1. d.last \in Int /\ d.enabled \in BOOLEAN /\ Later(d.last, to) \in Int
  BY LaterFacts DEF Schedules
<1>2. /\ Completed(d, cp, to).ok <=> d.pending = cp
      /\ Completed(d, cp, to).to = Schedule(Later(d.last, to), NoCheckpoint, d.enabled)
  BY DEF Completed
<1> QED
  BY <1>1, <1>2, ScheduleFacts, FreshFacts

\* No checkpoint covers nothing.
LEMMA CoveredNone == Covered(NoCheckpoint) = {}
BY DEF Covered, NoCheckpoint

\* One more in the queue has everyone before it.
LEMMA JoinedFacts ==
  ASSUME Shape, NEW i \in Slots
  PROVE  /\ DOMAIN Joined(i) = DOMAIN line \cup {i}
         /\ Joined(i) \in [DOMAIN Joined(i) -> SUBSET DOMAIN Joined(i)]
         /\ Joined(i)[i] = DOMAIN line
         /\ \A j \in DOMAIN line : j # i => Joined(i)[j] = line[j]
<1>1. line \in [DOMAIN line -> SUBSET DOMAIN line] /\ DOMAIN line \subseteq Slots
  BY DEF Shape
<1> QED
  BY <1>1 DEF Joined

\* Those who leave the queue are before no one.
LEMMA WithoutFacts ==
  ASSUME Shape, NEW S
  PROVE  /\ DOMAIN Without(S) = DOMAIN line \ S
         /\ Without(S) \in [DOMAIN Without(S) -> SUBSET DOMAIN Without(S)]
         /\ \A j \in DOMAIN line \ S : Without(S)[j] = line[j] \ S
<1>1. line \in [DOMAIN line -> SUBSET DOMAIN line] /\ DOMAIN line \subseteq Slots
  BY DEF Shape
<1> QED
  BY <1>1 DEF Without

----------------------------------------------------------------------------
(* What each action does, field by field. *)

\* A process begins again.
Restart == Die \/ Reload

\* The other records stay.
OtherRecords(i) == \A j \in Slots : j # i => ex'[j] = ex[j]

\* A record keeps what it was made with.
RecordKept(i) ==
    /\ ex'[i].at = ex[i].at /\ ex'[i].rec = ex[i].rec /\ ex'[i].guard = ex[i].guard
    /\ ex'[i].row = ex[i].row

\* The other handler stays.
OtherHandler(h) == \A g \in Handlers : g # h => hd'[g] = hd[g]

HandlerKept(h) ==
    /\ hd'[h].at = hd[h].at /\ hd'[h].to = hd[h].to /\ hd'[h].slot = hd[h].slot

\* The file was left, or schedule s was put into it.
Stored(s) ==
    /\ disk' \in Schedules
    /\ disk'.last \in {disk.last, Later(disk.last, s.last)}
    /\ disk'.pending \in {disk.pending, s.pending}
    /\ disk'.pending # disk.pending => disk.pending = NoCheckpoint /\ disk.last < s.pending.last

\* A record is replaced.
LEMMA RecordSet ==
  ASSUME Shape, NEW i \in Slots, NEW e \in Executions, ex' = [ex EXCEPT ![i] = e]
  PROVE  ex' \in [Slots -> Executions] /\ ex'[i] = e /\ OtherRecords(i)
BY DEF Shape, OtherRecords

\* A handler's state is replaced.
LEMMA HandlerSet ==
  ASSUME Shape, NEW h \in Handlers, NEW r \in HandlerStates, hd' = [hd EXCEPT ![h] = r]
  PROVE  hd' \in [Handlers -> HandlerStates] /\ hd'[h] = r /\ OtherHandler(h)
BY DEF Shape, OtherHandler

\* The queue of the serial lock changes.
LEMMA LineShape ==
  ASSUME Shape
  PROVE  /\ DOMAIN line \subseteq Slots
         /\ \A S : line' = Without(S) =>
               line' \in [DOMAIN line' -> SUBSET DOMAIN line'] /\ DOMAIN line' \subseteq Slots
         /\ \A i \in Slots : line' = Joined(i) =>
               line' \in [DOMAIN line' -> SUBSET DOMAIN line'] /\ DOMAIN line' \subseteq Slots
<1>1. DOMAIN line \subseteq Slots
  BY DEF Shape
<1>2. ASSUME NEW S, line' = Without(S)
      PROVE  line' \in [DOMAIN line' -> SUBSET DOMAIN line'] /\ DOMAIN line' \subseteq Slots
  <2>1. /\ DOMAIN Without(S) = DOMAIN line \ S
        /\ Without(S) \in [DOMAIN Without(S) -> SUBSET DOMAIN Without(S)]
    BY WithoutFacts
  <2>2. line' \in [DOMAIN line' -> SUBSET DOMAIN line']
    BY <1>2, <2>1
  <2> QED
    BY <1>1, <1>2, <2>1, <2>2
<1>3. ASSUME NEW i \in Slots, line' = Joined(i)
      PROVE  line' \in [DOMAIN line' -> SUBSET DOMAIN line'] /\ DOMAIN line' \subseteq Slots
  <2>1. /\ DOMAIN Joined(i) = DOMAIN line \cup {i}
        /\ Joined(i) \in [DOMAIN Joined(i) -> SUBSET DOMAIN Joined(i)]
    BY JoinedFacts
  <2>2. line' \in [DOMAIN line' -> SUBSET DOMAIN line']
    BY <1>3, <2>1
  <2> QED
    BY <1>1, <1>3, <2>1, <2>2
<1> QED
  BY <1>1, <1>2, <1>3

\* A record that is being admitted is there.
LEMMA SlotFacts ==
  ASSUME SlotRests, NEW h \in Handlers, hd[h].pc \in {"cursor", "file", "row"}
  PROVE  /\ hd[h].slot \in Slots
         /\ ex[hd[h].slot].at = hd[h].at /\ ex[hd[h].slot].rec = (h = "rec")
         /\ ex[hd[h].slot].st = "pending" /\ ex[hd[h].slot].task = "none"
         /\ h = "rec" => ex[hd[h].slot].guard
BY DEF SlotRests

\* The write of a schedule stores it or leaves the file.
LEMMA StoredFacts ==
  ASSUME Shape, NEW s \in Schedules, NEW whole \in BOOLEAN, NEW ok \in BOOLEAN,
         Persist(Upsert(disk, s, whole), ok)
  PROVE  /\ Stored(s) /\ fenced' \in BOOLEAN /\ left' \in [Kinds -> Nat]
         /\ ok /\ s.pending # NoCheckpoint => disk'.pending = s.pending
<1> DEFINE u == Upsert(disk, s, whole)
<1>1. disk \in Schedules
  BY DEF Shape
<1>2. /\ u.to \in Schedules /\ u.to.last = Later(disk.last, s.last)
      /\ disk.pending # NoCheckpoint => u.to.pending = disk.pending
      /\ disk.pending = NoCheckpoint => u.to.pending = s.pending
      /\ u.ok /\ disk.pending # NoCheckpoint => s.pending \in {NoCheckpoint, disk.pending}
      /\ u.ok /\ disk.pending = NoCheckpoint /\ s.pending # NoCheckpoint =>
            disk.last < s.pending.last
  BY <1>1, UpsertFacts
<1>3. /\ disk' = disk \/ (u.ok /\ disk' = u.to)
      /\ ok => u.ok /\ disk' = u.to
      /\ fenced' \in BOOLEAN /\ left' \in [Kinds -> Nat]
  BY PersistFacts
<1> HIDE DEF u
<1>4. CASE disk' = disk /\ ~ok
  BY <1>1, <1>3, <1>4 DEF Stored
<1>5. CASE u.ok /\ disk' = u.to
  BY <1>1, <1>2, <1>3, <1>5 DEF Stored
<1> QED
  BY <1>3, <1>4, <1>5

\* The cursor that a trigger leaves is neither before the old one nor before its
\* occurrence, and of no other time than its handling's.
LEMMA CursorFacts ==
  ASSUME Shape, NEW h \in Handlers, NEW t \in Int
  PROVE  /\ Cursor(h, t) \in Int /\ mem.last <= Cursor(h, t) /\ hd[h].at <= Cursor(h, t)
         /\ Cursor(h, t) \in {mem.last, hd[h].at, t}
<1>1. mem.last \in Int /\ hd[h].at \in Int
  BY DEF Shape, Schedules, HandlerStates
<1>2. /\ Later(hd[h].at, t) \in Int /\ hd[h].at <= Later(hd[h].at, t)
      /\ Later(hd[h].at, t) \in {hd[h].at, t}
  BY <1>1, LaterFacts
<1> DEFINE v == IF h = "rec" THEN hd[h].at ELSE Later(hd[h].at, t)
<1>3. v \in Int /\ hd[h].at <= v /\ v \in {hd[h].at, t}
  BY <1>1, <1>2
<1>4. Cursor(h, t) = Later(mem.last, v)
  BY DEF Cursor
<1> HIDE DEF v
<1>5. /\ Later(mem.last, v) \in Int /\ mem.last <= Later(mem.last, v) /\ v <= Later(mem.last, v)
      /\ Later(mem.last, v) \in {mem.last, v}
  BY <1>1, <1>3, LaterFacts
<1> QED
  BY <1>1, <1>3, <1>4, <1>5

\* start plans the missed occurrences.
LEMMA StartPlanFacts ==
  ASSUME Shape, StartPlan
  PROVE  /\ Shape'
         /\ UNCHANGED <<policy, now, disk, fenced, armed, decided, held, failed, worker, queue,
                      hd, ex, line, edit, undone, owed, recorded, cleared, left>>
         /\ run = "off" /\ edit.pc = "idle" /\ run' = "starting"
         /\ mem'.last = Advanced(mem) /\ mem'.pending = Planned(mem) /\ mem'.enabled = mem.enabled
<1>1. /\ mem.last \in Int /\ mem.pending \in Checkpoints /\ mem.enabled \in BOOLEAN
      /\ now \in Int /\ Interval \in Nat \ {0}
  BY RecurringAssumption DEF Shape, Schedules
<1>2. MissedCount(mem) \in Int
  BY <1>1 DEF MissedCount, Never
<1>3. Advanced(mem) \in Int
  BY <1>1, <1>2 DEF Advanced
<1>4. /\ Checkpoint(now, 1) \in Checkpoints
      /\ Checkpoint(mem.last + Interval, MissedCount(mem)) \in Checkpoints
  BY <1>1, <1>2 DEF Checkpoint, Checkpoints
<1>5. Planned(mem) \in Checkpoints
  BY <1>1, <1>4, FreshFacts DEF Planned
<1>6. /\ mem' \in Schedules
      /\ mem'.last = Advanced(mem) /\ mem'.pending = Planned(mem) /\ mem'.enabled = mem.enabled
  BY <1>1, <1>3, <1>5, ScheduleFacts DEF StartPlan
<1> QED
  BY <1>6 DEF StartPlan, Shape, recVars, execVars, fileVars, editVars

\* start writes the plan, and has a worker for it or gives up.
LEMMA StartPersistFacts ==
  ASSUME Shape, StartPersist
  PROVE  /\ Shape'
         /\ UNCHANGED <<policy, now, mem, armed, decided, hd, ex, line, edit, undone, recorded,
                      cleared>>
         /\ run = "starting" /\ Stored(mem)
         /\ \/ /\ run' = "off" /\ queue' = <<>> /\ held' = held /\ failed' = failed
               /\ worker' = worker /\ owed' = owed /\ mem.pending # NoCheckpoint
            \/ /\ run' = "on" /\ failed' = FALSE /\ queue' = queue
               /\ owed' = owed \cup Covered(mem.pending)
               /\ \/ mem.pending = NoCheckpoint /\ worker' = NoWorker
                  \/ /\ mem.pending # NoCheckpoint /\ disk'.pending = mem.pending
                     /\ worker'.pc = "gate" /\ worker'.left = mem.pending.count
                     /\ worker'.at = mem.pending.first /\ worker'.cp = mem.pending
                     /\ worker'.to = -1
<1>1. mem \in Schedules /\ mem.pending \in Checkpoints /\ mem.pending.count \in Int
      /\ mem.pending.first \in Int
  BY DEF Shape, Schedules, Checkpoints
<1>2. PICK ok \in BOOLEAN :
          /\ Persist(Upsert(disk, mem, FALSE), ok)
          /\ IF mem.pending # NoCheckpoint /\ ~ok
             THEN run' = "off" /\ queue' = <<>> /\ UNCHANGED <<recVars, owed>>
             ELSE /\ run' = "on"
                  /\ held' = (mem.pending # NoCheckpoint)
                  /\ failed' = FALSE
                  /\ worker' = IF mem.pending = NoCheckpoint THEN NoWorker
                               ELSE [pc |-> "gate", left |-> mem.pending.count,
                                     at |-> mem.pending.first, cp |-> mem.pending, to |-> Never]
                  /\ owed' = owed \cup Covered(mem.pending)
                  /\ UNCHANGED queue
  BY DEF StartPersist
<1>3. /\ Stored(mem) /\ fenced' \in BOOLEAN /\ left' \in [Kinds -> Nat]
      /\ ok /\ mem.pending # NoCheckpoint => disk'.pending = mem.pending
  BY <1>1, <1>2, StoredFacts
<1>4. /\ run = "starting"
      /\ UNCHANGED <<policy, now, mem, armed, decided, hd, ex, line, edit, undone, recorded,
                     cleared>>
  BY DEF StartPersist, execVars, editVars
<1>5. CASE mem.pending # NoCheckpoint /\ ~ok
  <2>1. /\ run' = "off" /\ queue' = <<>> /\ held' = held /\ failed' = failed
        /\ worker' = worker /\ owed' = owed
    BY <1>2, <1>5 DEF recVars
  <2>2. queue' \in Seq(Int)
    BY <2>1
  <2> QED
    BY <1>3, <1>4, <1>5, <2>1, <2>2 DEF Shape, Stored
<1>6. CASE mem.pending = NoCheckpoint
  <2>1. /\ run' = "on" /\ held' = FALSE /\ failed' = FALSE /\ worker' = NoWorker
        /\ owed' = owed \cup Covered(mem.pending) /\ queue' = queue
    BY <1>2, <1>6
  <2> QED
    BY <1>3, <1>4, <1>6, <2>1, FreshFacts DEF Shape, Stored
<1>7. CASE mem.pending # NoCheckpoint /\ ok
  <2>1. /\ run' = "on" /\ held' = TRUE /\ failed' = FALSE
        /\ worker' = [pc |-> "gate", left |-> mem.pending.count,
                      at |-> mem.pending.first, cp |-> mem.pending, to |-> Never]
        /\ owed' = owed \cup Covered(mem.pending) /\ queue' = queue
    BY <1>2, <1>7
  <2>2. /\ worker' \in [pc : WorkerPCs, left : Int, at : Int, cp : Checkpoints, to : Int]
        /\ worker'.pc = "gate" /\ worker'.left = mem.pending.count
        /\ worker'.at = mem.pending.first /\ worker'.cp = mem.pending
        /\ worker'.to = -1
    BY <1>1, <2>1 DEF WorkerPCs, Never
  <2> QED
    BY <1>3, <1>4, <1>7, <2>1, <2>2 DEF Shape, Stored
<1> QED
  BY <1>5, <1>6, <1>7

\* A trigger falls due.
LEMMA EvaluateFacts ==
  ASSUME Shape, Evaluate
  PROVE  /\ Shape'
         /\ UNCHANGED <<policy, now, mem, disk, fenced, run, armed, decided, held, failed, worker,
                      hd, ex, line, edit, undone, owed, recorded, cleared, left>>
         /\ queue' = Append(queue, now)
<1>1. queue' = Append(queue, now) /\ queue \in Seq(Int) /\ now \in Int
  BY DEF Evaluate, Shape
<1>2. queue' \in Seq(Int)
  BY <1>1
<1> QED
  BY <1>1, <1>2 DEF Evaluate, Shape, lifeVars, recVars, execVars, fileVars, editVars, ghosts

\* A trigger is asked for.
LEMMA ExplicitFacts ==
  ASSUME Shape, Explicit
  PROVE  /\ Shape'
         /\ UNCHANGED <<policy, now, mem, disk, fenced, run, armed, decided, held, failed, worker,
                      hd, ex, line, edit, undone, owed, recorded, cleared>>
         /\ queue' = Append(queue, now)
<1>1. queue' = Append(queue, now) /\ queue \in Seq(Int) /\ now \in Int
  BY DEF Explicit, Shape
<1>2. queue' \in Seq(Int)
  BY <1>1
<1>3. left' \in [Kinds -> Nat]
  BY SpendType DEF Explicit, Shape
<1> QED
  BY <1>1, <1>2, <1>3 DEF Explicit, Shape, lifeVars, recVars, execVars, fileVars, editVars, ghosts

\* A trigger is taken from the channel.
LEMMA ReceiveFacts ==
  ASSUME Shape, Receive
  PROVE  /\ Shape'
         /\ UNCHANGED <<policy, now, mem, disk, fenced, run, armed, decided, held, failed, worker,
                      ex, line, edit, undone, owed, recorded, cleared, left>>
         /\ run \in {"on", "stopping"} /\ hd["live"].pc = "idle" /\ hd'["live"].pc = "wait"
         /\ hd'["live"].at = Head(queue) /\ hd'["live"].to = -1 /\ hd'["live"].snap = NoSchedule
         /\ hd'["rec"] = hd["rec"] /\ queue # <<>> /\ queue' = Tail(queue)
<1>1. queue \in Seq(Int) /\ queue # <<>> /\ queue' = Tail(queue)
  BY DEF Receive, Shape
<1>2. Head(queue) \in Int /\ queue' \in Seq(Int)
  BY <1>1
<1> DEFINE r == [Idle EXCEPT !.pc = "wait", !.at = Head(queue)]
<1>3. /\ r \in HandlerStates /\ r.pc = "wait" /\ r.at = Head(queue) /\ r.to = -1
      /\ r.snap = NoSchedule
  BY <1>2, FreshFacts DEF HandlerStates, HandlerPCs
<1>4. hd' = [hd EXCEPT !["live"] = r]
  BY DEF Receive
<1> HIDE DEF r
<1>5. /\ hd' \in [Handlers -> HandlerStates] /\ hd'["live"] = r /\ hd'["rec"] = hd["rec"]
  BY <1>3, <1>4, HandlerSet DEF Handlers, OtherHandler
<1>6. UNCHANGED <<policy, now, mem, disk, fenced, run, armed, decided, held, failed, worker, ex,
                  line, edit, undone, owed, recorded, cleared, left>>
  BY DEF Receive, lifeVars, recVars, execVars, fileVars, editVars, ghosts
<1>7. Shape'
  BY <1>2, <1>5, <1>6 DEF Shape
<1>8. run \in {"on", "stopping"} /\ hd["live"].pc = "idle"
  BY DEF Receive
<1> QED
  BY <1>1, <1>3, <1>5, <1>6, <1>7, <1>8

\* A trigger is admitted, or the recovery is blocked.
LEMMA AdmitFacts ==
  ASSUME Shape, NEW h \in Handlers, Admit(h)
  PROVE  /\ Shape'
         /\ UNCHANGED <<policy, now, mem, disk, fenced, run, armed, decided, held, worker, queue,
                      ex, line, edit, undone, owed, recorded, cleared, left>>
         /\ hd[h].pc = "wait" /\ ~Locked /\ OtherHandler(h)
         /\ \/ hd'[h] = Idle /\ failed' = TRUE
            \/ /\ hd'[h].pc = "policy" /\ hd'[h].snap = mem /\ hd'[h].at = hd[h].at
               /\ hd'[h].to \in {hd[h].to, now} /\ failed' = failed
               /\ h = "rec" => mem.pending = worker.cp
<1>1. hd[h].pc = "wait" /\ ~Locked
  BY DEF Admit
<1>2. /\ hd[h] \in HandlerStates /\ mem \in Schedules /\ now \in Int /\ hd[h].to \in Int
      /\ failed \in BOOLEAN
  BY DEF Shape, HandlerStates
<1>3. UNCHANGED <<policy, now, mem, disk, fenced, run, armed, decided, held, worker, queue, ex,
                  line, edit, undone, owed, recorded, cleared, left>>
  BY DEF Admit, lifeVars, execVars, fileVars, editVars, ghosts
<1>4. CASE Denied(h) \/ Mismatched(h)
  <2>1. hd' = [hd EXCEPT ![h] = Idle] /\ failed' = (failed \/ Mismatched(h))
    BY <1>4 DEF Admit
  <2>2. failed' = TRUE
    BY <1>2, <1>4, <2>1 DEF Denied, Mismatched
  <2>3. hd' \in [Handlers -> HandlerStates] /\ hd'[h] = Idle /\ OtherHandler(h)
    BY <2>1, HandlerSet, FreshFacts
  <2> QED
    BY <1>1, <1>3, <2>2, <2>3 DEF Shape
<1>5. CASE ~(Denied(h) \/ Mismatched(h))
  <2> DEFINE to == IF h = "rec" THEN hd[h].to ELSE now
             r == [hd[h] EXCEPT !.pc = "policy", !.snap = mem, !.to = to]
  <2>1. /\ hd' = [hd EXCEPT ![h].pc = "policy", ![h].snap = mem,
                            ![h].to = IF h = "rec" THEN @ ELSE now]
        /\ failed' = failed
    BY <1>5 DEF Admit
  <2>2. hd' = [hd EXCEPT ![h] = r]
    BY <2>1 DEF Shape, HandlerStates
  <2>3. to \in Int /\ to \in {hd[h].to, now}
    BY <1>2
  <2>4. h = "rec" => mem.pending = worker.cp
    BY <1>5 DEF Mismatched
  <2> HIDE DEF to
  <2>5. /\ r \in HandlerStates /\ r.pc = "policy" /\ r.snap = mem /\ r.to = to
        /\ r.at = hd[h].at
    BY <1>2, <2>3 DEF HandlerStates, HandlerPCs
  <2> HIDE DEF r
  <2>6. hd' \in [Handlers -> HandlerStates] /\ hd'[h] = r /\ OtherHandler(h)
    BY <2>2, <2>5, HandlerSet
  <2> QED
    BY <1>1, <1>3, <2>1, <2>3, <2>4, <2>5, <2>6 DEF Shape
<1> QED
  BY <1>4, <1>5

\* The concurrency policy is applied.
LEMMA ApplyFacts ==
  ASSUME Shape, NEW h \in Handlers, Apply(h)
  PROVE  /\ Shape'
         /\ UNCHANGED <<policy, now, mem, disk, fenced, run, armed, decided, held, worker, queue,
                      edit, undone, owed, recorded, cleared, left>>
         /\ hd[h].pc = "policy" /\ OtherHandler(h) /\ HandlerKept(h) /\ hd'[h].snap = hd[h].snap
         /\ failed => failed'
         /\ \/ hd'[h].pc \in {"skip", "record"} /\ UNCHANGED <<failed, ex, line>>
            \/ /\ hd'[h].pc = "cancel" /\ hd'[h].taken = {i \in Slots : Active(i)}
               /\ line' = Without({i \in Slots : Active(i)})
               /\ \A i \in Slots : /\ ex'[i].task = "none" /\ RecordKept(i) /\ ex'[i].st = ex[i].st
                                   /\ Active(i) /\ ex[i].rec => failed'
<1> DEFINE busy == {i \in Slots : Active(i)}
<1>1. hd[h].pc = "policy" /\ hd[h] \in HandlerStates
  BY DEF Apply, Shape
<1>2. UNCHANGED <<policy, now, mem, disk, fenced, run, armed, decided, held, worker, queue,
                  edit, undone, owed, recorded, cleared, left>>
  BY DEF Apply, lifeVars, execVars, fileVars, editVars, ghosts
<1>3. \/ hd' = [hd EXCEPT ![h].pc = "skip"] /\ UNCHANGED <<failed, ex, line>>
      \/ hd' = [hd EXCEPT ![h].pc = "record"] /\ UNCHANGED <<failed, ex, line>>
      \/ /\ hd' = [hd EXCEPT ![h].pc = "cancel", ![h].taken = busy]
         /\ failed' = (failed \/ \E i \in busy : ex[i].rec)
         /\ ex' = [i \in Slots |-> IF i \in busy THEN [ex[i] EXCEPT !.task = "none"] ELSE ex[i]]
         /\ line' = Without(busy)
  BY DEF Apply, execVars
<1> HIDE DEF busy
<1>4. ASSUME NEW p \in {"skip", "record"}, hd' = [hd EXCEPT ![h].pc = p], UNCHANGED <<failed,
                                                                                      ex, line>>
      PROVE  /\ Shape'
             /\ UNCHANGED <<policy, now, mem, disk, fenced, run, armed, decided, held, worker, queue,
                          edit, undone, owed, recorded, cleared, left>>
             /\ hd[h].pc = "policy" /\ OtherHandler(h) /\ HandlerKept(h) /\ hd'[h].snap = hd[h].snap
             /\ failed => failed'
             /\ \/ hd'[h].pc \in {"skip", "record"} /\ UNCHANGED <<failed, ex, line>>
                \/ /\ hd'[h].pc = "cancel" /\ hd'[h].taken = {i \in Slots : Active(i)}
                   /\ line' = Without({i \in Slots : Active(i)})
                   /\ \A i \in Slots : /\ ex'[i].task = "none" /\ RecordKept(i) /\ ex'[i].st = ex[i].st
                                       /\ Active(i) /\ ex[i].rec => failed'
  <2> DEFINE r == [hd[h] EXCEPT !.pc = p]
  <2>1. hd' = [hd EXCEPT ![h] = r]
    BY <1>4 DEF Shape, HandlerStates
  <2>2. /\ r \in HandlerStates /\ r.pc = p /\ r.snap = hd[h].snap /\ r.to = hd[h].to
        /\ r.at = hd[h].at /\ r.slot = hd[h].slot
    BY <1>1 DEF HandlerStates, HandlerPCs
  <2> HIDE DEF r
  <2>3. hd' \in [Handlers -> HandlerStates] /\ hd'[h] = r /\ OtherHandler(h)
    BY <2>1, <2>2, HandlerSet
  <2> QED
    BY <1>1, <1>2, <1>4, <2>2, <2>3 DEF Shape, HandlerKept
<1>5. ASSUME hd' = [hd EXCEPT ![h].pc = "cancel", ![h].taken = busy],
             failed' = (failed \/ \E i \in busy : ex[i].rec),
             ex' = [i \in Slots |-> IF i \in busy THEN [ex[i] EXCEPT !.task = "none"] ELSE ex[i]],
             line' = Without(busy)
      PROVE  /\ Shape'
             /\ UNCHANGED <<policy, now, mem, disk, fenced, run, armed, decided, held, worker, queue,
                          edit, undone, owed, recorded, cleared, left>>
             /\ hd[h].pc = "policy" /\ OtherHandler(h) /\ HandlerKept(h) /\ hd'[h].snap = hd[h].snap
             /\ failed => failed'
             /\ \/ hd'[h].pc \in {"skip", "record"} /\ UNCHANGED <<failed, ex, line>>
                \/ /\ hd'[h].pc = "cancel" /\ hd'[h].taken = {i \in Slots : Active(i)}
                   /\ line' = Without({i \in Slots : Active(i)})
                   /\ \A i \in Slots : /\ ex'[i].task = "none" /\ RecordKept(i) /\ ex'[i].st = ex[i].st
                                       /\ Active(i) /\ ex[i].rec => failed'
  <2> DEFINE r == [hd[h] EXCEPT !.pc = "cancel", !.taken = busy]
  <2>1. hd' = [hd EXCEPT ![h] = r]
    BY <1>5 DEF Shape, HandlerStates
  <2>2. busy \in SUBSET Slots
    BY DEF busy
  <2>3. /\ r \in HandlerStates /\ r.pc = "cancel" /\ r.snap = hd[h].snap /\ r.to = hd[h].to
        /\ r.at = hd[h].at /\ r.slot = hd[h].slot /\ r.taken = busy
    BY <1>1, <2>2 DEF HandlerStates, HandlerPCs
  <2> HIDE DEF r
  <2>4. hd' \in [Handlers -> HandlerStates] /\ hd'[h] = r /\ OtherHandler(h)
    BY <2>1, <2>3, HandlerSet
  <2>5. ASSUME NEW i \in Slots
        PROVE  /\ ex'[i] \in Executions /\ ex'[i].task = "none" /\ RecordKept(i)
               /\ ex'[i].st = ex[i].st
    <3>1. ex[i] \in Executions /\ ex'[i] = IF i \in busy THEN [ex[i] EXCEPT !.task = "none"] ELSE ex[i]
      BY <1>5 DEF Shape
    <3>2. i \notin busy => ex[i].task = "none"
      BY DEF busy, Active
    <3> QED
      BY <3>1, <3>2 DEF Executions, Tasks, RecordKept
  <2>6. ex' \in [Slots -> Executions]
    <3>1. DOMAIN ex' = Slots /\ ex' = [i \in Slots |-> ex'[i]]
      BY <1>5
    <3> QED
      BY <2>5, <3>1
  <2>7. failed \in BOOLEAN /\ failed' \in BOOLEAN
    BY <1>5 DEF Shape
  <2>8. /\ line' \in [DOMAIN line' -> SUBSET DOMAIN line'] /\ DOMAIN line' \subseteq Slots
    BY <1>5, LineShape
  <2>9. \A i \in Slots : Active(i) /\ ex[i].rec => failed'
    BY <1>5 DEF busy
  <2>10. failed => failed'
    BY <1>5
  <2>11. Shape'
    BY <1>2, <2>4, <2>6, <2>7, <2>8 DEF Shape
  <2> QED
    BY <1>1, <1>2, <1>5, <2>3, <2>4, <2>5, <2>9, <2>10, <2>11 DEF HandlerKept, busy
<1> QED
  BY <1>3, <1>4, <1>5

\* A cancelled execution is recorded.
LEMMA CancelOneFacts ==
  ASSUME Shape, NEW h \in Handlers, CancelOne(h)
  PROVE  /\ Shape'
         /\ UNCHANGED <<policy, now, mem, disk, fenced, run, armed, decided, held, worker, queue,
                      line, edit, undone, owed, cleared>>
         /\ hd[h].pc = "cancel" /\ OtherHandler(h) /\ HandlerKept(h) /\ hd'[h].snap = hd[h].snap
         /\ hd'[h].pc \in {"record", "cancel"} /\ (failed => failed')
         /\ recorded \subseteq recorded'
         /\ \E i \in Slots : /\ i \in hd[h].taken /\ hd'[h].taken = hd[h].taken \ {i}
                             /\ ex'[i] = Blank /\ OtherRecords(i)
<1>1. PICK i \in hd[h].taken, ok \in BOOLEAN, written \in BOOLEAN :
          /\ RowWrite(ok, written)
          /\ FailIf(h, ok)
          /\ ex' = [ex EXCEPT ![i] = Blank]
          /\ recorded' = IF ex[i].st = "done" /\ ex[i].rec /\ written
                         THEN recorded \cup {ex[i].at} ELSE recorded
          /\ hd' = [hd EXCEPT ![h].taken = @ \ {i},
                              ![h].pc = IF hd[h].taken = {i} THEN "record" ELSE "cancel"]
  BY DEF CancelOne
<1>2. hd[h].pc = "cancel" /\ hd[h] \in HandlerStates /\ hd[h].taken \in SUBSET Slots
  BY DEF CancelOne, Shape, HandlerStates
<1>3. UNCHANGED <<policy, now, mem, disk, fenced, run, armed, decided, held, worker, queue,
                  line, edit, undone, owed, cleared>>
  BY DEF CancelOne, lifeVars, fileVars, editVars
<1>4. i \in Slots /\ left' \in [Kinds -> Nat]
  BY <1>1, <1>2, RowFacts DEF Shape
<1>5. failed' \in BOOLEAN /\ (failed => failed')
  BY <1>1 DEF FailIf, Shape
<1>6. recorded \subseteq recorded'
  BY <1>1
<1>7. ex' \in [Slots -> Executions] /\ ex'[i] = Blank /\ OtherRecords(i)
  BY <1>1, <1>4, RecordSet, FreshFacts
<1> DEFINE p == IF hd[h].taken = {i} THEN "record" ELSE "cancel"
           tk == hd[h].taken \ {i}
           r == [hd[h] EXCEPT !.taken = tk, !.pc = p]
<1>8. hd' = [hd EXCEPT ![h] = r]
  BY <1>1 DEF Shape, HandlerStates
<1>9. p \in {"record", "cancel"} /\ tk \in SUBSET Slots
  BY <1>2
<1> HIDE DEF p, tk
<1>10. /\ r \in HandlerStates /\ r.pc = p /\ r.snap = hd[h].snap /\ r.to = hd[h].to
       /\ r.at = hd[h].at /\ r.slot = hd[h].slot /\ r.taken = tk
  BY <1>2, <1>9 DEF HandlerStates, HandlerPCs
<1> HIDE DEF r
<1>11. hd' \in [Handlers -> HandlerStates] /\ hd'[h] = r /\ OtherHandler(h)
  BY <1>8, <1>10, HandlerSet
<1>12. Shape'
  BY <1>3, <1>4, <1>5, <1>7, <1>11 DEF Shape
<1>13. hd'[h].taken = hd[h].taken \ {i}
  BY <1>10, <1>11 DEF tk
<1>14. HandlerKept(h) /\ hd'[h].snap = hd[h].snap /\ hd'[h].pc \in {"record", "cancel"}
  BY <1>9, <1>10, <1>11 DEF HandlerKept
<1> QED
  BY <1>1, <1>2, <1>3, <1>4, <1>5, <1>6, <1>7, <1>11, <1>12, <1>13, <1>14

\* A skipped trigger moves the cursor.
LEMMA SkipFacts ==
  ASSUME Shape, NEW h \in Handlers, Skip(h)
  PROVE  /\ Shape'
         /\ UNCHANGED <<policy, now, disk, fenced, run, armed, decided, held, failed, worker,
                      queue, ex, line, edit, undone, owed, recorded, cleared, left>>
         /\ hd[h].pc = "skip" /\ hd'[h].pc = "skipFile" /\ OtherHandler(h) /\ HandlerKept(h)
         /\ hd'[h].snap = mem' /\ mem'.last = Cursor(h, now) /\ mem'.pending = mem.pending
         /\ mem'.enabled = mem.enabled
<1>1. /\ hd[h].pc = "skip" /\ mem' = [mem EXCEPT !.last = Cursor(h, now)]
      /\ hd' = [hd EXCEPT ![h].pc = "skipFile", ![h].snap = mem']
  BY DEF Skip
<1>2. hd[h] \in HandlerStates /\ mem \in Schedules /\ now \in Int
  BY DEF Shape, HandlerStates
<1>3. Cursor(h, now) \in Int
  BY <1>2, CursorFacts
<1>4. /\ mem' \in Schedules /\ mem'.last = Cursor(h, now) /\ mem'.pending = mem.pending
      /\ mem'.enabled = mem.enabled
  BY <1>1, <1>2, <1>3 DEF Schedules
<1>5. PICK m \in Schedules : m = mem'
  BY <1>4
<1> DEFINE r == [hd[h] EXCEPT !.pc = "skipFile", !.snap = m]
<1>6. hd' = [hd EXCEPT ![h] = r]
  BY <1>1, <1>5 DEF Shape, HandlerStates
<1>7. /\ r \in HandlerStates /\ r.pc = "skipFile" /\ r.snap = m /\ r.to = hd[h].to
      /\ r.at = hd[h].at /\ r.slot = hd[h].slot
  BY <1>2 DEF HandlerStates, HandlerPCs
<1> HIDE DEF r
<1>8. hd' \in [Handlers -> HandlerStates] /\ hd'[h] = r /\ OtherHandler(h)
  BY <1>6, <1>7, HandlerSet
<1>9. UNCHANGED <<policy, now, disk, fenced, run, armed, decided, held, failed, worker, queue,
                  ex, line, edit, undone, owed, recorded, cleared, left>>
  BY DEF Skip, lifeVars, recVars, execVars, fileVars, editVars, ghosts
<1>10. Shape'
  BY <1>4, <1>8, <1>9 DEF Shape
<1> QED
  BY <1>1, <1>4, <1>5, <1>7, <1>8, <1>9, <1>10 DEF HandlerKept

\* The cursor of a skip is written.
LEMMA SkipFileFacts ==
  ASSUME Shape, NEW h \in Handlers, SkipFile(h)
  PROVE  /\ Shape'
         /\ UNCHANGED <<policy, now, mem, run, armed, decided, held, worker, queue, ex, line,
                      edit, undone, owed, recorded, cleared>>
         /\ hd[h].pc = "skipFile" /\ hd'[h].pc = "skipRow" /\ OtherHandler(h) /\ HandlerKept(h)
         /\ Stored(hd[h].snap) /\ (failed => failed')
         /\ hd'[h].snap = hd[h].snap
<1>1. hd[h].pc = "skipFile" /\ hd' = [hd EXCEPT ![h].pc = "skipRow"]
  BY DEF SkipFile
<1>2. hd[h] \in HandlerStates /\ hd[h].snap \in Schedules
  BY DEF Shape, HandlerStates
<1>3. PICK ok \in BOOLEAN : Persist(Upsert(disk, hd[h].snap, FALSE), ok) /\ FailIf(h, ok)
  BY DEF SkipFile
<1>4. Stored(hd[h].snap) /\ fenced' \in BOOLEAN /\ left' \in [Kinds -> Nat]
  BY <1>2, <1>3, StoredFacts
<1>5. failed' \in BOOLEAN /\ (failed => failed')
  BY <1>3 DEF FailIf, Shape
<1> DEFINE r == [hd[h] EXCEPT !.pc = "skipRow"]
<1>6. hd' = [hd EXCEPT ![h] = r]
  BY <1>1 DEF Shape, HandlerStates
<1>7. /\ r \in HandlerStates /\ r.pc = "skipRow" /\ r.to = hd[h].to /\ r.at = hd[h].at
      /\ r.slot = hd[h].slot /\ r.snap = hd[h].snap
  BY <1>2 DEF HandlerStates, HandlerPCs
<1> HIDE DEF r
<1>8. hd' \in [Handlers -> HandlerStates] /\ hd'[h] = r /\ OtherHandler(h)
  BY <1>6, <1>7, HandlerSet
<1>9. UNCHANGED <<policy, now, mem, run, armed, decided, held, worker, queue, ex, line, edit,
                  undone, owed, recorded, cleared>>
  BY DEF SkipFile, lifeVars, execVars, editVars, ghosts
<1>10. Shape'
  BY <1>4, <1>5, <1>8, <1>9 DEF Shape, Stored
<1> QED
  BY <1>1, <1>4, <1>5, <1>7, <1>8, <1>9, <1>10 DEF HandlerKept

\* A skip is recorded, or blocks the recovery.
LEMMA SkipRowFacts ==
  ASSUME Shape, NEW h \in Handlers, SkipRow(h)
  PROVE  /\ Shape'
         /\ UNCHANGED <<policy, now, mem, disk, fenced, run, armed, decided, held, worker, queue,
                      ex, line, edit, undone, owed, cleared>>
         /\ hd[h].pc = "skipRow" /\ hd'[h] = Idle /\ OtherHandler(h) /\ (failed => failed')
         /\ recorded \subseteq recorded' /\ (h = "rec" => failed' \/ hd[h].at \in recorded')
<1>1. hd[h].pc = "skipRow" /\ hd' = [hd EXCEPT ![h] = Idle]
  BY DEF SkipRow
<1>2. PICK ok \in BOOLEAN, written \in BOOLEAN :
          /\ RowWrite(ok, written)
          /\ FailIf(h, ok)
          /\ recorded' = IF h = "rec" /\ written THEN recorded \cup {hd[h].at} ELSE recorded
  BY DEF SkipRow
<1>3. left' \in [Kinds -> Nat] /\ (ok => written)
  BY <1>2, RowFacts DEF Shape
<1>4. failed' \in BOOLEAN /\ (failed => failed') /\ (h = "rec" => failed' \/ ok)
  BY <1>2 DEF FailIf, Shape
<1>5. recorded \subseteq recorded' /\ (h = "rec" /\ written => hd[h].at \in recorded')
  BY <1>2
<1>6. hd' \in [Handlers -> HandlerStates] /\ hd'[h] = Idle /\ OtherHandler(h)
  BY <1>1, HandlerSet, FreshFacts
<1>7. UNCHANGED <<policy, now, mem, disk, fenced, run, armed, decided, held, worker, queue, ex,
                  line, edit, undone, owed, cleared>>
  BY DEF SkipRow, lifeVars, execVars, fileVars, editVars
<1>8. Shape'
  BY <1>3, <1>4, <1>6, <1>7 DEF Shape
<1> QED
  BY <1>1, <1>3, <1>4, <1>5, <1>6, <1>7, <1>8

\* An execution is reserved.
LEMMA RecordFacts ==
  ASSUME Shape, NEW h \in Handlers, Record(h)
  PROVE  /\ Shape'
         /\ UNCHANGED <<policy, now, mem, disk, fenced, run, armed, decided, held, failed, worker,
                      queue, line, edit, undone, owed, recorded, cleared, left>>
         /\ hd[h].pc = "record" /\ hd'[h].pc = "cursor" /\ OtherHandler(h)
         /\ hd'[h].at = hd[h].at /\ hd'[h].to = hd[h].to /\ hd'[h].snap = hd[h].snap
         /\ \E i \in Slots : /\ hd'[h].slot = i /\ ex[i] = Blank /\ OtherRecords(i)
                             /\ ex'[i].at = hd[h].at /\ ex'[i].rec = (h = "rec")
                             /\ ex'[i].guard = (hd[h].snap.pending # NoCheckpoint)
                             /\ ex'[i].st = "pending" /\ ex'[i].task = "none"
<1> DEFINE g == hd[h].snap.pending # NoCheckpoint
           e == [at |-> hd[h].at, rec |-> h = "rec", guard |-> g, st |-> "pending",
                 row |-> FALSE, task |-> "none"]
<1>1. PICK i \in Slots : /\ ex[i] = Blank /\ ex' = [ex EXCEPT ![i] = e]
                        /\ hd' = [hd EXCEPT ![h].pc = "cursor", ![h].slot = i]
  BY DEF Record
<1>2. hd[h].pc = "record" /\ hd[h] \in HandlerStates /\ hd[h].at \in Int
  BY DEF Record, Shape, HandlerStates
<1>3. UNCHANGED <<policy, now, mem, disk, fenced, run, armed, decided, held, failed, worker,
                  queue, line, edit, undone, owed, recorded, cleared, left>>
  BY DEF Record, lifeVars, recVars, fileVars, editVars, ghosts
<1>4. /\ e \in Executions /\ e.at = hd[h].at /\ e.rec = (h = "rec") /\ e.guard = g
      /\ e.st = "pending" /\ e.task = "none"
  BY <1>2 DEF Executions, Tasks
<1> HIDE DEF e
<1>5. ex' \in [Slots -> Executions] /\ ex'[i] = e /\ OtherRecords(i)
  BY <1>1, <1>4, RecordSet
<1> DEFINE r == [hd[h] EXCEPT !.pc = "cursor", !.slot = i]
<1>6. hd' = [hd EXCEPT ![h] = r]
  BY <1>1 DEF Shape, HandlerStates
<1>7. /\ r \in HandlerStates /\ r.pc = "cursor" /\ r.slot = i /\ r.at = hd[h].at
      /\ r.to = hd[h].to /\ r.snap = hd[h].snap
  BY <1>2 DEF HandlerStates, HandlerPCs
<1> HIDE DEF r
<1>8. hd' \in [Handlers -> HandlerStates] /\ hd'[h] = r /\ OtherHandler(h)
  BY <1>6, <1>7, HandlerSet
<1>9. Shape'
  BY <1>3, <1>5, <1>8 DEF Shape
<1> QED
  BY <1>1, <1>2, <1>3, <1>4, <1>5, <1>7, <1>8, <1>9

\* An admitted trigger moves the cursor.
LEMMA MoveCursorFacts ==
  ASSUME Shape, NEW h \in Handlers, MoveCursor(h)
  PROVE  /\ Shape'
         /\ UNCHANGED <<policy, now, disk, fenced, run, armed, decided, held, failed, worker,
                      queue, ex, line, edit, undone, owed, recorded, cleared, left>>
         /\ hd[h].pc = "cursor" /\ hd'[h].pc = "file" /\ OtherHandler(h) /\ HandlerKept(h)
         /\ hd'[h].snap = mem' /\ mem'.last = Cursor(h, hd[h].to) /\ mem'.pending = mem.pending
         /\ mem'.enabled = mem.enabled
<1>1. /\ hd[h].pc = "cursor" /\ mem' = [mem EXCEPT !.last = Cursor(h, hd[h].to)]
      /\ hd' = [hd EXCEPT ![h].pc = "file", ![h].snap = mem']
  BY DEF MoveCursor
<1>2. hd[h] \in HandlerStates /\ mem \in Schedules /\ hd[h].to \in Int
  BY DEF Shape, HandlerStates
<1>3. Cursor(h, hd[h].to) \in Int
  BY <1>2, CursorFacts
<1>4. /\ mem' \in Schedules /\ mem'.last = Cursor(h, hd[h].to) /\ mem'.pending = mem.pending
      /\ mem'.enabled = mem.enabled
  BY <1>1, <1>2, <1>3 DEF Schedules
<1>5. PICK m \in Schedules : m = mem'
  BY <1>4
<1> DEFINE r == [hd[h] EXCEPT !.pc = "file", !.snap = m]
<1>6. hd' = [hd EXCEPT ![h] = r]
  BY <1>1, <1>5 DEF Shape, HandlerStates
<1>7. /\ r \in HandlerStates /\ r.pc = "file" /\ r.snap = m /\ r.to = hd[h].to
      /\ r.at = hd[h].at /\ r.slot = hd[h].slot
  BY <1>2 DEF HandlerStates, HandlerPCs
<1> HIDE DEF r
<1>8. hd' \in [Handlers -> HandlerStates] /\ hd'[h] = r /\ OtherHandler(h)
  BY <1>6, <1>7, HandlerSet
<1>9. UNCHANGED <<policy, now, disk, fenced, run, armed, decided, held, failed, worker, queue,
                  ex, line, edit, undone, owed, recorded, cleared, left>>
  BY DEF MoveCursor, lifeVars, recVars, execVars, fileVars, editVars, ghosts
<1>10. Shape'
  BY <1>4, <1>8, <1>9 DEF Shape
<1> QED
  BY <1>1, <1>4, <1>5, <1>7, <1>8, <1>9, <1>10 DEF HandlerKept

\* The cursor is written.
LEMMA PersistCursorFacts ==
  ASSUME Shape, NEW h \in Handlers, PersistCursor(h)
  PROVE  /\ Shape'
         /\ UNCHANGED <<policy, now, mem, run, armed, decided, held, worker, queue, ex, line,
                      edit, undone, owed, recorded, cleared>>
         /\ hd[h].pc = "file" /\ hd'[h].pc = "row" /\ OtherHandler(h) /\ HandlerKept(h)
         /\ Stored(hd[h].snap) /\ (failed => failed')
         /\ hd'[h].snap = hd[h].snap
<1>1. hd[h].pc = "file" /\ hd' = [hd EXCEPT ![h].pc = "row"]
  BY DEF PersistCursor
<1>2. hd[h] \in HandlerStates /\ hd[h].snap \in Schedules
  BY DEF Shape, HandlerStates
<1>3. PICK ok \in BOOLEAN : Persist(Upsert(disk, hd[h].snap, FALSE), ok) /\ FailIf(h, ok)
  BY DEF PersistCursor
<1>4. Stored(hd[h].snap) /\ fenced' \in BOOLEAN /\ left' \in [Kinds -> Nat]
  BY <1>2, <1>3, StoredFacts
<1>5. failed' \in BOOLEAN /\ (failed => failed')
  BY <1>3 DEF FailIf, Shape
<1> DEFINE r == [hd[h] EXCEPT !.pc = "row"]
<1>6. hd' = [hd EXCEPT ![h] = r]
  BY <1>1 DEF Shape, HandlerStates
<1>7. /\ r \in HandlerStates /\ r.pc = "row" /\ r.to = hd[h].to /\ r.at = hd[h].at
      /\ r.slot = hd[h].slot /\ r.snap = hd[h].snap
  BY <1>2 DEF HandlerStates, HandlerPCs
<1> HIDE DEF r
<1>8. hd' \in [Handlers -> HandlerStates] /\ hd'[h] = r /\ OtherHandler(h)
  BY <1>6, <1>7, HandlerSet
<1>9. UNCHANGED <<policy, now, mem, run, armed, decided, held, worker, queue, ex, line, edit,
                  undone, owed, recorded, cleared>>
  BY DEF PersistCursor, lifeVars, execVars, editVars, ghosts
<1>10. Shape'
  BY <1>4, <1>5, <1>8, <1>9 DEF Shape, Stored
<1> QED
  BY <1>1, <1>4, <1>5, <1>7, <1>8, <1>9, <1>10 DEF HandlerKept

\* The row is written and the task spawned, unless the recovery is blocked.
LEMMA SpawnFacts ==
  ASSUME Shape, SlotRests, NEW h \in Handlers, Spawn(h)
  PROVE  /\ Shape'
         /\ UNCHANGED <<policy, now, mem, disk, fenced, run, armed, decided, held, worker, queue,
                      edit, undone, owed, recorded, cleared>>
         /\ hd[h].pc = "row" /\ hd'[h] = Idle /\ OtherHandler(h) /\ (failed => failed')
         /\ OtherRecords(hd[h].slot) /\ ex'[hd[h].slot].at = ex[hd[h].slot].at
         /\ ex'[hd[h].slot].rec = ex[hd[h].slot].rec /\ ex'[hd[h].slot].st = ex[hd[h].slot].st
         /\ ex'[hd[h].slot].row \/ (h = "rec" => failed')
         /\ \/ ex[hd[h].slot].guard /\ failed' /\ ex'[hd[h].slot].task = "none" /\ line' = line
            \/ /\ ~(ex[hd[h].slot].guard /\ failed') /\ ConcurrencyOf(h) = "queue"
               /\ ex'[hd[h].slot].task = "serial" /\ line' = Joined(hd[h].slot)
            \/ /\ ~(ex[hd[h].slot].guard /\ failed') /\ ConcurrencyOf(h) # "queue"
               /\ ex'[hd[h].slot].task = "permit" /\ line' = line
<1>1. hd[h].pc = "row" /\ hd' = [hd EXCEPT ![h] = Idle]
  BY DEF Spawn
<1>2. PICK i \in Slots : i = hd[h].slot /\ ex[i].task = "none"
  BY <1>1, SlotFacts
<1>3. PICK ok \in BOOLEAN, written \in BOOLEAN :
          /\ RowWrite(ok, written)
          /\ FailIf(h, ok)
          /\ IF ex[i].guard /\ failed'
             THEN ex' = [ex EXCEPT ![i].row = written] /\ UNCHANGED line
             ELSE /\ ex' = [ex EXCEPT ![i].row = written,
                                ![i].task = IF ConcurrencyOf(h) = "queue" THEN "serial" ELSE "permit"]
                  /\ line' = IF ConcurrencyOf(h) = "queue" THEN Joined(i) ELSE line
  BY <1>2 DEF Spawn
<1>4. left' \in [Kinds -> Nat] /\ (ok => written)
  BY <1>3, RowFacts DEF Shape
<1>5. failed' \in BOOLEAN /\ (failed => failed') /\ (h = "rec" => failed' \/ ok)
  BY <1>3 DEF FailIf, Shape
<1>6. hd' \in [Handlers -> HandlerStates] /\ hd'[h] = Idle /\ OtherHandler(h)
  BY <1>1, HandlerSet, FreshFacts
<1>7. UNCHANGED <<policy, now, mem, disk, fenced, run, armed, decided, held, worker, queue,
                  edit, undone, owed, recorded, cleared>>
  BY DEF Spawn, lifeVars, fileVars, editVars, ghosts
<1>8. ex[i] \in Executions
  BY DEF Shape
<1>9. CASE ex[i].guard /\ failed'
  <2> DEFINE e == [ex[i] EXCEPT !.row = written]
  <2>1. ex' = [ex EXCEPT ![i] = e] /\ line' = line
    BY <1>3, <1>9 DEF Shape, Executions
  <2>2. /\ e \in Executions /\ e.at = ex[i].at /\ e.rec = ex[i].rec /\ e.st = ex[i].st
        /\ e.row = written /\ e.task = "none"
    BY <1>2, <1>8 DEF Executions
  <2> HIDE DEF e
  <2>3. ex' \in [Slots -> Executions] /\ ex'[i] = e /\ OtherRecords(i)
    BY <2>1, <2>2, RecordSet
  <2>4. Shape'
    BY <1>4, <1>5, <1>6, <1>7, <2>1, <2>3 DEF Shape
  <2> QED
    BY <1>1, <1>2, <1>4, <1>5, <1>6, <1>7, <1>9, <2>1, <2>2, <2>3, <2>4
<1>10. CASE ~(ex[i].guard /\ failed')
  <2> DEFINE tk == IF ConcurrencyOf(h) = "queue" THEN "serial" ELSE "permit"
             e == [ex[i] EXCEPT !.row = written, !.task = tk]
  <2>1. /\ ex' = [ex EXCEPT ![i] = e]
        /\ line' = IF ConcurrencyOf(h) = "queue" THEN Joined(i) ELSE line
    BY <1>3, <1>10 DEF Shape, Executions
  <2>2. tk \in Tasks
    BY DEF Tasks
  <2> HIDE DEF tk
  <2>3. /\ e \in Executions /\ e.at = ex[i].at /\ e.rec = ex[i].rec /\ e.st = ex[i].st
        /\ e.row = written /\ e.task = tk
    BY <1>8, <2>2 DEF Executions
  <2> HIDE DEF e
  <2>4. ex' \in [Slots -> Executions] /\ ex'[i] = e /\ OtherRecords(i)
    BY <2>1, <2>3, RecordSet
  <2>5. line' \in [DOMAIN line' -> SUBSET DOMAIN line'] /\ DOMAIN line' \subseteq Slots
    <3>1. CASE ConcurrencyOf(h) = "queue"
      BY <2>1, <3>1, LineShape
    <3>2. CASE ConcurrencyOf(h) # "queue"
      BY <2>1, <3>2 DEF Shape
    <3> QED
      BY <3>1, <3>2
  <2>6. Shape'
    BY <1>4, <1>5, <1>6, <1>7, <2>4, <2>5 DEF Shape
  <2>7. CASE ConcurrencyOf(h) = "queue"
    <3>1. tk = "serial" /\ line' = Joined(i)
      BY <2>1, <2>7 DEF tk
    <3> QED
      BY <1>1, <1>2, <1>4, <1>5, <1>6, <1>7, <1>10, <2>3, <2>4, <2>6, <2>7, <3>1
  <2>8. CASE ConcurrencyOf(h) # "queue"
    <3>1. tk = "permit" /\ line' = line
      BY <2>1, <2>8 DEF tk
    <3> QED
      BY <1>1, <1>2, <1>4, <1>5, <1>6, <1>7, <1>10, <2>3, <2>4, <2>6, <2>8, <3>1
  <2> QED
    BY <2>7, <2>8
<1> QED
  BY <1>9, <1>10

\* A task has the serial lock.
LEMMA TaskSerialFacts ==
  ASSUME Shape, NEW i \in Slots, TaskSerial(i)
  PROVE  /\ Shape'
         /\ UNCHANGED <<policy, now, mem, disk, fenced, run, armed, decided, held, failed, worker,
                      queue, hd, line, edit, undone, owed, recorded, cleared, left>>
         /\ ex[i].task = "serial" /\ i \in DOMAIN line /\ line[i] = {} /\ OtherRecords(i)
         /\ ex'[i].task = "permit" /\ RecordKept(i) /\ ex'[i].st = ex[i].st
<1>1. ex[i].task = "serial" /\ i \in DOMAIN line /\ line[i] = {} /\ ex[i] \in Executions
  BY DEF TaskSerial, Shape
<1> DEFINE e == [ex[i] EXCEPT !.task = "permit"]
<1>2. ex' = [ex EXCEPT ![i] = e]
  BY DEF TaskSerial, Shape, Executions
<1>3. /\ e \in Executions /\ e.at = ex[i].at /\ e.rec = ex[i].rec /\ e.guard = ex[i].guard
      /\ e.row = ex[i].row /\ e.st = ex[i].st /\ e.task = "permit"
  BY <1>1 DEF Executions, Tasks
<1> HIDE DEF e
<1>4. ex' \in [Slots -> Executions] /\ ex'[i] = e /\ OtherRecords(i)
  BY <1>2, <1>3, RecordSet
<1>5. UNCHANGED <<policy, now, mem, disk, fenced, run, armed, decided, held, failed, worker,
                  queue, hd, line, edit, undone, owed, recorded, cleared, left>>
  BY DEF TaskSerial, lifeVars, recVars, fileVars, editVars, ghosts
<1>6. Shape'
  BY <1>4, <1>5 DEF Shape
<1> QED
  BY <1>1, <1>3, <1>4, <1>5, <1>6 DEF RecordKept

\* A task has a permit.
LEMMA TaskPermitFacts ==
  ASSUME Shape, NEW i \in Slots, TaskPermit(i)
  PROVE  /\ Shape'
         /\ UNCHANGED <<policy, now, mem, disk, fenced, run, armed, decided, held, failed, worker,
                      queue, hd, edit, undone, owed, recorded, cleared, left>>
         /\ ex[i].task = "permit" /\ OtherRecords(i) /\ RecordKept(i)
         /\ \/ failed /\ ex'[i].task = "none" /\ ex'[i].st = ex[i].st /\ line' = Without({i})
            \/ ex'[i].task = "begin" /\ ex'[i].st = "running" /\ line' = line
<1>1. ex[i].task = "permit" /\ ex[i] \in Executions
  BY DEF TaskPermit, Shape
<1>2. UNCHANGED <<policy, now, mem, disk, fenced, run, armed, decided, held, failed, worker,
                  queue, hd, edit, undone, owed, recorded, cleared, left>>
  BY DEF TaskPermit, lifeVars, recVars, fileVars, editVars, ghosts
<1>3. CASE ex[i].guard /\ failed
  <2> DEFINE e == [ex[i] EXCEPT !.task = "none"]
  <2>1. ex' = [ex EXCEPT ![i] = e] /\ line' = Without({i})
    BY <1>3 DEF TaskPermit, Ended
  <2>2. /\ e \in Executions /\ e.at = ex[i].at /\ e.rec = ex[i].rec /\ e.guard = ex[i].guard
        /\ e.row = ex[i].row /\ e.st = ex[i].st /\ e.task = "none"
    BY <1>1 DEF Executions, Tasks
  <2> HIDE DEF e
  <2>3. ex' \in [Slots -> Executions] /\ ex'[i] = e /\ OtherRecords(i)
    BY <2>1, <2>2, RecordSet
  <2>4. line' \in [DOMAIN line' -> SUBSET DOMAIN line'] /\ DOMAIN line' \subseteq Slots
    BY <2>1, LineShape
  <2>5. Shape'
    BY <1>1, <1>2, <2>3, <2>4 DEF Shape
  <2> QED
    BY <1>1, <1>2, <1>3, <2>1, <2>2, <2>3, <2>5 DEF RecordKept
<1>4. CASE ~(ex[i].guard /\ failed)
  <2> DEFINE e == [ex[i] EXCEPT !.st = "running", !.task = "begin"]
  <2>1. ex' = [ex EXCEPT ![i] = e] /\ line' = line
    BY <1>4 DEF TaskPermit, Shape, Executions
  <2>2. /\ e \in Executions /\ e.at = ex[i].at /\ e.rec = ex[i].rec /\ e.guard = ex[i].guard
        /\ e.row = ex[i].row /\ e.st = "running" /\ e.task = "begin"
    BY <1>1 DEF Executions, Tasks
  <2> HIDE DEF e
  <2>3. ex' \in [Slots -> Executions] /\ ex'[i] = e /\ OtherRecords(i)
    BY <2>1, <2>2, RecordSet
  <2>4. Shape'
    BY <1>2, <2>1, <2>3 DEF Shape
  <2> QED
    BY <1>1, <1>2, <2>1, <2>2, <2>3, <2>4 DEF RecordKept
<1> QED
  BY <1>3, <1>4

\* A task's row says that it runs.
LEMMA TaskBeginFacts ==
  ASSUME Shape, NEW i \in Slots, TaskBegin(i)
  PROVE  /\ Shape'
         /\ UNCHANGED <<policy, now, mem, disk, fenced, run, armed, decided, held, worker, queue,
                      hd, edit, undone, owed, recorded, cleared>>
         /\ ex[i].task = "begin" /\ OtherRecords(i) /\ RecordKept(i) /\ ex'[i].st = ex[i].st
         /\ failed => failed'
         /\ \/ failed' /\ ex'[i].task = "none" /\ line' = Without({i})
            \/ ex'[i].task = "work" /\ line' = line
<1>1. ex[i].task = "begin" /\ ex[i] \in Executions
  BY DEF TaskBegin, Shape
<1>2. PICK ok \in BOOLEAN, written \in BOOLEAN :
          /\ RowWrite(ok, written)
          /\ failed' = (failed \/ (ex[i].rec /\ ~ok))
          /\ IF ex[i].guard /\ failed'
             THEN Ended(i, [ex[i] EXCEPT !.task = "none"])
             ELSE ex' = [ex EXCEPT ![i].task = "work"] /\ UNCHANGED line
  BY DEF TaskBegin
<1>3. UNCHANGED <<policy, now, mem, disk, fenced, run, armed, decided, held, worker, queue, hd,
                  edit, undone, owed, recorded, cleared>>
  BY DEF TaskBegin, lifeVars, fileVars, editVars, ghosts
<1>4. left' \in [Kinds -> Nat] /\ failed' \in BOOLEAN /\ (failed => failed')
  BY <1>2, RowFacts DEF Shape
<1>5. CASE ex[i].guard /\ failed'
  <2> DEFINE e == [ex[i] EXCEPT !.task = "none"]
  <2>1. ex' = [ex EXCEPT ![i] = e] /\ line' = Without({i})
    BY <1>2, <1>5 DEF Ended
  <2>2. /\ e \in Executions /\ e.at = ex[i].at /\ e.rec = ex[i].rec /\ e.guard = ex[i].guard
        /\ e.row = ex[i].row /\ e.st = ex[i].st /\ e.task = "none"
    BY <1>1 DEF Executions, Tasks
  <2> HIDE DEF e
  <2>3. ex' \in [Slots -> Executions] /\ ex'[i] = e /\ OtherRecords(i)
    BY <2>1, <2>2, RecordSet
  <2>4. line' \in [DOMAIN line' -> SUBSET DOMAIN line'] /\ DOMAIN line' \subseteq Slots
    BY <2>1, LineShape
  <2>5. Shape'
    BY <1>1, <1>3, <1>4, <2>3, <2>4 DEF Shape
  <2> QED
    BY <1>1, <1>3, <1>4, <1>5, <2>1, <2>2, <2>3, <2>5 DEF RecordKept
<1>6. CASE ~(ex[i].guard /\ failed')
  <2> DEFINE e == [ex[i] EXCEPT !.task = "work"]
  <2>1. ex' = [ex EXCEPT ![i] = e] /\ line' = line
    BY <1>2, <1>6 DEF Shape, Executions
  <2>2. /\ e \in Executions /\ e.at = ex[i].at /\ e.rec = ex[i].rec /\ e.guard = ex[i].guard
        /\ e.row = ex[i].row /\ e.st = ex[i].st /\ e.task = "work"
    BY <1>1 DEF Executions, Tasks
  <2> HIDE DEF e
  <2>3. ex' \in [Slots -> Executions] /\ ex'[i] = e /\ OtherRecords(i)
    BY <2>1, <2>2, RecordSet
  <2>4. Shape'
    BY <1>3, <1>4, <2>1, <2>3 DEF Shape
  <2> QED
    BY <1>1, <1>3, <1>4, <2>1, <2>2, <2>3, <2>4 DEF RecordKept
<1> QED
  BY <1>5, <1>6

\* The workflow returns.
LEMMA TaskWorkFacts ==
  ASSUME Shape, NEW i \in Slots, TaskWork(i)
  PROVE  /\ Shape'
         /\ UNCHANGED <<policy, now, mem, disk, fenced, run, armed, decided, held, failed, worker,
                      queue, hd, line, edit, undone, owed, recorded, cleared, left>>
         /\ ex[i].task = "work" /\ OtherRecords(i)
         /\ ex'[i].task = "end" /\ RecordKept(i) /\ ex'[i].st = "done"
<1>1. ex[i].task = "work" /\ ex[i] \in Executions
  BY DEF TaskWork, Shape
<1> DEFINE e == [ex[i] EXCEPT !.st = "done", !.task = "end"]
<1>2. ex' = [ex EXCEPT ![i] = e]
  BY DEF TaskWork, Shape, Executions
<1>3. /\ e \in Executions /\ e.at = ex[i].at /\ e.rec = ex[i].rec /\ e.guard = ex[i].guard
      /\ e.row = ex[i].row /\ e.st = "done" /\ e.task = "end"
  BY <1>1 DEF Executions, Tasks
<1> HIDE DEF e
<1>4. ex' \in [Slots -> Executions] /\ ex'[i] = e /\ OtherRecords(i)
  BY <1>2, <1>3, RecordSet
<1>5. UNCHANGED <<policy, now, mem, disk, fenced, run, armed, decided, held, failed, worker,
                  queue, hd, line, edit, undone, owed, recorded, cleared, left>>
  BY DEF TaskWork, lifeVars, recVars, fileVars, editVars, ghosts
<1>6. Shape'
  BY <1>4, <1>5 DEF Shape
<1> QED
  BY <1>1, <1>3, <1>4, <1>5, <1>6 DEF RecordKept

\* The outcome is recorded, or the recovery is blocked.
LEMMA TaskEndFacts ==
  ASSUME Shape, NEW i \in Slots, TaskEnd(i)
  PROVE  /\ Shape'
         /\ UNCHANGED <<policy, now, mem, disk, fenced, run, armed, decided, held, worker, queue,
                      hd, edit, undone, owed, cleared>>
         /\ ex[i].task = "end" /\ ex'[i] = Blank /\ OtherRecords(i) /\ line' = Without({i})
         /\ (failed => failed') /\ recorded \subseteq recorded'
         /\ ex[i].rec => failed' \/ ex[i].at \in recorded'
<1>1. ex[i].task = "end" /\ ex[i] \in Executions
  BY DEF TaskEnd, Shape
<1>2. PICK ok \in BOOLEAN, written \in BOOLEAN :
          /\ RowWrite(ok, written)
          /\ failed' = (failed \/ (ex[i].rec /\ ~ok))
          /\ recorded' = IF ex[i].rec /\ written THEN recorded \cup {ex[i].at} ELSE recorded
  BY DEF TaskEnd
<1>3. ex' = [ex EXCEPT ![i] = Blank] /\ line' = Without({i})
  BY DEF TaskEnd, Ended
<1>4. UNCHANGED <<policy, now, mem, disk, fenced, run, armed, decided, held, worker, queue, hd,
                  edit, undone, owed, cleared>>
  BY DEF TaskEnd, lifeVars, fileVars, editVars
<1>5. left' \in [Kinds -> Nat] /\ (ok => written)
  BY <1>2, RowFacts DEF Shape
<1>6. failed' \in BOOLEAN /\ (failed => failed') /\ (ex[i].rec => failed' \/ ok)
  BY <1>2 DEF Shape
<1>7. recorded \subseteq recorded' /\ (ex[i].rec /\ written => ex[i].at \in recorded')
  BY <1>2
<1>8. ex' \in [Slots -> Executions] /\ ex'[i] = Blank /\ OtherRecords(i)
  BY <1>3, RecordSet, FreshFacts
<1>9. line' \in [DOMAIN line' -> SUBSET DOMAIN line'] /\ DOMAIN line' \subseteq Slots
  BY <1>3, LineShape
<1>10. Shape'
  BY <1>4, <1>5, <1>6, <1>8, <1>9 DEF Shape
<1> QED
  BY <1>1, <1>3, <1>4, <1>5, <1>6, <1>7, <1>8, <1>10

\* An occurrence is released.
LEMMA GateFacts ==
  ASSUME Shape, Gate
  PROVE  /\ Shape'
         /\ UNCHANGED <<policy, now, mem, disk, fenced, run, armed, decided, held, failed, queue,
                      ex, line, edit, undone, owed, recorded, cleared, left>>
         /\ worker.pc = "gate" /\ armed /\ worker'.pc = "handle"
         /\ worker'.left = worker.left /\ worker'.at = worker.at /\ worker'.cp = worker.cp
         /\ worker'.to = worker.to
         /\ hd'["rec"].pc = "wait" /\ hd'["rec"].at = worker.at /\ hd'["rec"].to = -1
         /\ hd'["rec"].snap = NoSchedule /\ hd'["live"] = hd["live"]
<1>1. worker.pc = "gate" /\ armed /\ worker.at \in Int
  BY DEF Gate, Shape
<1>2. /\ worker' \in [pc : WorkerPCs, left : Int, at : Int, cp : Checkpoints, to : Int]
      /\ worker'.pc = "handle" /\ worker'.left = worker.left /\ worker'.at = worker.at
      /\ worker'.cp = worker.cp /\ worker'.to = worker.to
  BY DEF Gate, Shape, WorkerPCs
<1> DEFINE r == [Idle EXCEPT !.pc = "wait", !.at = worker.at]
<1>3. /\ r \in HandlerStates /\ r.pc = "wait" /\ r.at = worker.at /\ r.to = -1
      /\ r.snap = NoSchedule
  BY <1>1, FreshFacts DEF HandlerStates, HandlerPCs
<1>4. hd' = [hd EXCEPT !["rec"] = r]
  BY DEF Gate
<1> HIDE DEF r
<1>5. hd' \in [Handlers -> HandlerStates] /\ hd'["rec"] = r /\ hd'["live"] = hd["live"]
  BY <1>3, <1>4, HandlerSet DEF Handlers, OtherHandler
<1>6. UNCHANGED <<policy, now, mem, disk, fenced, run, armed, decided, held, failed, queue, ex,
                  line, edit, undone, owed, recorded, cleared, left>>
  BY DEF Gate, lifeVars, execVars, fileVars, editVars, ghosts
<1>7. Shape'
  BY <1>2, <1>5, <1>6 DEF Shape
<1> QED
  BY <1>1, <1>2, <1>3, <1>5, <1>6, <1>7

\* A blocked recovery ends.
LEMMA GiveUpFacts ==
  ASSUME Shape, GiveUp
  PROVE  /\ Shape'
         /\ UNCHANGED <<policy, now, mem, disk, fenced, run, armed, decided, held, failed, queue,
                      hd, ex, line, edit, undone, owed, recorded, cleared, left>>
         /\ failed /\ worker' = NoWorker
         /\ worker.pc = "gate" \/ (worker.pc = "handle" /\ hd["rec"].pc = "idle")
<1>1. /\ failed /\ worker' = NoWorker
      /\ worker.pc = "gate" \/ (worker.pc = "handle" /\ hd["rec"].pc = "idle")
  BY DEF GiveUp
<1>2. UNCHANGED <<policy, now, mem, disk, fenced, run, armed, decided, held, failed, queue, hd,
                  ex, line, edit, undone, owed, recorded, cleared, left>>
  BY DEF GiveUp, lifeVars, execVars, fileVars, editVars, ghosts
<1> QED
  BY <1>1, <1>2, FreshFacts DEF Shape

\* The next occurrence comes up.
LEMMA HandledFacts ==
  ASSUME Shape, Handled
  PROVE  /\ Shape'
         /\ UNCHANGED <<policy, now, mem, disk, fenced, run, armed, decided, held, failed, queue,
                      hd, ex, line, edit, undone, owed, recorded, cleared, left>>
         /\ worker.pc = "handle" /\ hd["rec"].pc = "idle" /\ ~failed
         /\ worker'.pc = IF worker.left = 1 THEN "release" ELSE "gate"
         /\ worker'.left = worker.left - 1 /\ worker'.at = worker.at + Interval
         /\ worker'.cp = worker.cp /\ worker'.to = worker.to
<1>1. worker.pc = "handle" /\ hd["rec"].pc = "idle" /\ ~failed
  BY DEF Handled
<1> DEFINE p == IF worker.left = 1 THEN "release" ELSE "gate"
<1>2. p \in WorkerPCs /\ Interval \in Int
  BY RecurringAssumption DEF WorkerPCs
<1>3. worker' = [worker EXCEPT !.pc = p, !.left = @ - 1, !.at = @ + Interval]
  BY DEF Handled
<1>4. worker'.pc = IF worker.left = 1 THEN "release" ELSE "gate"
  BY <1>3 DEF Shape
<1> HIDE DEF p
<1>5. /\ worker' \in [pc : WorkerPCs, left : Int, at : Int, cp : Checkpoints, to : Int]
      /\ worker'.left = worker.left - 1 /\ worker'.at = worker.at + Interval
      /\ worker'.cp = worker.cp /\ worker'.to = worker.to
  <2>1. worker.left - 1 \in Int /\ worker.at + Interval \in Int
    BY <1>2 DEF Shape
  <2> QED
    BY <1>2, <1>3, <2>1 DEF Shape
<1>6. UNCHANGED <<policy, now, mem, disk, fenced, run, armed, decided, held, failed, queue, hd,
                  ex, line, edit, undone, owed, recorded, cleared, left>>
  BY DEF Handled, lifeVars, execVars, fileVars, editVars, ghosts
<1>7. Shape'
  BY <1>5, <1>6 DEF Shape
<1> QED
  BY <1>1, <1>4, <1>5, <1>6, <1>7

\* All occurrences are handled.
LEMMA ReleaseFacts ==
  ASSUME Shape, Release
  PROVE  /\ Shape'
         /\ UNCHANGED <<policy, now, mem, disk, fenced, run, armed, decided, failed, queue, hd,
                      ex, line, edit, undone, owed, recorded, cleared, left>>
         /\ worker.pc = "release" /\ worker'.pc = "drain" /\ held' = FALSE
         /\ worker'.left = worker.left /\ worker'.at = worker.at /\ worker'.cp = worker.cp
         /\ worker'.to = worker.to
<1>1. worker.pc = "release" /\ held' = FALSE /\ held' \in BOOLEAN
  BY DEF Release
<1>2. /\ worker' \in [pc : WorkerPCs, left : Int, at : Int, cp : Checkpoints, to : Int]
      /\ worker'.pc = "drain" /\ worker'.left = worker.left /\ worker'.at = worker.at
      /\ worker'.cp = worker.cp /\ worker'.to = worker.to
  BY DEF Release, Shape, WorkerPCs
<1>3. UNCHANGED <<policy, now, mem, disk, fenced, run, armed, decided, failed, queue, hd, ex,
                  line, edit, undone, owed, recorded, cleared, left>>
  BY DEF Release, lifeVars, execVars, fileVars, editVars, ghosts
<1>4. Shape'
  BY <1>1, <1>2, <1>3 DEF Shape
<1> QED
  BY <1>1, <1>2, <1>3, <1>4

\* The worker reads the flag.
LEMMA DrainFacts ==
  ASSUME Shape, Drain
  PROVE  /\ Shape'
         /\ UNCHANGED <<policy, now, mem, disk, fenced, run, armed, decided, failed, queue, hd,
                      ex, line, edit, undone, owed, recorded, cleared, left>>
         /\ worker.pc = "drain"
         /\ \/ failed /\ worker' = NoWorker
            \/ /\ worker'.pc = "active"
               /\ worker'.left = worker.left /\ worker'.at = worker.at /\ worker'.cp = worker.cp
               /\ worker'.to = worker.to
<1>1. worker.pc = "drain"
  BY DEF Drain
<1>2. UNCHANGED <<policy, now, mem, disk, fenced, run, armed, decided, failed, queue, hd, ex,
                  line, edit, undone, owed, recorded, cleared, left>>
  BY DEF Drain, lifeVars, execVars, fileVars, editVars, ghosts
<1>3. CASE failed
  <2>1. worker' = NoWorker /\ held' = TRUE
    BY <1>3 DEF Drain
  <2> QED
    BY <1>1, <1>2, <1>3, <2>1, FreshFacts DEF Shape
<1>4. CASE ~failed
  <2>1. worker' = [worker EXCEPT !.pc = "active"] /\ held' = held
    BY <1>4 DEF Drain
  <2>2. /\ worker' \in [pc : WorkerPCs, left : Int, at : Int, cp : Checkpoints, to : Int]
        /\ worker'.pc = "active" /\ worker'.left = worker.left /\ worker'.at = worker.at
        /\ worker'.cp = worker.cp /\ worker'.to = worker.to
    BY <2>1 DEF Shape, WorkerPCs
  <2> QED
    BY <1>1, <1>2, <2>1, <2>2 DEF Shape
<1> QED
  BY <1>3, <1>4

\* The worker sees no recovered task.
LEMMA SeeActiveFacts ==
  ASSUME Shape, SeeActive
  PROVE  /\ Shape'
         /\ UNCHANGED <<policy, now, mem, disk, fenced, run, armed, decided, held, failed, queue,
                      hd, ex, line, edit, undone, owed, recorded, cleared, left>>
         /\ worker.pc = "active" /\ worker'.pc \in {"drain", "rest"}
         /\ worker'.pc = "rest" => \A i \in Slots : ex[i].rec => ~Active(i)
         /\ worker'.left = worker.left /\ worker'.at = worker.at /\ worker'.cp = worker.cp
         /\ worker'.to = worker.to
<1> DEFINE p == IF \E i \in Slots : ex[i].rec /\ Active(i) THEN "drain" ELSE "rest"
<1>1. worker.pc = "active" /\ worker' = [worker EXCEPT !.pc = p]
  BY DEF SeeActive
<1>2. p \in {"drain", "rest"} /\ (p = "rest" => \A i \in Slots : ex[i].rec => ~Active(i))
  OBVIOUS
<1> HIDE DEF p
<1>3. /\ worker' \in [pc : WorkerPCs, left : Int, at : Int, cp : Checkpoints, to : Int]
      /\ worker'.pc = p /\ worker'.left = worker.left /\ worker'.at = worker.at
      /\ worker'.cp = worker.cp /\ worker'.to = worker.to
  BY <1>1, <1>2 DEF Shape, WorkerPCs
<1>4. UNCHANGED <<policy, now, mem, disk, fenced, run, armed, decided, held, failed, queue, hd,
                  ex, line, edit, undone, owed, recorded, cleared, left>>
  BY DEF SeeActive, lifeVars, execVars, fileVars, editVars, ghosts
<1>5. Shape'
  BY <1>3, <1>4 DEF Shape
<1> QED
  BY <1>1, <1>2, <1>3, <1>4, <1>5

\* The worker sees the end of the batch.
LEMMA SeeUnfinishedFacts ==
  ASSUME Shape, SeeUnfinished
  PROVE  /\ Shape'
         /\ UNCHANGED <<policy, now, mem, disk, fenced, run, armed, decided, held, failed, queue,
                      hd, ex, line, edit, undone, owed, recorded, cleared, left>>
         /\ worker.pc = "rest"
         /\ \/ worker' = NoWorker
            \/ /\ worker'.pc = "drain"
               /\ worker'.left = worker.left /\ worker'.at = worker.at /\ worker'.cp = worker.cp
               /\ worker'.to = worker.to
            \/ /\ BatchEnded /\ worker'.pc = "clear" /\ worker'.cp = mem.pending
               /\ worker'.to = Later(mem.last, worker.cp.last)
               /\ worker'.left = worker.left /\ worker'.at = worker.at
<1>1. /\ worker.pc = "rest" /\ mem.pending \in Checkpoints /\ mem.last \in Int
      /\ worker.cp.last \in Int
  BY DEF SeeUnfinished, Shape, Schedules, Checkpoints
<1>2. UNCHANGED <<policy, now, mem, disk, fenced, run, armed, decided, held, failed, queue, hd,
                  ex, line, edit, undone, owed, recorded, cleared, left>>
  BY DEF SeeUnfinished, lifeVars, execVars, fileVars, editVars, ghosts
<1>3. CASE ~BatchEnded
  <2>1. worker' = [worker EXCEPT !.pc = "drain"]
    BY <1>3 DEF SeeUnfinished
  <2>2. /\ worker' \in [pc : WorkerPCs, left : Int, at : Int, cp : Checkpoints, to : Int]
        /\ worker'.pc = "drain" /\ worker'.left = worker.left /\ worker'.at = worker.at
        /\ worker'.cp = worker.cp /\ worker'.to = worker.to
    BY <2>1 DEF Shape, WorkerPCs
  <2>3. Shape'
    BY <1>2, <2>2 DEF Shape
  <2> QED
    BY <1>1, <1>2, <2>2, <2>3
<1>4. CASE BatchEnded /\ mem.pending = NoCheckpoint
  <2>1. worker' = NoWorker
    BY <1>4 DEF SeeUnfinished
  <2>2. Shape'
    BY <1>2, <2>1, FreshFacts DEF Shape
  <2> QED
    BY <1>1, <1>2, <2>1, <2>2
<1>5. CASE BatchEnded /\ mem.pending # NoCheckpoint
  <2> DEFINE to == Later(mem.last, worker.cp.last)
  <2>1. worker' = [worker EXCEPT !.pc = "clear", !.cp = mem.pending, !.to = to]
    BY <1>5 DEF SeeUnfinished
  <2>2. to \in Int
    BY <1>1, LaterFacts
  <2> HIDE DEF to
  <2>3. /\ worker' \in [pc : WorkerPCs, left : Int, at : Int, cp : Checkpoints, to : Int]
        /\ worker'.pc = "clear" /\ worker'.left = worker.left /\ worker'.at = worker.at
        /\ worker'.cp = mem.pending /\ worker'.to = to
    BY <1>1, <2>1, <2>2 DEF Shape, WorkerPCs
  <2>4. Shape'
    BY <1>2, <2>3 DEF Shape
  <2> QED
    BY <1>1, <1>2, <1>5, <2>3, <2>4 DEF to
<1> QED
  BY <1>3, <1>4, <1>5

\* The checkpoint is removed from the file.
LEMMA ClearFacts ==
  ASSUME Shape, Clear
  PROVE  /\ Shape'
         /\ UNCHANGED <<policy, now, mem, run, armed, decided, queue, hd, ex, line, edit, undone,
                      owed, recorded>>
         /\ worker.pc = "clear" /\ disk' \in Schedules
         /\ \/ disk' = disk
            \/ /\ disk.pending = worker.cp /\ disk'.pending = NoCheckpoint
               /\ disk'.last = Later(disk.last, worker.to)
         /\ cleared' = IF disk'.pending = NoCheckpoint /\ disk.pending = worker.cp
                       THEN cleared \cup {worker.cp} ELSE cleared
         /\ \/ worker' = NoWorker /\ failed' = TRUE
            \/ /\ worker'.pc = "forget" /\ failed' = failed
               /\ worker'.left = worker.left /\ worker'.at = worker.at /\ worker'.cp = worker.cp
               /\ worker'.to = worker.to
<1>1. /\ worker.pc = "clear" /\ worker.cp \in Checkpoints /\ worker.to \in Int
      /\ disk \in Schedules
  BY DEF Clear, Shape
<1>2. PICK ok \in BOOLEAN :
          /\ Persist(Completed(disk, worker.cp, worker.to), ok)
          /\ IF ok THEN worker' = [worker EXCEPT !.pc = "forget"] /\ UNCHANGED <<failed, held>>
             ELSE worker' = NoWorker /\ failed' = TRUE /\ held' = TRUE
  BY DEF Clear
<1>3. UNCHANGED <<policy, now, mem, run, armed, decided, queue, hd, ex, line, edit, undone,
                  owed, recorded>>
  BY DEF Clear, lifeVars, execVars, editVars
<1> DEFINE u == Completed(disk, worker.cp, worker.to)
<1>4. /\ u.ok <=> disk.pending = worker.cp
      /\ u.to \in Schedules
      /\ u.to.last = Later(disk.last, worker.to) /\ u.to.pending = NoCheckpoint
  BY <1>1, CompletedFacts
<1>5. /\ disk' = disk \/ (u.ok /\ disk' = u.to)
      /\ fenced' \in BOOLEAN /\ left' \in [Kinds -> Nat]
  BY <1>2, PersistFacts
<1> HIDE DEF u
<1>6. disk' \in Schedules
  BY <1>1, <1>4, <1>5
<1>7. \/ disk' = disk
      \/ /\ disk.pending = worker.cp /\ disk'.pending = NoCheckpoint
         /\ disk'.last = Later(disk.last, worker.to)
  BY <1>4, <1>5
<1>8. /\ cleared' = IF disk'.pending = NoCheckpoint /\ disk.pending = worker.cp
                    THEN cleared \cup {worker.cp} ELSE cleared
      /\ cleared' \subseteq Checkpoints
  BY <1>1 DEF Clear, Shape
<1>9. CASE ok
  <2>1. worker' = [worker EXCEPT !.pc = "forget"] /\ UNCHANGED <<failed, held>>
    BY <1>2, <1>9
  <2>2. /\ worker' \in [pc : WorkerPCs, left : Int, at : Int, cp : Checkpoints, to : Int]
        /\ worker'.pc = "forget" /\ worker'.left = worker.left /\ worker'.at = worker.at
        /\ worker'.cp = worker.cp /\ worker'.to = worker.to
    BY <2>1 DEF Shape, WorkerPCs
  <2>3. Shape'
    BY <1>3, <1>5, <1>6, <1>8, <2>1, <2>2 DEF Shape
  <2> QED
    BY <1>1, <1>3, <1>6, <1>7, <1>8, <2>1, <2>2, <2>3
<1>10. CASE ~ok
  <2>1. worker' = NoWorker /\ failed' = TRUE /\ held' = TRUE
    BY <1>2, <1>10
  <2>2. Shape'
    BY <1>3, <1>5, <1>6, <1>8, <2>1, FreshFacts DEF Shape
  <2> QED
    BY <1>1, <1>3, <1>6, <1>7, <1>8, <2>1, <2>2
<1> QED
  BY <1>9, <1>10

\* The checkpoint is removed from memory.
LEMMA ForgetFacts ==
  ASSUME Shape, Forget
  PROVE  /\ Shape'
         /\ UNCHANGED <<policy, now, disk, fenced, run, armed, decided, queue, hd, ex, line, edit,
                      undone, owed, recorded, cleared, left>>
         /\ worker.pc = "forget" /\ worker' = NoWorker
         /\ \/ mem' = mem /\ failed' = TRUE
            \/ /\ mem.pending = worker.cp /\ mem'.pending = NoCheckpoint /\ failed' = failed
               /\ mem'.last = Later(mem.last, worker.cp.last)
<1>1. /\ worker.pc = "forget" /\ worker' = NoWorker /\ worker.cp.last \in Int
      /\ mem.last \in Int /\ mem.enabled \in BOOLEAN
  BY DEF Forget, Shape, Schedules, Checkpoints
<1>2. UNCHANGED <<policy, now, disk, fenced, run, armed, decided, queue, hd, ex, line, edit,
                  undone, owed, recorded, cleared, left>>
  BY DEF Forget, lifeVars, execVars, fileVars, editVars, ghosts
<1>3. CASE mem.pending # worker.cp
  <2>1. mem' = mem /\ failed' = TRUE /\ held' = held
    BY <1>3 DEF Forget
  <2> QED
    BY <1>1, <1>2, <2>1, FreshFacts DEF Shape
<1>4. CASE mem.pending = worker.cp
  <2>1. /\ mem' = Schedule(Later(mem.last, worker.cp.last), NoCheckpoint, mem.enabled)
        /\ held' = FALSE /\ failed' = failed /\ held' \in BOOLEAN
    BY <1>4 DEF Forget
  <2>2. Later(mem.last, worker.cp.last) \in Int
    BY <1>1, LaterFacts
  <2>3. /\ mem' \in Schedules /\ mem'.pending = NoCheckpoint
        /\ mem'.last = Later(mem.last, worker.cp.last)
    BY <1>1, <2>1, <2>2, ScheduleFacts, FreshFacts
  <2>4. Shape'
    BY <1>1, <1>2, <2>1, <2>3, FreshFacts DEF Shape
  <2> QED
    BY <1>1, <1>2, <1>4, <2>1, <2>3, <2>4
<1> QED
  BY <1>3, <1>4

\* An operator arms the scheduler.
LEMMA ArmFacts ==
  ASSUME Shape, Arm
  PROVE  /\ Shape'
         /\ UNCHANGED <<policy, now, mem, disk, fenced, run, held, failed, worker, queue, hd, ex,
                      line, edit, undone, owed, recorded, cleared, left>>
         /\ armed' = TRUE /\ decided' = TRUE
BY DEF Arm, recVars, execVars, fileVars, editVars, ghosts, Shape

\* An operator disarms it.
LEMMA DisarmFacts ==
  ASSUME Shape, Disarm
  PROVE  /\ Shape'
         /\ UNCHANGED <<policy, now, mem, disk, fenced, run, decided, held, failed, worker, queue,
                      hd, ex, line, edit, undone, owed, recorded, cleared>>
         /\ armed' = FALSE
<1>1. left' \in [Kinds -> Nat]
  BY SpendType DEF Disarm, Shape
<1>2. armed' = FALSE /\ armed' \in BOOLEAN /\ UNCHANGED <<policy, now, mem, disk, fenced, run,
                                                          decided, held, failed, worker, queue,
                                                          hd, ex, line, edit, undone, owed,
                                                          recorded, cleared>>
  BY DEF Disarm, recVars, execVars, fileVars, editVars, ghosts
<1>3. Shape'
  BY <1>1, <1>2 DEF Shape
<1> QED
  BY <1>2, <1>3

\* An edit begins.
LEMMA SetEnabledFacts ==
  ASSUME Shape, SetEnabled
  PROVE  /\ Shape'
         /\ UNCHANGED <<policy, now, disk, fenced, run, armed, decided, held, failed, worker,
                      queue, hd, ex, line, undone, owed, recorded, cleared>>
         /\ run = "on" /\ edit.pc = "idle" /\ mem'.last = mem.last /\ mem'.pending = mem.pending
         /\ edit'.pc = "define" /\ edit'.prev = mem /\ edit'.snap = mem'
<1>1. /\ run = "on" /\ edit.pc = "idle" /\ mem' = [mem EXCEPT !.enabled = ~@]
      /\ edit' = [pc |-> "define", prev |-> mem, snap |-> mem'] /\ mem \in Schedules
  BY DEF SetEnabled, Shape
<1>2. mem' \in Schedules /\ mem'.last = mem.last /\ mem'.pending = mem.pending
  BY <1>1 DEF Schedules
<1>3. PICK m \in Schedules : m = mem'
  BY <1>2
<1>4. /\ edit' \in [pc : {"idle", "define", "replace", "undo"}, prev : Schedules, snap : Schedules]
      /\ edit'.pc = "define" /\ edit'.prev = mem /\ edit'.snap = m
  BY <1>1, <1>3
<1>5. left' \in [Kinds -> Nat]
  BY SpendType DEF SetEnabled, Shape
<1>6. UNCHANGED <<policy, now, disk, fenced, run, armed, decided, held, failed, worker, queue,
                  hd, ex, line, undone, owed, recorded, cleared>>
  BY DEF SetEnabled, lifeVars, recVars, execVars, fileVars, ghosts
<1>7. Shape'
  BY <1>2, <1>4, <1>5, <1>6 DEF Shape
<1> QED
  BY <1>1, <1>2, <1>3, <1>4, <1>6, <1>7

\* An edit writes the definition.
LEMMA DefineEnabledFacts ==
  ASSUME Shape, DefineEnabled
  PROVE  /\ Shape'
         /\ UNCHANGED <<policy, now, mem, run, armed, decided, held, failed, worker, queue, hd,
                      ex, line, undone, owed, recorded, cleared>>
         /\ edit.pc = "define" /\ edit'.pc = "replace" /\ edit'.prev = edit.prev
         /\ edit'.snap = edit.snap /\ Stored(edit.snap)
<1>1. edit.pc = "define" /\ edit.snap \in Schedules
  BY DEF DefineEnabled, Shape
<1>2. PICK ok \in BOOLEAN : Persist(Upsert(disk, edit.snap, TRUE), ok)
  BY DEF DefineEnabled
<1>3. Stored(edit.snap) /\ fenced' \in BOOLEAN /\ left' \in [Kinds -> Nat]
  BY <1>1, <1>2, StoredFacts
<1>4. /\ edit' \in [pc : {"idle", "define", "replace", "undo"}, prev : Schedules, snap : Schedules]
      /\ edit'.pc = "replace" /\ edit'.prev = edit.prev /\ edit'.snap = edit.snap
  BY DEF DefineEnabled, Shape
<1>5. UNCHANGED <<policy, now, mem, run, armed, decided, held, failed, worker, queue, hd, ex,
                  line, undone, owed, recorded, cleared>>
  BY DEF DefineEnabled, lifeVars, recVars, execVars, ghosts
<1>6. Shape'
  BY <1>3, <1>4, <1>5 DEF Shape, Stored
<1> QED
  BY <1>1, <1>3, <1>4, <1>5, <1>6

\* An edit writes the file from memory.
LEMMA ReplaceFileFacts ==
  ASSUME Shape, ReplaceFile
  PROVE  /\ Shape'
         /\ UNCHANGED <<policy, now, mem, run, armed, decided, held, failed, worker, queue, hd,
                      ex, line, undone, owed, recorded, cleared>>
         /\ edit.pc = "replace" /\ disk' \in {disk, mem}
         /\ \/ edit' = NoEdit
            \/ edit'.pc = "undo" /\ edit'.prev = edit.prev /\ edit'.snap = edit.snap
<1> DEFINE u == [ok |-> TRUE, to |-> mem]
<1>1. PICK ok \in BOOLEAN : Persist(u, ok) /\ edit' = IF ok THEN NoEdit ELSE [edit EXCEPT !.pc = "undo"]
  BY DEF ReplaceFile
<1>2. u.to = mem
  OBVIOUS
<1> HIDE DEF u
<1>3. disk' \in {disk, mem} /\ fenced' \in BOOLEAN /\ left' \in [Kinds -> Nat]
  BY <1>1, <1>2, PersistFacts
<1>4. disk' \in Schedules /\ edit.pc = "replace"
  BY <1>3 DEF ReplaceFile, Shape
<1>5. /\ edit' \in [pc : {"idle", "define", "replace", "undo"}, prev : Schedules, snap : Schedules]
      /\ \/ edit' = NoEdit
         \/ edit'.pc = "undo" /\ edit'.prev = edit.prev /\ edit'.snap = edit.snap
  BY <1>1, FreshFacts DEF Shape
<1>6. UNCHANGED <<policy, now, mem, run, armed, decided, held, failed, worker, queue, hd, ex,
                  line, undone, owed, recorded, cleared>>
  BY DEF ReplaceFile, lifeVars, recVars, execVars, ghosts
<1>7. Shape'
  BY <1>3, <1>4, <1>5, <1>6 DEF Shape
<1> QED
  BY <1>3, <1>4, <1>5, <1>6, <1>7

\* A failed edit is undone.
LEMMA UndoEnabledFacts ==
  ASSUME Shape, UndoEnabled
  PROVE  /\ Shape'
         /\ UNCHANGED <<policy, now, disk, fenced, run, armed, decided, held, failed, worker,
                      queue, hd, ex, line, owed, recorded, cleared, left>>
         /\ edit.pc = "undo" /\ mem' = edit.prev /\ edit' = NoEdit /\ undone' = TRUE
BY FreshFacts DEF UndoEnabled, lifeVars, recVars, execVars, fileVars, ghosts, Shape

\* The manager stops.
LEMMA StopBeginFacts ==
  ASSUME Shape, StopBegin
  PROVE  /\ Shape'
         /\ UNCHANGED <<policy, now, mem, disk, fenced, held, failed, queue, ex, line, edit,
                      undone, owed, recorded, cleared>>
         /\ run = "on" /\ run' = "stopping" /\ armed' = FALSE /\ decided' = FALSE
         /\ worker' = NoWorker /\ hd'["rec"] = Idle /\ hd'["live"] = hd["live"]
<1>1. /\ run = "on" /\ run' = "stopping" /\ armed' = FALSE /\ decided' = FALSE
      /\ worker' = NoWorker /\ hd' = [hd EXCEPT !["rec"] = Idle]
  BY DEF StopBegin
<1>2. hd' \in [Handlers -> HandlerStates] /\ hd'["rec"] = Idle /\ hd'["live"] = hd["live"]
  BY <1>1, HandlerSet, FreshFacts DEF Handlers, OtherHandler
<1>3. left' \in [Kinds -> Nat]
  BY SpendType DEF StopBegin, Shape
<1>4. UNCHANGED <<policy, now, mem, disk, fenced, held, failed, queue, ex, line, edit, undone,
                  owed, recorded, cleared>>
  BY DEF StopBegin, execVars, fileVars, editVars, ghosts
<1>5. Shape'
  BY <1>1, <1>2, <1>3, <1>4, FreshFacts DEF Shape
<1> QED
  BY <1>1, <1>2, <1>4, <1>5

\* Its tasks have ended.
LEMMA StopEndFacts ==
  ASSUME Shape, StopEnd
  PROVE  /\ Shape'
         /\ UNCHANGED <<policy, now, mem, disk, fenced, armed, decided, held, failed, worker,
                      edit, undone, owed, recorded, cleared, left>>
         /\ run = "stopping" /\ run' = "off" /\ queue' = <<>> /\ line' = NoLine
         /\ hd'["live"] = Idle /\ hd'["rec"] = hd["rec"]
         /\ \A i \in Slots : \/ ex'[i] = Blank
                             \/ ex'[i] = ex[i] /\ ~Active(i) /\ ex[i].st = "running"
<1>1. /\ run = "stopping" /\ run' = "off" /\ queue' = <<>> /\ line' = NoLine
      /\ hd' = [hd EXCEPT !["live"] = Idle]
      /\ ex' = [i \in Slots |-> IF Active(i) \/ ex[i].st # "running" THEN Blank ELSE ex[i]]
  BY DEF StopEnd
<1>2. hd' \in [Handlers -> HandlerStates] /\ hd'["live"] = Idle /\ hd'["rec"] = hd["rec"]
  BY <1>1, HandlerSet, FreshFacts DEF Handlers, OtherHandler
<1>3. /\ ex' \in [Slots -> Executions]
      /\ \A i \in Slots : \/ ex'[i] = Blank
                          \/ ex'[i] = ex[i] /\ ~Active(i) /\ ex[i].st = "running"
  BY <1>1, FreshFacts DEF Shape
<1>4. queue' \in Seq(Int)
  BY <1>1
<1>5. line' \in [DOMAIN line' -> SUBSET DOMAIN line'] /\ DOMAIN line' \subseteq Slots
  BY <1>1 DEF NoLine
<1>6. UNCHANGED <<policy, now, mem, disk, fenced, armed, decided, held, failed, worker, edit,
                  undone, owed, recorded, cleared, left>>
  BY DEF StopEnd, recVars, fileVars, editVars, ghosts
<1>7. Shape'
  BY <1>1, <1>2, <1>3, <1>4, <1>5, <1>6 DEF Shape
<1> QED
  BY <1>1, <1>2, <1>3, <1>6, <1>7

\* A new manager reads the file.
LEMMA RestartFacts ==
  ASSUME Shape, Restart
  PROVE  /\ Shape'
         /\ UNCHANGED <<policy, now, disk, owed, recorded, cleared>>
         /\ mem' = disk /\ run' = "off" /\ armed' = FALSE /\ decided' = FALSE
         /\ held' = FALSE /\ failed' = FALSE /\ queue' = <<>> /\ worker' = NoWorker
         /\ \A h \in Handlers : hd'[h] = Idle
         /\ \A i \in Slots : ex'[i] = Blank
         /\ line' = NoLine /\ edit' = NoEdit /\ undone' = FALSE
<1>1. Fresh
  BY DEF Restart, Die, Reload
<1>2. left' \in [Kinds -> Nat]
  BY SpendType DEF Restart, Die, Reload, Shape
<1>3. /\ mem' = disk /\ run' = "off" /\ armed' = FALSE /\ decided' = FALSE
      /\ held' = FALSE /\ failed' = FALSE /\ queue' = <<>> /\ worker' = NoWorker
      /\ hd' = [h \in Handlers |-> Idle] /\ ex' = [i \in Slots |-> Blank]
      /\ line' = NoLine /\ edit' = NoEdit /\ undone' = FALSE /\ fenced' = FALSE
      /\ UNCHANGED <<policy, now, disk, owed, recorded, cleared>>
  BY <1>1 DEF Fresh, ghosts
<1>4. hd' \in [Handlers -> HandlerStates] /\ ex' \in [Slots -> Executions]
  BY <1>3, FreshFacts
<1>5. queue' \in Seq(Int)
  BY <1>3
<1>6. line' \in [DOMAIN line' -> SUBSET DOMAIN line'] /\ DOMAIN line' \subseteq Slots
  BY <1>3 DEF NoLine
<1>7. Shape'
  BY <1>2, <1>3, <1>4, <1>5, <1>6, FreshFacts DEF Shape
<1>8. (\A h \in Handlers : hd'[h] = Idle) /\ (\A i \in Slots : ex'[i] = Blank)
  BY <1>3
<1> QED
  BY <1>3, <1>7, <1>8

\* Time passes.
LEMMA ClockFacts ==
  ASSUME Shape, Clock
  PROVE  /\ Shape'
         /\ UNCHANGED <<policy, mem, disk, fenced, run, armed, decided, held, failed, worker,
                      queue, hd, ex, line, edit, undone, owed, recorded, cleared>>
         /\ now' = now + 1
<1>1. now \in 0..MaxTime /\ now < MaxTime /\ now' = now + 1 /\ MaxTime \in Nat
  BY RecurringAssumption DEF Clock, Shape
<1>2. left' \in [Kinds -> Nat]
  BY SpendType DEF Clock, Shape
<1>3. now' \in 0..MaxTime
  BY <1>1
<1> QED
  BY <1>1, <1>2, <1>3 DEF Clock, lifeVars, recVars, execVars, fileVars, editVars, ghosts, Shape

\* Whole intervals fit into the time they are counted in.
LEMMA DivFacts ==
  ASSUME NEW x \in Nat, NEW d \in Nat \ {0}
  PROVE  /\ x \div d \in Nat /\ (x \div d) * d <= x /\ x \div d <= x
<1>1. x \div d \in Nat /\ (x \div d) * d <= x
  OBVIOUS
<1> DEFINE q == x \div d
<1>2. q \in Nat /\ q * d <= x
  BY <1>1
<1> HIDE DEF q
<1>3. q <= q * d
  BY <1>2
<1>4. q <= x
  BY <1>2, <1>3
<1> QED
  BY <1>1, <1>4 DEF q

\* The missed occurrences lie between the cursor and the present.
LEMMA MissedFacts ==
  ASSUME Shape, Dated
  PROVE  LET m == MissedCount(mem) IN
         /\ mem.last \in Int /\ mem.last >= -1 /\ mem.last <= now /\ now \in Nat
         /\ Interval \in Nat /\ Interval >= 1
         /\ m \in Nat /\ mem.last + m * Interval <= now /\ m <= now + 1
         /\ m # 0 => mem.last >= 0
<1>1. /\ mem.last \in Int /\ now \in Nat /\ Interval \in Nat \ {0} /\ Interval \in Nat
      /\ Interval >= 1
      /\ mem.last >= -1 /\ mem.last <= now
  BY RecurringAssumption DEF Shape, Schedules, Dated, DatedSchedule, Never
<1>2. CASE mem.last = Never
  <2>1. MissedCount(mem) = 0
    BY <1>2 DEF MissedCount
  <2> QED
    BY <1>1, <2>1
<1>3. CASE mem.last # Never
  <2>1. mem.last >= 0 /\ now - mem.last \in Nat
    BY <1>1, <1>3 DEF Never
  <2>2. MissedCount(mem) = (now - mem.last) \div Interval
    BY <1>3 DEF MissedCount
  <2> DEFINE m == MissedCount(mem)
  <2>3. m \in Nat /\ m * Interval <= now - mem.last /\ m <= now - mem.last
    BY <1>1, <2>1, <2>2, DivFacts
  <2> HIDE DEF m
  <2>4. m * Interval \in Int
    BY <1>1, <2>3
  <2>5. mem.last + m * Interval <= now /\ m <= now + 1
    BY <1>1, <2>1, <2>3, <2>4
  <2> QED
    BY <1>1, <2>1, <2>3, <2>5 DEF m
<1> QED
  BY <1>2, <1>3

\* Skipping moves the cursor on, to an occurrence that is not of the future.
LEMMA AdvancedFacts ==
  ASSUME Shape, Dated
  PROVE  Advanced(mem) \in Int /\ mem.last <= Advanced(mem) /\ Advanced(mem) <= now
<1> DEFINE m == MissedCount(mem)
<1>1. /\ mem.last \in Int /\ mem.last <= now /\ now \in Nat /\ Interval \in Nat
      /\ m \in Nat /\ mem.last + m * Interval <= now
  BY MissedFacts
<1>2. Advanced(mem) = mem.last + m * Interval \/ Advanced(mem) = mem.last
  BY DEF Advanced
<1> HIDE DEF m
<1>3. m * Interval \in Nat
  BY <1>1
<1> QED
  BY <1>1, <1>2, <1>3

\* A planned checkpoint holds occurrences up to the present.
LEMMA PlannedFacts ==
  ASSUME Shape, Dated
  PROVE  DatedCheckpoint(Planned(mem), now)
<1> DEFINE m == MissedCount(mem)
<1>1. /\ mem.last \in Int /\ mem.last <= now /\ now \in Nat /\ Interval \in Nat /\ Interval >= 1
      /\ m \in Nat /\ mem.last + m * Interval <= now /\ m <= now + 1 /\ (m # 0 => mem.last >= 0)
  BY MissedFacts
<1>2. CASE Planned(mem) = mem.pending
  BY <1>2 DEF Dated, DatedSchedule
<1>3. CASE Planned(mem) = NoCheckpoint
  BY <1>3 DEF DatedCheckpoint
<1>4. CASE Planned(mem) = Checkpoint(now, 1)
  <2>1. /\ Planned(mem).first = now /\ Planned(mem).count = 1
        /\ Planned(mem).last = now + (1 - 1) * Interval
    BY <1>4 DEF Checkpoint
  <2>2. now + (1 - 1) * Interval = now
    BY <1>1
  <2> QED
    BY <1>1, <2>1, <2>2 DEF DatedCheckpoint
<1>5. CASE Planned(mem) = Checkpoint(mem.last + Interval, m) /\ m # 0
  <2>1. /\ Planned(mem).first = mem.last + Interval /\ Planned(mem).count = m
        /\ Planned(mem).last = mem.last + Interval + (m - 1) * Interval
    <3> HIDE DEF m
    <3> QED
      BY <1>5 DEF Checkpoint
  <2> HIDE DEF m
  <2>2. /\ mem.last + Interval + (m - 1) * Interval = mem.last + m * Interval
        /\ (m - 1) * Interval >= 0
    BY <1>1, <1>5
  <2>3. (m - 1) * Interval \in Int /\ m * Interval \in Int
    BY <1>1
  <2> QED
    BY <1>1, <1>5, <2>1, <2>2, <2>3 DEF DatedCheckpoint
<1> QED
  BY <1>2, <1>3, <1>4, <1>5 DEF Planned

\* What is not of the future stays so.
LEMMA DatedLater ==
  ASSUME NEW t \in Nat, NEW s \in Schedules, DatedSchedule(s, t)
  PROVE  DatedSchedule(s, t + 1)
<1>1. s.last \in Int /\ s.pending.last \in Int /\ s.pending.count \in Int
  BY DEF Schedules, Checkpoints
<1> QED
  BY <1>1 DEF DatedSchedule, DatedCheckpoint, Never

\* Nothing is not of the future.
LEMMA DatedNothing ==
  ASSUME NEW t \in Nat
  PROVE  DatedSchedule(NoSchedule, t) /\ DatedCheckpoint(NoCheckpoint, t)
BY FreshFacts DEF DatedSchedule, DatedCheckpoint, Never

\* A copy of the schedule that is stored is not of the future.
LEMMA DatedStored ==
  ASSUME Shape, NEW s \in Schedules, Stored(s), DatedSchedule(disk, now), DatedSchedule(s, now)
  PROVE  DatedSchedule(disk', now)
<1>1. /\ disk.last \in Int /\ s.last \in Int
  BY DEF Shape, Schedules
<1>2. Later(disk.last, s.last) \in {disk.last, s.last}
  BY <1>1, LaterFacts
<1> QED
  BY <1>2 DEF Stored, DatedSchedule

\* Multiplying keeps the order.
LEMMA ProductMonotone ==
  ASSUME NEW a \in Int, NEW b \in Int, NEW d \in Nat, a <= b
  PROVE  a * d <= b * d
<1>1. (b - a) * d >= 0
  OBVIOUS
<1> QED
  BY <1>1

\* An occurrence that the worker has still to release is not of the future, and the
\* last it released is the checkpoint's.
LEMMA AtFacts ==
  ASSUME Shape, Dated, WorkerRests, worker.pc # "none"
  PROVE  /\ worker.left # 0 => worker.at <= worker.cp.last /\ worker.at <= now
         /\ worker.left = 0 => worker.cp.last = worker.at - Interval
<1>1. /\ worker.at = worker.cp.first + (worker.cp.count - worker.left) * Interval
      /\ 0 <= worker.left /\ worker.left <= worker.cp.count /\ worker.cp # NoCheckpoint
  BY DEF WorkerRests
<1>2. /\ worker.cp.last = worker.cp.first + (worker.cp.count - 1) * Interval
      /\ worker.cp.last <= now
  BY <1>1 DEF Dated, DatedCheckpoint
<1>3. /\ worker.at \in Int /\ worker.left \in Int /\ worker.cp.first \in Int
      /\ worker.cp.count \in Int
      /\ worker.cp.last \in Int /\ Interval \in Nat /\ now \in Nat
  BY RecurringAssumption DEF Shape, Checkpoints
<1>4. ASSUME worker.left # 0
      PROVE  (worker.cp.count - worker.left) * Interval <= (worker.cp.count - 1) * Interval
  <2>1. worker.left >= 1
    BY <1>1, <1>3, <1>4
  <2>2. worker.cp.count - worker.left <= worker.cp.count - 1
    BY <1>3, <2>1
  <2> QED
    BY <1>3, <2>2, ProductMonotone
<1>5. worker.left # 0 => worker.at <= worker.cp.last
  BY <1>1, <1>2, <1>3, <1>4
<1>6. worker.left = 0 => worker.cp.last = worker.at - Interval
  BY <1>1, <1>2, <1>3
<1> QED
  BY <1>2, <1>3, <1>5, <1>6

----------------------------------------------------------------------------
(* Every step keeps every part of the invariant. *)

\* Every step keeps the shapes.
LEMMA StepShape ==
  ASSUME Shape, SlotRests, Next
  PROVE  Shape'
<1>1. ASSUME NEW h \in Handlers, Handler(h)
      PROVE  Shape'
  BY <1>1, AdmitFacts, ApplyFacts, CancelOneFacts, SkipFacts, SkipFileFacts, SkipRowFacts,
     RecordFacts, MoveCursorFacts, PersistCursorFacts, SpawnFacts DEF Handler
<1>2. ASSUME NEW i \in Slots, Task(i)
      PROVE  Shape'
  BY <1>2, TaskSerialFacts, TaskPermitFacts, TaskBeginFacts, TaskWorkFacts, TaskEndFacts
     DEF Task
<1>3. CASE Worker
  BY <1>3, GateFacts, GiveUpFacts, HandledFacts, ReleaseFacts, DrainFacts, SeeActiveFacts,
     SeeUnfinishedFacts, ClearFacts, ForgetFacts DEF Worker
<1>4. CASE \/ StartPlan \/ StartPersist \/ Evaluate \/ Explicit \/ Receive \/ Arm \/ Disarm
           \/ SetEnabled \/ DefineEnabled \/ ReplaceFile \/ UndoEnabled
           \/ StopBegin \/ StopEnd \/ Restart \/ Clock
  BY <1>4, StartPlanFacts, StartPersistFacts, EvaluateFacts, ExplicitFacts, ReceiveFacts,
     ArmFacts, DisarmFacts, SetEnabledFacts, DefineEnabledFacts, ReplaceFileFacts,
     UndoEnabledFacts, StopBeginFacts, StopEndFacts, RestartFacts, ClockFacts
<1> QED
  BY <1>1, <1>2, <1>3, <1>4 DEF Next, Restart

\* Every step keeps the runs and what works in them.
LEMMA StepLife ==
  ASSUME Shape, SlotRests, LifeRests, Next
  PROVE  LifeRests'
<1>1. ASSUME Evaluate \/ Explicit \/ Clock
      PROVE  LifeRests'
  <2>1. UNCHANGED <<run, armed, decided, worker, hd, ex, edit>>
    BY <1>1, EvaluateFacts, ExplicitFacts, ClockFacts
  <2> QED
    BY <2>1
       DEF LifeRests, RestoredWaitsForOperator, Active, Handlers, OtherHandler, OtherRecords,
           RecordKept, HandlerKept, Stored
<1>2. ASSUME StartPlan
      PROVE  LifeRests'
  BY <1>2, StartPlanFacts, FreshFacts
     DEF LifeRests, RestoredWaitsForOperator, Active, Handlers, OtherHandler, OtherRecords,
         RecordKept, HandlerKept, Stored
<1>3. ASSUME StartPersist
      PROVE  LifeRests'
  <2>1. /\ run = "starting" /\ worker.pc = "none" /\ hd["rec"].pc = "idle" /\ hd["live"].pc = "idle"
        /\ edit.pc = "idle" /\ \A i \in Slots : ex[i].task = "none"
    BY <1>3, StartPersistFacts DEF LifeRests, Active
  <2>2. UNCHANGED <<armed, decided, hd, ex, edit>>
    BY <1>3, StartPersistFacts
  <2>3. (run' = "off" /\ worker' = worker) \/ run' = "on"
    BY <1>3, StartPersistFacts
  <2> QED
    BY <2>1, <2>2, <2>3 DEF LifeRests, RestoredWaitsForOperator, Active
<1>4. ASSUME Receive
      PROVE  LifeRests'
  BY <1>4, ReceiveFacts, FreshFacts
     DEF LifeRests, RestoredWaitsForOperator, Active, Handlers, OtherHandler, OtherRecords,
         RecordKept, HandlerKept, Stored
<1>5. ASSUME NEW h \in Handlers, Admit(h)
      PROVE  LifeRests'
  BY <1>5, AdmitFacts, FreshFacts
     DEF LifeRests, RestoredWaitsForOperator, Active, Handlers, OtherHandler, OtherRecords,
         RecordKept, HandlerKept, Stored
<1>6. ASSUME NEW h \in Handlers, Apply(h)
      PROVE  LifeRests'
  BY <1>6, ApplyFacts, FreshFacts
     DEF LifeRests, RestoredWaitsForOperator, Active, Handlers, OtherHandler, OtherRecords,
         RecordKept, HandlerKept, Stored
<1>7. ASSUME NEW h \in Handlers, CancelOne(h)
      PROVE  LifeRests'
  BY <1>7, CancelOneFacts, FreshFacts
     DEF LifeRests, RestoredWaitsForOperator, Active, Handlers, OtherHandler, OtherRecords,
         RecordKept, HandlerKept, Stored
<1>8. ASSUME NEW h \in Handlers, Skip(h)
      PROVE  LifeRests'
  BY <1>8, SkipFacts, FreshFacts
     DEF LifeRests, RestoredWaitsForOperator, Active, Handlers, OtherHandler, OtherRecords,
         RecordKept, HandlerKept, Stored
<1>9. ASSUME NEW h \in Handlers, SkipFile(h)
      PROVE  LifeRests'
  BY <1>9, SkipFileFacts, FreshFacts
     DEF LifeRests, RestoredWaitsForOperator, Active, Handlers, OtherHandler, OtherRecords,
         RecordKept, HandlerKept, Stored
<1>10. ASSUME NEW h \in Handlers, SkipRow(h)
      PROVE  LifeRests'
  BY <1>10, SkipRowFacts, FreshFacts
     DEF LifeRests, RestoredWaitsForOperator, Active, Handlers, OtherHandler, OtherRecords,
         RecordKept, HandlerKept, Stored
<1>11. ASSUME NEW h \in Handlers, Record(h)
      PROVE  LifeRests'
  BY <1>11, RecordFacts, FreshFacts
     DEF LifeRests, RestoredWaitsForOperator, Active, Handlers, OtherHandler, OtherRecords,
         RecordKept, HandlerKept, Stored
<1>12. ASSUME NEW h \in Handlers, MoveCursor(h)
      PROVE  LifeRests'
  BY <1>12, MoveCursorFacts, FreshFacts
     DEF LifeRests, RestoredWaitsForOperator, Active, Handlers, OtherHandler, OtherRecords,
         RecordKept, HandlerKept, Stored
<1>13. ASSUME NEW h \in Handlers, PersistCursor(h)
      PROVE  LifeRests'
  BY <1>13, PersistCursorFacts, FreshFacts
     DEF LifeRests, RestoredWaitsForOperator, Active, Handlers, OtherHandler, OtherRecords,
         RecordKept, HandlerKept, Stored
<1>14. ASSUME NEW h \in Handlers, Spawn(h)
      PROVE  LifeRests'
  <2>1. PICK i \in Slots : i = hd[h].slot
    BY <1>14, SpawnFacts, SlotFacts
  <2>2. /\ UNCHANGED <<run, armed, decided, worker, edit>>
        /\ hd[h].pc = "row" /\ hd'[h].pc = "idle" /\ OtherHandler(h) /\ OtherRecords(i)
        /\ ex'[i].rec = ex[i].rec /\ ex[i].rec = (h = "rec")
    BY <1>14, SpawnFacts, <2>1, SlotFacts, FreshFacts
  <2>3. run \in {"on", "stopping"}
    BY <2>2 DEF LifeRests, Handlers, Shape
  <2>4. CASE h = "rec"
    <3>1. run = "on" /\ decided
      BY <2>2, <2>4 DEF LifeRests, RestoredWaitsForOperator
    <3>2. hd'["rec"].pc = "idle"
      BY <2>2, <2>4
    <3> QED
      BY <2>2, <3>1, <3>2 DEF LifeRests, RestoredWaitsForOperator
  <2>5. CASE h = "live"
    <3>1. hd'["rec"] = hd["rec"] /\ ~ex'[i].rec
      BY <2>2, <2>5 DEF OtherHandler, Handlers
    <3>2. \A j \in Slots : ex'[j].rec /\ ex'[j].task # "none" => ex[j].rec /\ ex[j].task # "none"
      BY <2>2, <3>1 DEF OtherRecords
    <3> QED
      BY <2>2, <2>3, <3>1, <3>2 DEF LifeRests, RestoredWaitsForOperator, Active
  <2> QED
    BY <2>4, <2>5 DEF Handlers
<1>15. ASSUME NEW i \in Slots, TaskSerial(i)
      PROVE  LifeRests'
  BY <1>15, TaskSerialFacts, FreshFacts
     DEF LifeRests, RestoredWaitsForOperator, Active, Handlers, OtherHandler, OtherRecords,
         RecordKept, HandlerKept, Stored
<1>16. ASSUME NEW i \in Slots, TaskPermit(i)
      PROVE  LifeRests'
  <2>1. \A j \in Slots : (ex'[j].rec <=> ex[j].rec) /\ (ex'[j].task # "none" => ex[j].task # "none")
    BY <1>16, TaskPermitFacts DEF OtherRecords, RecordKept
  <2>2. UNCHANGED <<run, armed, decided, worker, hd, edit>>
    BY <1>16, TaskPermitFacts
  <2> QED
    BY <2>1, <2>2 DEF LifeRests, RestoredWaitsForOperator, Active
<1>17. ASSUME NEW i \in Slots, TaskBegin(i)
      PROVE  LifeRests'
  <2>1. \A j \in Slots : (ex'[j].rec <=> ex[j].rec) /\ (ex'[j].task # "none" => ex[j].task # "none")
    BY <1>17, TaskBeginFacts DEF OtherRecords, RecordKept
  <2>2. UNCHANGED <<run, armed, decided, worker, hd, edit>>
    BY <1>17, TaskBeginFacts
  <2> QED
    BY <2>1, <2>2 DEF LifeRests, RestoredWaitsForOperator, Active
<1>18. ASSUME NEW i \in Slots, TaskWork(i)
      PROVE  LifeRests'
  BY <1>18, TaskWorkFacts, FreshFacts
     DEF LifeRests, RestoredWaitsForOperator, Active, Handlers, OtherHandler, OtherRecords,
         RecordKept, HandlerKept, Stored
<1>19. ASSUME NEW i \in Slots, TaskEnd(i)
      PROVE  LifeRests'
  BY <1>19, TaskEndFacts, FreshFacts
     DEF LifeRests, RestoredWaitsForOperator, Active, Handlers, OtherHandler, OtherRecords,
         RecordKept, HandlerKept, Stored
<1>20. ASSUME Gate
      PROVE  LifeRests'
  BY <1>20, GateFacts, FreshFacts
     DEF LifeRests, RestoredWaitsForOperator, Active, Handlers, OtherHandler, OtherRecords,
         RecordKept, HandlerKept, Stored
<1>21. ASSUME GiveUp
      PROVE  LifeRests'
  BY <1>21, GiveUpFacts, FreshFacts
     DEF LifeRests, RestoredWaitsForOperator, Active, Handlers, OtherHandler, OtherRecords,
         RecordKept, HandlerKept, Stored
<1>22. ASSUME Handled
      PROVE  LifeRests'
  BY <1>22, HandledFacts, FreshFacts
     DEF LifeRests, RestoredWaitsForOperator, Active, Handlers, OtherHandler, OtherRecords,
         RecordKept, HandlerKept, Stored
<1>23. ASSUME Release
      PROVE  LifeRests'
  BY <1>23, ReleaseFacts, FreshFacts
     DEF LifeRests, RestoredWaitsForOperator, Active, Handlers, OtherHandler, OtherRecords,
         RecordKept, HandlerKept, Stored
<1>24. ASSUME Drain
      PROVE  LifeRests'
  BY <1>24, DrainFacts, FreshFacts
     DEF LifeRests, RestoredWaitsForOperator, Active, Handlers, OtherHandler, OtherRecords,
         RecordKept, HandlerKept, Stored
<1>25. ASSUME SeeActive
      PROVE  LifeRests'
  BY <1>25, SeeActiveFacts, FreshFacts
     DEF LifeRests, RestoredWaitsForOperator, Active, Handlers, OtherHandler, OtherRecords,
         RecordKept, HandlerKept, Stored
<1>26. ASSUME SeeUnfinished
      PROVE  LifeRests'
  BY <1>26, SeeUnfinishedFacts, FreshFacts
     DEF LifeRests, RestoredWaitsForOperator, Active, Handlers, OtherHandler, OtherRecords,
         RecordKept, HandlerKept, Stored
<1>27. ASSUME Clear
      PROVE  LifeRests'
  BY <1>27, ClearFacts, FreshFacts
     DEF LifeRests, RestoredWaitsForOperator, Active, Handlers, OtherHandler, OtherRecords,
         RecordKept, HandlerKept, Stored
<1>28. ASSUME Forget
      PROVE  LifeRests'
  BY <1>28, ForgetFacts, FreshFacts
     DEF LifeRests, RestoredWaitsForOperator, Active, Handlers, OtherHandler, OtherRecords,
         RecordKept, HandlerKept, Stored
<1>29. ASSUME Arm
      PROVE  LifeRests'
  BY <1>29, ArmFacts, FreshFacts
     DEF LifeRests, RestoredWaitsForOperator, Active, Handlers, OtherHandler, OtherRecords,
         RecordKept, HandlerKept, Stored
<1>30. ASSUME Disarm
      PROVE  LifeRests'
  BY <1>30, DisarmFacts, FreshFacts
     DEF LifeRests, RestoredWaitsForOperator, Active, Handlers, OtherHandler, OtherRecords,
         RecordKept, HandlerKept, Stored
<1>31. ASSUME SetEnabled
      PROVE  LifeRests'
  BY <1>31, SetEnabledFacts, FreshFacts
     DEF LifeRests, RestoredWaitsForOperator, Active, Handlers, OtherHandler, OtherRecords,
         RecordKept, HandlerKept, Stored
<1>32. ASSUME DefineEnabled
      PROVE  LifeRests'
  BY <1>32, DefineEnabledFacts, FreshFacts
     DEF LifeRests, RestoredWaitsForOperator, Active, Handlers, OtherHandler, OtherRecords,
         RecordKept, HandlerKept, Stored
<1>33. ASSUME ReplaceFile
      PROVE  LifeRests'
  BY <1>33, ReplaceFileFacts, FreshFacts
     DEF LifeRests, RestoredWaitsForOperator, Active, Handlers, OtherHandler, OtherRecords,
         RecordKept, HandlerKept, Stored
<1>34. ASSUME UndoEnabled
      PROVE  LifeRests'
  BY <1>34, UndoEnabledFacts, FreshFacts
     DEF LifeRests, RestoredWaitsForOperator, Active, Handlers, OtherHandler, OtherRecords,
         RecordKept, HandlerKept, Stored
<1>35. ASSUME StopBegin
      PROVE  LifeRests'
  BY <1>35, StopBeginFacts, FreshFacts
     DEF LifeRests, RestoredWaitsForOperator, Active, Handlers, OtherHandler, OtherRecords,
         RecordKept, HandlerKept, Stored
<1>36. ASSUME StopEnd
      PROVE  LifeRests'
  BY <1>36, StopEndFacts, FreshFacts
     DEF LifeRests, RestoredWaitsForOperator, Active, Handlers, OtherHandler, OtherRecords,
         RecordKept, HandlerKept, Stored
<1>37. ASSUME Restart
      PROVE  LifeRests'
  BY <1>37, RestartFacts, FreshFacts
     DEF LifeRests, RestoredWaitsForOperator, Active, Handlers, OtherHandler, OtherRecords,
         RecordKept, HandlerKept, Stored
<1> QED
  BY <1>1, <1>2, <1>3, <1>4, <1>5, <1>6, <1>7, <1>8, <1>9, <1>10, <1>11, <1>12, <1>13, <1>14,
     <1>15, <1>16, <1>17, <1>18, <1>19, <1>20, <1>21, <1>22, <1>23, <1>24, <1>25, <1>26, <1>27,
     <1>28, <1>29, <1>30, <1>31, <1>32, <1>33, <1>34, <1>35, <1>36, <1>37
     DEF Next, Handler, Task, Worker, Restart

\* Every step keeps admission to one at a time.
LEMMA StepLock ==
  ASSUME Shape, SlotRests, LockRests, Next
  PROVE  LockRests'
<1>1. ASSUME StartPlan \/ StartPersist \/ Evaluate \/ Explicit \/ GiveUp \/ Handled \/ Release \/ Drain \/
             SeeActive \/ SeeUnfinished \/ Clear \/ Forget \/ Arm \/ Disarm \/ SetEnabled \/ DefineEnabled \/
             ReplaceFile \/ UndoEnabled \/ Clock
      PROVE  LockRests'
  <2>1. UNCHANGED <<hd>>
    BY <1>1, StartPlanFacts, StartPersistFacts, EvaluateFacts, ExplicitFacts, GiveUpFacts,
       HandledFacts, ReleaseFacts, DrainFacts, SeeActiveFacts, SeeUnfinishedFacts, ClearFacts,
       ForgetFacts, ArmFacts, DisarmFacts, SetEnabledFacts, DefineEnabledFacts,
       ReplaceFileFacts, UndoEnabledFacts, ClockFacts
  <2> QED
    BY <2>1 DEF LockRests, Locked, Handlers, OtherHandler
<1>2. ASSUME NEW i \in Slots, TaskSerial(i) \/ TaskPermit(i) \/ TaskBegin(i) \/ TaskWork(i) \/ TaskEnd(i)
      PROVE  LockRests'
  <2>1. UNCHANGED <<hd>>
    BY <1>2, TaskSerialFacts, TaskPermitFacts, TaskBeginFacts, TaskWorkFacts, TaskEndFacts
  <2> QED
    BY <2>1 DEF LockRests, Locked, Handlers, OtherHandler
<1>3. ASSUME Receive
      PROVE  LockRests'
  BY <1>3, ReceiveFacts, FreshFacts DEF LockRests, Locked, Handlers, OtherHandler
<1>4. ASSUME NEW h \in Handlers, Admit(h)
      PROVE  LockRests'
  BY <1>4, AdmitFacts, FreshFacts DEF LockRests, Locked, Handlers, OtherHandler
<1>5. ASSUME NEW h \in Handlers, Apply(h)
      PROVE  LockRests'
  BY <1>5, ApplyFacts, FreshFacts DEF LockRests, Locked, Handlers, OtherHandler
<1>6. ASSUME NEW h \in Handlers, CancelOne(h)
      PROVE  LockRests'
  BY <1>6, CancelOneFacts, FreshFacts DEF LockRests, Locked, Handlers, OtherHandler
<1>7. ASSUME NEW h \in Handlers, Skip(h)
      PROVE  LockRests'
  BY <1>7, SkipFacts, FreshFacts DEF LockRests, Locked, Handlers, OtherHandler
<1>8. ASSUME NEW h \in Handlers, SkipFile(h)
      PROVE  LockRests'
  BY <1>8, SkipFileFacts, FreshFacts DEF LockRests, Locked, Handlers, OtherHandler
<1>9. ASSUME NEW h \in Handlers, SkipRow(h)
      PROVE  LockRests'
  BY <1>9, SkipRowFacts, FreshFacts DEF LockRests, Locked, Handlers, OtherHandler
<1>10. ASSUME NEW h \in Handlers, Record(h)
      PROVE  LockRests'
  BY <1>10, RecordFacts, FreshFacts DEF LockRests, Locked, Handlers, OtherHandler
<1>11. ASSUME NEW h \in Handlers, MoveCursor(h)
      PROVE  LockRests'
  BY <1>11, MoveCursorFacts, FreshFacts DEF LockRests, Locked, Handlers, OtherHandler
<1>12. ASSUME NEW h \in Handlers, PersistCursor(h)
      PROVE  LockRests'
  BY <1>12, PersistCursorFacts, FreshFacts DEF LockRests, Locked, Handlers, OtherHandler
<1>13. ASSUME NEW h \in Handlers, Spawn(h)
      PROVE  LockRests'
  BY <1>13, SpawnFacts, FreshFacts DEF LockRests, Locked, Handlers, OtherHandler
<1>14. ASSUME Gate
      PROVE  LockRests'
  BY <1>14, GateFacts, FreshFacts DEF LockRests, Locked, Handlers, OtherHandler
<1>15. ASSUME StopBegin
      PROVE  LockRests'
  BY <1>15, StopBeginFacts, FreshFacts DEF LockRests, Locked, Handlers, OtherHandler
<1>16. ASSUME StopEnd
      PROVE  LockRests'
  BY <1>16, StopEndFacts, FreshFacts DEF LockRests, Locked, Handlers, OtherHandler
<1>17. ASSUME Restart
      PROVE  LockRests'
  BY <1>17, RestartFacts, FreshFacts DEF LockRests, Locked, Handlers, OtherHandler
<1> QED
  BY <1>1, <1>2, <1>3, <1>4, <1>5, <1>6, <1>7, <1>8, <1>9, <1>10, <1>11, <1>12, <1>13, <1>14,
     <1>15, <1>16, <1>17 DEF Next, Handler, Task, Worker, Restart

\* Every step keeps the checkpoint that a recovered trigger was admitted with.
LEMMA StepGuard ==
  ASSUME Shape, SlotRests, LifeRests, WorkerRests, GuardRests, Next
  PROVE  GuardRests'
<1>1. ASSUME StartPlan \/ StartPersist \/ Evaluate \/ Explicit \/ GiveUp \/ Handled \/ Release \/ Drain \/
             SeeActive \/ SeeUnfinished \/ Clear \/ Forget \/ Arm \/ Disarm \/ SetEnabled \/ DefineEnabled \/
             ReplaceFile \/ UndoEnabled \/ Clock
      PROVE  GuardRests'
  <2>1. UNCHANGED <<hd>>
    BY <1>1, StartPlanFacts, StartPersistFacts, EvaluateFacts, ExplicitFacts, GiveUpFacts,
       HandledFacts, ReleaseFacts, DrainFacts, SeeActiveFacts, SeeUnfinishedFacts, ClearFacts,
       ForgetFacts, ArmFacts, DisarmFacts, SetEnabledFacts, DefineEnabledFacts,
       ReplaceFileFacts, UndoEnabledFacts, ClockFacts
  <2> QED
    BY <2>1 DEF GuardRests, LifeRests, WorkerRests, Handlers, OtherHandler, HandlerKept
<1>2. ASSUME NEW i \in Slots, TaskSerial(i) \/ TaskPermit(i) \/ TaskBegin(i) \/ TaskWork(i) \/ TaskEnd(i)
      PROVE  GuardRests'
  <2>1. UNCHANGED <<hd>>
    BY <1>2, TaskSerialFacts, TaskPermitFacts, TaskBeginFacts, TaskWorkFacts, TaskEndFacts
  <2> QED
    BY <2>1 DEF GuardRests, LifeRests, WorkerRests, Handlers, OtherHandler, HandlerKept
<1>3. ASSUME Receive
      PROVE  GuardRests'
  BY <1>3, ReceiveFacts, FreshFacts
     DEF GuardRests, LifeRests, WorkerRests, Handlers, OtherHandler, HandlerKept
<1>4. ASSUME NEW h \in Handlers, Admit(h)
      PROVE  GuardRests'
  <2>1. CASE h = "rec"
    <3>1. worker.pc # "none" /\ worker.cp # NoCheckpoint
      BY <1>4, AdmitFacts, <2>1 DEF LifeRests, WorkerRests
    <3>2. CASE hd'["rec"] = Idle
      BY <3>2, FreshFacts DEF GuardRests
    <3>3. CASE hd'["rec"].snap = mem /\ mem.pending = worker.cp
      BY <3>1, <3>3 DEF GuardRests
    <3> QED
      BY <1>4, AdmitFacts, <2>1, <3>2, <3>3
  <2>2. CASE h = "live"
    BY <1>4, AdmitFacts, <2>2 DEF GuardRests, OtherHandler, Handlers
  <2> QED
    BY <2>1, <2>2 DEF Handlers
<1>5. ASSUME NEW h \in Handlers, Apply(h)
      PROVE  GuardRests'
  BY <1>5, ApplyFacts, FreshFacts
     DEF GuardRests, LifeRests, WorkerRests, Handlers, OtherHandler, HandlerKept
<1>6. ASSUME NEW h \in Handlers, CancelOne(h)
      PROVE  GuardRests'
  BY <1>6, CancelOneFacts, FreshFacts
     DEF GuardRests, LifeRests, WorkerRests, Handlers, OtherHandler, HandlerKept
<1>7. ASSUME NEW h \in Handlers, Skip(h)
      PROVE  GuardRests'
  BY <1>7, SkipFacts, FreshFacts
     DEF GuardRests, LifeRests, WorkerRests, Handlers, OtherHandler, HandlerKept
<1>8. ASSUME NEW h \in Handlers, SkipFile(h)
      PROVE  GuardRests'
  BY <1>8, SkipFileFacts, FreshFacts
     DEF GuardRests, LifeRests, WorkerRests, Handlers, OtherHandler, HandlerKept
<1>9. ASSUME NEW h \in Handlers, SkipRow(h)
      PROVE  GuardRests'
  BY <1>9, SkipRowFacts, FreshFacts
     DEF GuardRests, LifeRests, WorkerRests, Handlers, OtherHandler, HandlerKept
<1>10. ASSUME NEW h \in Handlers, Record(h)
      PROVE  GuardRests'
  BY <1>10, RecordFacts, FreshFacts
     DEF GuardRests, LifeRests, WorkerRests, Handlers, OtherHandler, HandlerKept
<1>11. ASSUME NEW h \in Handlers, MoveCursor(h)
      PROVE  GuardRests'
  BY <1>11, MoveCursorFacts, FreshFacts
     DEF GuardRests, LifeRests, WorkerRests, Handlers, OtherHandler, HandlerKept
<1>12. ASSUME NEW h \in Handlers, PersistCursor(h)
      PROVE  GuardRests'
  BY <1>12, PersistCursorFacts, FreshFacts
     DEF GuardRests, LifeRests, WorkerRests, Handlers, OtherHandler, HandlerKept
<1>13. ASSUME NEW h \in Handlers, Spawn(h)
      PROVE  GuardRests'
  BY <1>13, SpawnFacts, FreshFacts
     DEF GuardRests, LifeRests, WorkerRests, Handlers, OtherHandler, HandlerKept
<1>14. ASSUME Gate
      PROVE  GuardRests'
  BY <1>14, GateFacts, FreshFacts
     DEF GuardRests, LifeRests, WorkerRests, Handlers, OtherHandler, HandlerKept
<1>15. ASSUME StopBegin
      PROVE  GuardRests'
  BY <1>15, StopBeginFacts, FreshFacts
     DEF GuardRests, LifeRests, WorkerRests, Handlers, OtherHandler, HandlerKept
<1>16. ASSUME StopEnd
      PROVE  GuardRests'
  BY <1>16, StopEndFacts, FreshFacts
     DEF GuardRests, LifeRests, WorkerRests, Handlers, OtherHandler, HandlerKept
<1>17. ASSUME Restart
      PROVE  GuardRests'
  BY <1>17, RestartFacts, FreshFacts
     DEF GuardRests, LifeRests, WorkerRests, Handlers, OtherHandler, HandlerKept
<1> QED
  BY <1>1, <1>2, <1>3, <1>4, <1>5, <1>6, <1>7, <1>8, <1>9, <1>10, <1>11, <1>12, <1>13, <1>14,
     <1>15, <1>16, <1>17 DEF Next, Handler, Task, Worker, Restart

\* Every step keeps the worker's place in its checkpoint.
LEMMA StepWorker ==
  ASSUME Shape, SlotRests, Dated, LifeRests, WorkerRests, Next
  PROVE  WorkerRests'
<1>1. ASSUME Evaluate \/ Explicit \/ Receive \/ Arm \/ Disarm \/ StopEnd \/ Clock
      PROVE  WorkerRests'
  <2>1. UNCHANGED <<mem, worker, edit>>
    BY <1>1, EvaluateFacts, ExplicitFacts, ReceiveFacts, ArmFacts, DisarmFacts, StopEndFacts,
       ClockFacts
  <2> QED
    BY <2>1 DEF WorkerRests, LifeRests
<1>2. ASSUME NEW h \in Handlers, Admit(h) \/ Apply(h) \/ CancelOne(h) \/ SkipFile(h) \/ SkipRow(h) \/ Record(h) \/
             PersistCursor(h) \/ Spawn(h)
      PROVE  WorkerRests'
  <2>1. UNCHANGED <<mem, worker, edit>>
    BY <1>2, AdmitFacts, ApplyFacts, CancelOneFacts, SkipFileFacts, SkipRowFacts, RecordFacts,
       PersistCursorFacts, SpawnFacts
  <2> QED
    BY <2>1 DEF WorkerRests, LifeRests
<1>3. ASSUME NEW i \in Slots, TaskSerial(i) \/ TaskPermit(i) \/ TaskBegin(i) \/ TaskWork(i) \/ TaskEnd(i)
      PROVE  WorkerRests'
  <2>1. UNCHANGED <<mem, worker, edit>>
    BY <1>3, TaskSerialFacts, TaskPermitFacts, TaskBeginFacts, TaskWorkFacts, TaskEndFacts
  <2> QED
    BY <2>1 DEF WorkerRests, LifeRests
<1>4. ASSUME StartPlan
      PROVE  WorkerRests'
  BY <1>4, StartPlanFacts, FreshFacts DEF WorkerRests, LifeRests
<1>5. ASSUME StartPersist
      PROVE  WorkerRests'
  <2>1. run = "starting" /\ worker.pc = "none" /\ edit.pc = "idle"
    BY <1>5, StartPersistFacts DEF LifeRests
  <2>2. mem' = mem /\ edit' = edit
    BY <1>5, StartPersistFacts
  <2>3. CASE worker'.pc = "none"
    BY <2>3 DEF WorkerRests
  <2>4. CASE worker'.pc # "none"
    <3>1. /\ mem.pending # NoCheckpoint /\ worker'.pc = "gate" /\ worker'.left = mem.pending.count
          /\ worker'.at = mem.pending.first /\ worker'.cp = mem.pending
      BY <1>5, StartPersistFacts, <2>1, <2>4, FreshFacts
    <3>2. /\ mem.pending.count \in Int /\ mem.pending.first \in Int /\ mem.pending.count >= 1
          /\ Interval \in Nat
      BY <3>1, RecurringAssumption
         DEF Shape, Schedules, Checkpoints, Dated, DatedSchedule, DatedCheckpoint
    <3>3. mem.pending.first = mem.pending.first + (mem.pending.count - mem.pending.count) * Interval
      BY <3>2
    <3> QED
      BY <2>1, <2>2, <3>1, <3>2, <3>3 DEF WorkerRests
  <2> QED
    BY <2>3, <2>4
<1>6. ASSUME NEW h \in Handlers, Skip(h)
      PROVE  WorkerRests'
  BY <1>6, SkipFacts, FreshFacts DEF WorkerRests, LifeRests
<1>7. ASSUME NEW h \in Handlers, MoveCursor(h)
      PROVE  WorkerRests'
  BY <1>7, MoveCursorFacts, FreshFacts DEF WorkerRests, LifeRests
<1>8. ASSUME Gate
      PROVE  WorkerRests'
  BY <1>8, GateFacts, FreshFacts DEF WorkerRests, LifeRests
<1>9. ASSUME GiveUp
      PROVE  WorkerRests'
  BY <1>9, GiveUpFacts, FreshFacts DEF WorkerRests, LifeRests
<1>10. ASSUME Handled
      PROVE  WorkerRests'
  <2>1. /\ worker.cp # NoCheckpoint /\ mem.pending = worker.cp
        /\ edit.pc # "idle" => edit.prev.pending = worker.cp
        /\ worker.at = worker.cp.first + (worker.cp.count - worker.left) * Interval
        /\ 0 <= worker.left /\ worker.left <= worker.cp.count /\ worker.left # 0
    BY <1>10, HandledFacts DEF WorkerRests
  <2>2. /\ worker.left \in Int /\ worker.cp.count \in Int /\ worker.cp.first \in Int
        /\ worker.at \in Int /\ Interval \in Nat
    BY RecurringAssumption DEF Shape, Checkpoints
  <2>3. worker.at + Interval = worker.cp.first + (worker.cp.count - (worker.left - 1)) * Interval
    BY <2>1, <2>2
  <2>4. /\ worker'.left = worker.left - 1 /\ worker'.at = worker.at + Interval
        /\ worker'.cp = worker.cp /\ mem' = mem /\ edit' = edit
        /\ worker'.pc = IF worker.left = 1 THEN "release" ELSE "gate"
    BY <1>10, HandledFacts
  <2> QED
    BY <2>1, <2>2, <2>3, <2>4 DEF WorkerRests
<1>11. ASSUME Release
      PROVE  WorkerRests'
  BY <1>11, ReleaseFacts, FreshFacts DEF WorkerRests, LifeRests
<1>12. ASSUME Drain
      PROVE  WorkerRests'
  BY <1>12, DrainFacts, FreshFacts DEF WorkerRests, LifeRests
<1>13. ASSUME SeeActive
      PROVE  WorkerRests'
  BY <1>13, SeeActiveFacts, FreshFacts DEF WorkerRests, LifeRests
<1>14. ASSUME SeeUnfinished
      PROVE  WorkerRests'
  BY <1>14, SeeUnfinishedFacts, FreshFacts DEF WorkerRests, LifeRests
<1>15. ASSUME Clear
      PROVE  WorkerRests'
  BY <1>15, ClearFacts, FreshFacts DEF WorkerRests, LifeRests
<1>16. ASSUME Forget
      PROVE  WorkerRests'
  BY <1>16, ForgetFacts, FreshFacts DEF WorkerRests, LifeRests
<1>17. ASSUME SetEnabled
      PROVE  WorkerRests'
  BY <1>17, SetEnabledFacts, FreshFacts DEF WorkerRests, LifeRests
<1>18. ASSUME DefineEnabled
      PROVE  WorkerRests'
  BY <1>18, DefineEnabledFacts, FreshFacts DEF WorkerRests, LifeRests
<1>19. ASSUME ReplaceFile
      PROVE  WorkerRests'
  BY <1>19, ReplaceFileFacts, FreshFacts DEF WorkerRests, LifeRests
<1>20. ASSUME UndoEnabled
      PROVE  WorkerRests'
  BY <1>20, UndoEnabledFacts, FreshFacts DEF WorkerRests, LifeRests
<1>21. ASSUME StopBegin
      PROVE  WorkerRests'
  BY <1>21, StopBeginFacts, FreshFacts DEF WorkerRests, LifeRests
<1>22. ASSUME Restart
      PROVE  WorkerRests'
  BY <1>22, RestartFacts, FreshFacts DEF WorkerRests, LifeRests
<1> QED
  BY <1>1, <1>2, <1>3, <1>4, <1>5, <1>6, <1>7, <1>8, <1>9, <1>10, <1>11, <1>12, <1>13, <1>14,
     <1>15, <1>16, <1>17, <1>18, <1>19, <1>20, <1>21, <1>22
     DEF Next, Handler, Task, Worker, Restart

\* Every step keeps the record that is being admitted.
LEMMA StepSlot ==
  ASSUME Shape, LifeRests, LockRests, GuardRests, CancelRests, SlotRests, Next
  PROVE  SlotRests'
<1>1. ASSUME StartPlan \/ StartPersist \/ Evaluate \/ Explicit \/ GiveUp \/ Handled \/ Release \/ Drain \/
             SeeActive \/ SeeUnfinished \/ Clear \/ Forget \/ Arm \/ Disarm \/ SetEnabled \/ DefineEnabled \/
             ReplaceFile \/ UndoEnabled \/ Clock
      PROVE  SlotRests'
  <2>1. UNCHANGED <<hd, ex>>
    BY <1>1, StartPlanFacts, StartPersistFacts, EvaluateFacts, ExplicitFacts, GiveUpFacts,
       HandledFacts, ReleaseFacts, DrainFacts, SeeActiveFacts, SeeUnfinishedFacts, ClearFacts,
       ForgetFacts, ArmFacts, DisarmFacts, SetEnabledFacts, DefineEnabledFacts,
       ReplaceFileFacts, UndoEnabledFacts, ClockFacts
  <2> QED
    BY <2>1
       DEF SlotRests, Handlers, OtherHandler, HandlerKept, OtherRecords, RecordKept, Active,
           LockRests
<1>2. ASSUME Receive
      PROVE  SlotRests'
  BY <1>2, ReceiveFacts, FreshFacts, SlotFacts
     DEF SlotRests, Handlers, OtherHandler, HandlerKept, OtherRecords, RecordKept, Active,
         LockRests
<1>3. ASSUME NEW h \in Handlers, Admit(h)
      PROVE  SlotRests'
  <2>1. /\ hd'[h].pc \in {"idle", "policy"} /\ OtherHandler(h) /\ ex' = ex
    BY <1>3, AdmitFacts, FreshFacts
  <2> QED
    BY <2>1 DEF SlotRests, OtherHandler
<1>4. ASSUME NEW h \in Handlers, Apply(h)
      PROVE  SlotRests'
  BY <1>4, ApplyFacts, FreshFacts, SlotFacts
     DEF SlotRests, Handlers, OtherHandler, HandlerKept, OtherRecords, RecordKept, Active,
         LockRests
<1>5. ASSUME NEW h \in Handlers, CancelOne(h)
      PROVE  SlotRests'
  BY <1>5, CancelOneFacts, FreshFacts, SlotFacts
     DEF SlotRests, Handlers, OtherHandler, HandlerKept, OtherRecords, RecordKept, Active,
         LockRests
<1>6. ASSUME NEW h \in Handlers, Skip(h)
      PROVE  SlotRests'
  BY <1>6, SkipFacts, FreshFacts, SlotFacts
     DEF SlotRests, Handlers, OtherHandler, HandlerKept, OtherRecords, RecordKept, Active,
         LockRests
<1>7. ASSUME NEW h \in Handlers, SkipFile(h)
      PROVE  SlotRests'
  BY <1>7, SkipFileFacts, FreshFacts, SlotFacts
     DEF SlotRests, Handlers, OtherHandler, HandlerKept, OtherRecords, RecordKept, Active,
         LockRests
<1>8. ASSUME NEW h \in Handlers, SkipRow(h)
      PROVE  SlotRests'
  BY <1>8, SkipRowFacts, FreshFacts, SlotFacts
     DEF SlotRests, Handlers, OtherHandler, HandlerKept, OtherRecords, RecordKept, Active,
         LockRests
<1>9. ASSUME NEW h \in Handlers, Record(h)
      PROVE  SlotRests'
  <2>1. PICK i \in Slots : /\ hd'[h].slot = i /\ ex[i] = Blank /\ OtherRecords(i)
                          /\ ex'[i].at = hd[h].at /\ ex'[i].rec = (h = "rec")
                          /\ ex'[i].guard = (hd[h].snap.pending # NoCheckpoint)
                          /\ ex'[i].st = "pending" /\ ex'[i].task = "none"
    BY <1>9, RecordFacts
  <2>2. /\ hd[h].pc = "record" /\ hd'[h].pc = "cursor" /\ OtherHandler(h) /\ hd'[h].at = hd[h].at
    BY <1>9, RecordFacts
  <2>3. h = "rec" => ex'[i].guard
    BY <2>1, <2>2 DEF GuardRests
  <2>4. \A g \in Handlers : g # h => hd'[g].pc \in {"idle", "wait"}
    BY <2>2 DEF LockRests, Handlers, OtherHandler
  <2>5. \A g \in Handlers : hd'[g].pc \in {"cursor", "file", "row"} => g = h
    BY <2>4
  <2> QED
    BY <2>1, <2>2, <2>3, <2>5 DEF SlotRests
<1>10. ASSUME NEW h \in Handlers, MoveCursor(h)
      PROVE  SlotRests'
  BY <1>10, MoveCursorFacts, FreshFacts, SlotFacts
     DEF SlotRests, Handlers, OtherHandler, HandlerKept, OtherRecords, RecordKept, Active,
         LockRests
<1>11. ASSUME NEW h \in Handlers, PersistCursor(h)
      PROVE  SlotRests'
  BY <1>11, PersistCursorFacts, FreshFacts, SlotFacts
     DEF SlotRests, Handlers, OtherHandler, HandlerKept, OtherRecords, RecordKept, Active,
         LockRests
<1>12. ASSUME NEW h \in Handlers, Spawn(h)
      PROVE  SlotRests'
  BY <1>12, SpawnFacts, FreshFacts, SlotFacts
     DEF SlotRests, Handlers, OtherHandler, HandlerKept, OtherRecords, RecordKept, Active,
         LockRests
<1>13. ASSUME NEW i \in Slots, TaskSerial(i)
      PROVE  SlotRests'
  BY <1>13, TaskSerialFacts, FreshFacts, SlotFacts
     DEF SlotRests, Handlers, OtherHandler, HandlerKept, OtherRecords, RecordKept, Active,
         LockRests
<1>14. ASSUME NEW i \in Slots, TaskPermit(i)
      PROVE  SlotRests'
  <2>1. ex[i].task # "none" /\ OtherRecords(i) /\ hd' = hd
    BY <1>14, TaskPermitFacts
  <2>2. \A g \in Handlers : hd[g].pc \in {"cursor", "file", "row"} => hd[g].slot # i
    BY <2>1, SlotFacts
  <2> QED
    BY <2>1, <2>2 DEF SlotRests, OtherRecords
<1>15. ASSUME NEW i \in Slots, TaskBegin(i)
      PROVE  SlotRests'
  <2>1. ex[i].task # "none" /\ OtherRecords(i) /\ hd' = hd
    BY <1>15, TaskBeginFacts
  <2>2. \A g \in Handlers : hd[g].pc \in {"cursor", "file", "row"} => hd[g].slot # i
    BY <2>1, SlotFacts
  <2> QED
    BY <2>1, <2>2 DEF SlotRests, OtherRecords
<1>16. ASSUME NEW i \in Slots, TaskWork(i)
      PROVE  SlotRests'
  BY <1>16, TaskWorkFacts, FreshFacts, SlotFacts
     DEF SlotRests, Handlers, OtherHandler, HandlerKept, OtherRecords, RecordKept, Active,
         LockRests
<1>17. ASSUME NEW i \in Slots, TaskEnd(i)
      PROVE  SlotRests'
  <2>1. ex[i].task # "none" /\ OtherRecords(i) /\ hd' = hd
    BY <1>17, TaskEndFacts
  <2>2. \A g \in Handlers : hd[g].pc \in {"cursor", "file", "row"} => hd[g].slot # i
    BY <2>1, SlotFacts
  <2> QED
    BY <2>1, <2>2 DEF SlotRests, OtherRecords
<1>18. ASSUME Gate
      PROVE  SlotRests'
  BY <1>18, GateFacts, FreshFacts, SlotFacts
     DEF SlotRests, Handlers, OtherHandler, HandlerKept, OtherRecords, RecordKept, Active,
         LockRests
<1>19. ASSUME StopBegin
      PROVE  SlotRests'
  BY <1>19, StopBeginFacts, FreshFacts, SlotFacts
     DEF SlotRests, Handlers, OtherHandler, HandlerKept, OtherRecords, RecordKept, Active,
         LockRests
<1>20. ASSUME StopEnd
      PROVE  SlotRests'
  <2>1. hd'["live"].pc = "idle" /\ hd'["rec"].pc = "idle"
    BY <1>20, StopEndFacts, FreshFacts DEF LifeRests
  <2> QED
    BY <2>1 DEF SlotRests, Handlers
<1>21. ASSUME Restart
      PROVE  SlotRests'
  BY <1>21, RestartFacts, FreshFacts, SlotFacts
     DEF SlotRests, Handlers, OtherHandler, HandlerKept, OtherRecords, RecordKept, Active,
         LockRests
<1> QED
  BY <1>1, <1>2, <1>3, <1>4, <1>5, <1>6, <1>7, <1>8, <1>9, <1>10, <1>11, <1>12, <1>13, <1>14,
     <1>15, <1>16, <1>17, <1>18, <1>19, <1>20, <1>21 DEF Next, Handler, Task, Worker, Restart

\* Every step keeps cancelled tasks gone.
LEMMA StepCancel ==
  ASSUME Shape, SlotRests, LifeRests, LockRests, CancelRests, Next
  PROVE  CancelRests'
<1>1. ASSUME StartPlan \/ Evaluate \/ Explicit \/ GiveUp \/ Handled \/ Release \/ Drain \/ SeeActive \/
             SeeUnfinished \/ Arm \/ Disarm \/ SetEnabled \/ DefineEnabled \/ ReplaceFile \/ UndoEnabled \/
             Clock
      PROVE  CancelRests'
  <2>1. UNCHANGED <<failed, hd, ex>>
    BY <1>1, StartPlanFacts, EvaluateFacts, ExplicitFacts, GiveUpFacts, HandledFacts,
       ReleaseFacts, DrainFacts, SeeActiveFacts, SeeUnfinishedFacts, ArmFacts, DisarmFacts,
       SetEnabledFacts, DefineEnabledFacts, ReplaceFileFacts, UndoEnabledFacts, ClockFacts
  <2> QED
    BY <2>1
       DEF CancelRests, Handlers, OtherHandler, HandlerKept, OtherRecords, RecordKept, Active,
           LockRests
<1>2. ASSUME StartPersist
      PROVE  CancelRests'
  <2>1. hd["live"].pc = "idle" /\ hd["rec"].pc = "idle" /\ hd' = hd
    BY <1>2, StartPersistFacts DEF LifeRests
  <2> QED
    BY <2>1 DEF CancelRests, Handlers
<1>3. ASSUME Receive
      PROVE  CancelRests'
  BY <1>3, ReceiveFacts, FreshFacts
     DEF CancelRests, Handlers, OtherHandler, HandlerKept, OtherRecords, RecordKept, Active,
         LockRests
<1>4. ASSUME NEW h \in Handlers, Admit(h)
      PROVE  CancelRests'
  <2>1. /\ hd'[h].pc # "cancel" /\ OtherHandler(h) /\ ex' = ex /\ (failed => failed')
    BY <1>4, AdmitFacts, FreshFacts
  <2> QED
    BY <2>1 DEF CancelRests, OtherHandler
<1>5. ASSUME NEW h \in Handlers, Apply(h)
      PROVE  CancelRests'
  BY <1>5, ApplyFacts, FreshFacts
     DEF CancelRests, Handlers, OtherHandler, HandlerKept, OtherRecords, RecordKept, Active,
         LockRests
<1>6. ASSUME NEW h \in Handlers, CancelOne(h)
      PROVE  CancelRests'
  <2>1. PICK i \in Slots : /\ i \in hd[h].taken /\ hd'[h].taken = hd[h].taken \ {i}
                          /\ ex'[i] = Blank /\ OtherRecords(i)
    BY <1>6, CancelOneFacts
  <2>2. /\ hd[h].pc = "cancel" /\ OtherHandler(h) /\ (failed => failed')
        /\ hd[h].taken \subseteq Slots
    BY <1>6, CancelOneFacts DEF Shape, HandlerStates
  <2>3. \A j \in hd'[h].taken : ex'[j].task = "none" /\ (ex'[j].rec => failed')
    BY <2>1, <2>2 DEF CancelRests, OtherRecords
  <2>4. \A g \in Handlers : g # h => hd'[g].pc # "cancel"
    BY <2>2 DEF LockRests, Handlers, OtherHandler
  <2> QED
    BY <2>3, <2>4 DEF CancelRests
<1>7. ASSUME NEW h \in Handlers, Skip(h)
      PROVE  CancelRests'
  BY <1>7, SkipFacts, FreshFacts
     DEF CancelRests, Handlers, OtherHandler, HandlerKept, OtherRecords, RecordKept, Active,
         LockRests
<1>8. ASSUME NEW h \in Handlers, SkipFile(h)
      PROVE  CancelRests'
  BY <1>8, SkipFileFacts, FreshFacts
     DEF CancelRests, Handlers, OtherHandler, HandlerKept, OtherRecords, RecordKept, Active,
         LockRests
<1>9. ASSUME NEW h \in Handlers, SkipRow(h)
      PROVE  CancelRests'
  BY <1>9, SkipRowFacts, FreshFacts
     DEF CancelRests, Handlers, OtherHandler, HandlerKept, OtherRecords, RecordKept, Active,
         LockRests
<1>10. ASSUME NEW h \in Handlers, Record(h)
      PROVE  CancelRests'
  BY <1>10, RecordFacts, FreshFacts
     DEF CancelRests, Handlers, OtherHandler, HandlerKept, OtherRecords, RecordKept, Active,
         LockRests
<1>11. ASSUME NEW h \in Handlers, MoveCursor(h)
      PROVE  CancelRests'
  BY <1>11, MoveCursorFacts, FreshFacts
     DEF CancelRests, Handlers, OtherHandler, HandlerKept, OtherRecords, RecordKept, Active,
         LockRests
<1>12. ASSUME NEW h \in Handlers, PersistCursor(h)
      PROVE  CancelRests'
  BY <1>12, PersistCursorFacts, FreshFacts
     DEF CancelRests, Handlers, OtherHandler, HandlerKept, OtherRecords, RecordKept, Active,
         LockRests
<1>13. ASSUME NEW h \in Handlers, Spawn(h)
      PROVE  CancelRests'
  BY <1>13, SpawnFacts, FreshFacts
     DEF CancelRests, Handlers, OtherHandler, HandlerKept, OtherRecords, RecordKept, Active,
         LockRests
<1>14. ASSUME NEW i \in Slots, TaskSerial(i)
      PROVE  CancelRests'
  <2>1. ex[i].task # "none" /\ OtherRecords(i) /\ hd' = hd /\ (failed => failed')
    BY <1>14, TaskSerialFacts
  <2>2. \A g \in Handlers : hd[g].pc = "cancel" => hd[g].taken \subseteq Slots /\ i \notin hd[g].taken
    BY <2>1 DEF CancelRests, Shape, HandlerStates
  <2> QED
    BY <2>1, <2>2 DEF CancelRests, OtherRecords
<1>15. ASSUME NEW i \in Slots, TaskPermit(i)
      PROVE  CancelRests'
  <2>1. ex[i].task # "none" /\ OtherRecords(i) /\ hd' = hd /\ (failed => failed')
    BY <1>15, TaskPermitFacts
  <2>2. \A g \in Handlers : hd[g].pc = "cancel" => hd[g].taken \subseteq Slots /\ i \notin hd[g].taken
    BY <2>1 DEF CancelRests, Shape, HandlerStates
  <2> QED
    BY <2>1, <2>2 DEF CancelRests, OtherRecords
<1>16. ASSUME NEW i \in Slots, TaskBegin(i)
      PROVE  CancelRests'
  <2>1. ex[i].task # "none" /\ OtherRecords(i) /\ hd' = hd /\ (failed => failed')
    BY <1>16, TaskBeginFacts
  <2>2. \A g \in Handlers : hd[g].pc = "cancel" => hd[g].taken \subseteq Slots /\ i \notin hd[g].taken
    BY <2>1 DEF CancelRests, Shape, HandlerStates
  <2> QED
    BY <2>1, <2>2 DEF CancelRests, OtherRecords
<1>17. ASSUME NEW i \in Slots, TaskWork(i)
      PROVE  CancelRests'
  <2>1. ex[i].task # "none" /\ OtherRecords(i) /\ hd' = hd /\ (failed => failed')
    BY <1>17, TaskWorkFacts
  <2>2. \A g \in Handlers : hd[g].pc = "cancel" => hd[g].taken \subseteq Slots /\ i \notin hd[g].taken
    BY <2>1 DEF CancelRests, Shape, HandlerStates
  <2> QED
    BY <2>1, <2>2 DEF CancelRests, OtherRecords
<1>18. ASSUME NEW i \in Slots, TaskEnd(i)
      PROVE  CancelRests'
  <2>1. ex[i].task # "none" /\ OtherRecords(i) /\ hd' = hd /\ (failed => failed')
    BY <1>18, TaskEndFacts
  <2>2. \A g \in Handlers : hd[g].pc = "cancel" => hd[g].taken \subseteq Slots /\ i \notin hd[g].taken
    BY <2>1 DEF CancelRests, Shape, HandlerStates
  <2> QED
    BY <2>1, <2>2 DEF CancelRests, OtherRecords
<1>19. ASSUME Gate
      PROVE  CancelRests'
  BY <1>19, GateFacts, FreshFacts
     DEF CancelRests, Handlers, OtherHandler, HandlerKept, OtherRecords, RecordKept, Active,
         LockRests
<1>20. ASSUME Clear
      PROVE  CancelRests'
  <2>1. hd' = hd /\ ex' = ex
    BY <1>20, ClearFacts
  <2>2. failed' = TRUE \/ failed' = failed
    BY <1>20, ClearFacts
  <2>3. failed => failed'
    BY <2>2
  <2> QED
    BY <2>1, <2>3 DEF CancelRests
<1>21. ASSUME Forget
      PROVE  CancelRests'
  <2>1. hd' = hd /\ ex' = ex
    BY <1>21, ForgetFacts
  <2>2. failed' = TRUE \/ failed' = failed
    BY <1>21, ForgetFacts
  <2>3. failed => failed'
    BY <2>2
  <2> QED
    BY <2>1, <2>3 DEF CancelRests
<1>22. ASSUME StopBegin
      PROVE  CancelRests'
  BY <1>22, StopBeginFacts, FreshFacts
     DEF CancelRests, Handlers, OtherHandler, HandlerKept, OtherRecords, RecordKept, Active,
         LockRests
<1>23. ASSUME StopEnd
      PROVE  CancelRests'
  <2>1. hd'["live"].pc = "idle" /\ hd'["rec"].pc = "idle"
    BY <1>23, StopEndFacts, FreshFacts DEF LifeRests
  <2> QED
    BY <2>1 DEF CancelRests, Handlers
<1>24. ASSUME Restart
      PROVE  CancelRests'
  BY <1>24, RestartFacts, FreshFacts
     DEF CancelRests, Handlers, OtherHandler, HandlerKept, OtherRecords, RecordKept, Active,
         LockRests
<1> QED
  BY <1>1, <1>2, <1>3, <1>4, <1>5, <1>6, <1>7, <1>8, <1>9, <1>10, <1>11, <1>12, <1>13, <1>14,
     <1>15, <1>16, <1>17, <1>18, <1>19, <1>20, <1>21, <1>22, <1>23, <1>24
     DEF Next, Handler, Task, Worker, Restart

\* Every step keeps recovered tasks to records with a row.
LEMMA StepRow ==
  ASSUME Shape, SlotRests, RowRests, Next
  PROVE  RowRests'
<1>1. ASSUME StartPlan \/ StartPersist \/ Evaluate \/ Explicit \/ Receive \/ Gate \/ GiveUp \/ Handled \/
             Release \/ Drain \/ SeeActive \/ SeeUnfinished \/ Clear \/ Forget \/ Arm \/ Disarm \/ SetEnabled \/
             DefineEnabled \/ ReplaceFile \/ UndoEnabled \/ StopBegin \/ Clock
      PROVE  RowRests'
  <2>1. UNCHANGED <<ex>>
    BY <1>1, StartPlanFacts, StartPersistFacts, EvaluateFacts, ExplicitFacts, ReceiveFacts,
       GateFacts, GiveUpFacts, HandledFacts, ReleaseFacts, DrainFacts, SeeActiveFacts,
       SeeUnfinishedFacts, ClearFacts, ForgetFacts, ArmFacts, DisarmFacts, SetEnabledFacts,
       DefineEnabledFacts, ReplaceFileFacts, UndoEnabledFacts, StopBeginFacts, ClockFacts
  <2> QED
    BY <2>1 DEF RowRests, OtherRecords, RecordKept, Active
<1>2. ASSUME NEW h \in Handlers, Admit(h) \/ Skip(h) \/ SkipFile(h) \/ SkipRow(h) \/ MoveCursor(h) \/ PersistCursor(h)
      PROVE  RowRests'
  <2>1. UNCHANGED <<ex>>
    BY <1>2, AdmitFacts, SkipFacts, SkipFileFacts, SkipRowFacts, MoveCursorFacts,
       PersistCursorFacts
  <2> QED
    BY <2>1 DEF RowRests, OtherRecords, RecordKept, Active
<1>3. ASSUME NEW h \in Handlers, Apply(h)
      PROVE  RowRests'
  BY <1>3, ApplyFacts, FreshFacts DEF RowRests, OtherRecords, RecordKept, Active
<1>4. ASSUME NEW h \in Handlers, CancelOne(h)
      PROVE  RowRests'
  BY <1>4, CancelOneFacts, FreshFacts DEF RowRests, OtherRecords, RecordKept, Active
<1>5. ASSUME NEW h \in Handlers, Record(h)
      PROVE  RowRests'
  BY <1>5, RecordFacts, FreshFacts DEF RowRests, OtherRecords, RecordKept, Active
<1>6. ASSUME NEW h \in Handlers, Spawn(h)
      PROVE  RowRests'
  <2>1. PICK i \in Slots : i = hd[h].slot
    BY <1>6, SpawnFacts, SlotFacts
  <2>2. /\ ex[i].rec = (h = "rec") /\ ex[i].st = "pending" /\ (h = "rec" => ex[i].guard)
        /\ OtherRecords(i) /\ ex'[i].rec = ex[i].rec /\ ex'[i].st = ex[i].st
        /\ ex'[i].row \/ (h = "rec" => failed')
        /\ ex'[i].task = "none" \/ ~(ex[i].guard /\ failed')
    BY <1>6, SpawnFacts, <2>1, SlotFacts
  <2>3. ex'[i].rec /\ (ex'[i].task # "none" \/ ex'[i].st = "running") => ex'[i].row
    BY <2>2
  <2> QED
    BY <2>2, <2>3 DEF RowRests, OtherRecords, Active
<1>7. ASSUME NEW i \in Slots, TaskSerial(i)
      PROVE  RowRests'
  BY <1>7, TaskSerialFacts, FreshFacts DEF RowRests, OtherRecords, RecordKept, Active
<1>8. ASSUME NEW i \in Slots, TaskPermit(i)
      PROVE  RowRests'
  BY <1>8, TaskPermitFacts, FreshFacts DEF RowRests, OtherRecords, RecordKept, Active
<1>9. ASSUME NEW i \in Slots, TaskBegin(i)
      PROVE  RowRests'
  BY <1>9, TaskBeginFacts, FreshFacts DEF RowRests, OtherRecords, RecordKept, Active
<1>10. ASSUME NEW i \in Slots, TaskWork(i)
      PROVE  RowRests'
  BY <1>10, TaskWorkFacts, FreshFacts DEF RowRests, OtherRecords, RecordKept, Active
<1>11. ASSUME NEW i \in Slots, TaskEnd(i)
      PROVE  RowRests'
  BY <1>11, TaskEndFacts, FreshFacts DEF RowRests, OtherRecords, RecordKept, Active
<1>12. ASSUME StopEnd
      PROVE  RowRests'
  BY <1>12, StopEndFacts, FreshFacts DEF RowRests, OtherRecords, RecordKept, Active
<1>13. ASSUME Restart
      PROVE  RowRests'
  BY <1>13, RestartFacts, FreshFacts DEF RowRests, OtherRecords, RecordKept, Active
<1> QED
  BY <1>1, <1>2, <1>3, <1>4, <1>5, <1>6, <1>7, <1>8, <1>9, <1>10, <1>11, <1>12, <1>13
     DEF Next, Handler, Task, Worker, Restart

\* A member of the serial lock's queue has a task.
LEMMA LineMembers ==
  ASSUME Shape, LineRests
  PROVE  /\ DOMAIN line \subseteq Slots
         /\ \A i \in DOMAIN line : /\ ex[i].task # "none" /\ line[i] \subseteq DOMAIN line
                                   /\ ex[i].task # "serial" => line[i] = {}
<1>1. DOMAIN line \subseteq Slots /\ line \in [DOMAIN line -> SUBSET DOMAIN line]
  BY DEF Shape
<1> QED
  BY <1>1 DEF LineRests, Active

\* The queue stays a queue while its members have their tasks.
LEMMA LineKept ==
  ASSUME Shape, LineRests, line' = line,
         \A j \in DOMAIN line : /\ ex'[j].task # "none"
                                /\ ex'[j].task # "serial" => line[j] = {}
  PROVE  LineRests'
BY DEF LineRests, Active

\* It stays a queue when those who have ended leave it.
LEMMA LineLeft ==
  ASSUME Shape, LineRests, NEW S, line' = Without(S),
         \A j \in DOMAIN line \ S : ex'[j].task = ex[j].task
  PROVE  LineRests'
<1>1. /\ DOMAIN line' = DOMAIN line \ S
      /\ \A j \in DOMAIN line \ S : line'[j] = line[j] \ S
  BY WithoutFacts
<1>2. \A j \in DOMAIN line' : ex'[j].task # "none" /\ (ex'[j].task # "serial" => line'[j] = {})
  <2>1. ASSUME NEW j \in DOMAIN line'
        PROVE  ex'[j].task # "none" /\ (ex'[j].task # "serial" => line'[j] = {})
    <3>1. /\ j \in DOMAIN line \ S /\ ex'[j].task = ex[j].task /\ line'[j] = line[j] \ S
      BY <1>1, <2>1
    <3>2. ex[j].task # "none" /\ (ex[j].task # "serial" => line[j] = {})
      BY <3>1, LineMembers
    <3> QED
      BY <3>1, <3>2
  <2> QED
    BY <2>1
<1>3. \A j, k \in DOMAIN line' : j # k => j \in line'[k] \/ k \in line'[j]
  BY <1>1 DEF LineRests
<1> QED
  BY <1>2, <1>3 DEF LineRests, Active

\* The order stays while the queue does and no recovered execution comes up.
LEMMA OrderKept ==
  ASSUME Shape, OrderRests, policy' = policy, line' = line,
         \A j \in Slots : ex'[j].rec /\ ex'[j].task # "none" => ex[j].rec /\ ex[j].task # "none",
         \A j \in DOMAIN line : ex'[j].rec = ex[j].rec /\ ex'[j].at = ex[j].at
  PROVE  OrderRests'
<1> SUFFICES ASSUME policy'.missed = "backfill"
             PROVE  OrderRests'
  BY DEF OrderRests
<1>1. /\ \A i \in Slots : ex[i].rec /\ ex[i].task # "none" => i \in DOMAIN line
      /\ \A i, j \in DOMAIN line : ex[i].rec /\ ex[j].rec /\ i \in line[j] => ex[i].at < ex[j].at
  BY DEF OrderRests, Active
<1>2. \A i \in Slots : ex'[i].rec /\ ex'[i].task # "none" => i \in DOMAIN line'
  BY <1>1
<1>3. ASSUME NEW i \in DOMAIN line', NEW j \in DOMAIN line', ex'[i].rec, ex'[j].rec, i \in line'[j]
      PROVE  ex'[i].at < ex'[j].at
  BY <1>1, <1>3
<1> QED
  BY <1>2, <1>3 DEF OrderRests, Active

\* And when those who have ended leave the queue.
LEMMA OrderLeft ==
  ASSUME Shape, OrderRests, policy' = policy, NEW S, line' = Without(S),
         \A j \in Slots : ex'[j].rec /\ ex'[j].task # "none" =>
                              j \notin S /\ ex[j].rec /\ ex[j].task # "none",
         \A j \in DOMAIN line \ S : ex'[j].rec = ex[j].rec /\ ex'[j].at = ex[j].at
  PROVE  OrderRests'
<1> SUFFICES ASSUME policy'.missed = "backfill"
             PROVE  OrderRests'
  BY DEF OrderRests
<1>1. /\ \A i \in Slots : ex[i].rec /\ ex[i].task # "none" => i \in DOMAIN line
      /\ \A i, j \in DOMAIN line : ex[i].rec /\ ex[j].rec /\ i \in line[j] => ex[i].at < ex[j].at
  BY DEF OrderRests, Active
<1>2. /\ DOMAIN line' = DOMAIN line \ S
      /\ \A j \in DOMAIN line \ S : line'[j] = line[j] \ S
  BY WithoutFacts
<1>3. \A i \in Slots : ex'[i].rec /\ ex'[i].task # "none" => i \in DOMAIN line'
  BY <1>1, <1>2
<1>4. ASSUME NEW i \in DOMAIN line', NEW j \in DOMAIN line', ex'[i].rec, ex'[j].rec, i \in line'[j]
      PROVE  ex'[i].at < ex'[j].at
  BY <1>1, <1>2, <1>4
<1> QED
  BY <1>3, <1>4 DEF OrderRests, Active

\* Releases stay ahead of what runs while the worker and its trigger do.
LEMMA AtKept ==
  ASSUME AtRests, worker' = worker, hd'["rec"].pc = hd["rec"].pc,
         \A j \in Slots : ex'[j].rec /\ ex'[j].task # "none" =>
                              ex[j].rec /\ ex[j].task # "none" /\ ex'[j].at = ex[j].at
  PROVE  AtRests'
BY DEF AtRests, Active

\* A copy of the schedule that is stored keeps what is owed and what is cleared.
LEMMA StoredKeeps ==
  ASSUME Shape, NEW s \in Schedules, Stored(s)
  PROVE  /\ disk.last <= disk'.last
         /\ \A S : owed \subseteq Covered(disk.pending) \cup S =>
                      owed \subseteq Covered(disk'.pending) \cup S
         /\ \A cp \in Checkpoints : cp # NoCheckpoint /\ PassedIn(disk, cp) => PassedIn(disk', cp)
<1>1. /\ disk.last \in Int /\ s.last \in Int /\ disk'.last \in Int
      /\ \A cp \in Checkpoints : cp.last \in Int
  BY DEF Shape, Schedules, Stored, Checkpoints
<1>2. disk.last <= Later(disk.last, s.last) /\ Later(disk.last, s.last) \in Int
  BY <1>1, LaterFacts
<1>3. disk.last <= disk'.last
  BY <1>1, <1>2 DEF Stored
<1>4. CASE disk'.pending = disk.pending
  BY <1>1, <1>3, <1>4 DEF PassedIn
<1>5. CASE disk.pending = NoCheckpoint
  <2>1. \A S : owed \subseteq Covered(disk.pending) \cup S => owed \subseteq S
    BY <1>5, CoveredNone
  <2>2. ASSUME NEW cp \in Checkpoints, cp # NoCheckpoint, PassedIn(disk, cp)
        PROVE  PassedIn(disk', cp)
    BY <1>1, <1>3, <1>5, <2>2 DEF PassedIn
  <2> QED
    BY <1>3, <2>1, <2>2
<1> QED
  BY <1>4, <1>5 DEF Stored

\* Every step keeps the serial lock's queue.
LEMMA StepLine ==
  ASSUME Shape, SlotRests, CancelRests, LifeRests, LineRests, Next
  PROVE  LineRests'
<1>1. ASSUME StartPlan \/ StartPersist \/ Evaluate \/ Explicit \/ Receive \/ Gate \/ GiveUp \/ Handled \/
             Release \/ Drain \/ SeeActive \/ SeeUnfinished \/ Clear \/ Forget \/ Arm \/ Disarm \/ SetEnabled \/
             DefineEnabled \/ ReplaceFile \/ UndoEnabled \/ StopBegin \/ Clock
      PROVE  LineRests'
  <2>1. UNCHANGED <<ex, line>>
    BY <1>1, StartPlanFacts, StartPersistFacts, EvaluateFacts, ExplicitFacts, ReceiveFacts,
       GateFacts, GiveUpFacts, HandledFacts, ReleaseFacts, DrainFacts, SeeActiveFacts,
       SeeUnfinishedFacts, ClearFacts, ForgetFacts, ArmFacts, DisarmFacts, SetEnabledFacts,
       DefineEnabledFacts, ReplaceFileFacts, UndoEnabledFacts, StopBeginFacts, ClockFacts
  <2> QED
    BY <2>1 DEF LineRests, OtherRecords, RecordKept, Active
<1>2. ASSUME NEW h \in Handlers, Admit(h) \/ Skip(h) \/ SkipFile(h) \/ SkipRow(h) \/ MoveCursor(h) \/ PersistCursor(h)
      PROVE  LineRests'
  <2>1. UNCHANGED <<ex, line>>
    BY <1>2, AdmitFacts, SkipFacts, SkipFileFacts, SkipRowFacts, MoveCursorFacts,
       PersistCursorFacts
  <2> QED
    BY <2>1 DEF LineRests, OtherRecords, RecordKept, Active
<1>3. ASSUME NEW h \in Handlers, Apply(h)
      PROVE  LineRests'
  <2>1. CASE UNCHANGED <<failed, ex, line>>
    BY <2>1, LineMembers, LineKept
  <2>2. CASE line' = Without({i \in Slots : Active(i)})
    <3> DEFINE S == {i \in Slots : Active(i)}
    <3>1. \A j \in DOMAIN line : j \in S
      BY LineMembers DEF Active
    <3>2. line' = Without(S)
      BY <2>2
    <3> HIDE DEF S
    <3> QED
      BY <3>1, <3>2, LineLeft
  <2> QED
    BY <1>3, ApplyFacts, <2>1, <2>2
<1>4. ASSUME NEW h \in Handlers, CancelOne(h)
      PROVE  LineRests'
  <2>1. PICK i \in Slots : i \in hd[h].taken /\ ex'[i] = Blank /\ OtherRecords(i) /\ ex[i].task = "none"
    BY <1>4, CancelOneFacts, FreshFacts DEF CancelRests
  <2>2. \A j \in DOMAIN line : ex'[j] = ex[j]
    BY <2>1, LineMembers DEF OtherRecords
  <2>3. line' = line
    BY <1>4, CancelOneFacts
  <2> QED
    BY <2>2, <2>3, LineMembers, LineKept
<1>5. ASSUME NEW h \in Handlers, Record(h)
      PROVE  LineRests'
  <2>1. PICK i \in Slots : OtherRecords(i) /\ ex'[i].task = "none" /\ ex[i].task = "none"
    BY <1>5, RecordFacts, FreshFacts DEF CancelRests
  <2>2. \A j \in DOMAIN line : ex'[j] = ex[j]
    BY <2>1, LineMembers DEF OtherRecords
  <2>3. line' = line
    BY <1>5, RecordFacts
  <2> QED
    BY <2>2, <2>3, LineMembers, LineKept
<1>6. ASSUME NEW h \in Handlers, Spawn(h)
      PROVE  LineRests'
  <2>1. PICK i \in Slots : i = hd[h].slot
    BY <1>6, SpawnFacts, SlotFacts
  <2>2. OtherRecords(i) /\ ex[i].task = "none"
    BY <1>6, SpawnFacts, <2>1, SlotFacts
  <2>3. i \notin DOMAIN line /\ \A j \in DOMAIN line : ex'[j] = ex[j]
    BY <2>2, LineMembers DEF OtherRecords
  <2>4. CASE line' = line
    BY <2>3, <2>4, LineMembers, LineKept
  <2>5. CASE line' = Joined(i) /\ ex'[i].task = "serial"
    <3>1. /\ DOMAIN line' = DOMAIN line \cup {i} /\ line'[i] = DOMAIN line
          /\ \A j \in DOMAIN line : line'[j] = line[j]
      BY <2>3, <2>5, JoinedFacts
    <3>2. \A j \in DOMAIN line' : ex'[j].task # "none" /\ (ex'[j].task # "serial" => line'[j] = {})
      BY <2>3, <2>5, <3>1, LineMembers
    <3>3. \A j, k \in DOMAIN line' : j # k => j \in line'[k] \/ k \in line'[j]
      BY <3>1 DEF LineRests
    <3> QED
      BY <3>2, <3>3 DEF LineRests, Active
  <2> QED
    BY <1>6, SpawnFacts, <2>1, <2>4, <2>5
<1>7. ASSUME NEW i \in Slots, TaskSerial(i)
      PROVE  LineRests'
  <2>1. /\ line' = line /\ OtherRecords(i) /\ i \in DOMAIN line /\ line[i] = {}
        /\ ex'[i].task = "permit"
    BY <1>7, TaskSerialFacts
  <2>2. \A j \in DOMAIN line : /\ ex'[j].task # "none"
                               /\ ex'[j].task # "serial" => line[j] = {}
    BY <2>1, LineMembers DEF OtherRecords
  <2> QED
    BY <2>1, <2>2, LineKept
<1>8. ASSUME NEW i \in Slots, TaskPermit(i)
      PROVE  LineRests'
  <2>1. OtherRecords(i) /\ ex[i].task = "permit"
    BY <1>8, TaskPermitFacts
  <2>2. CASE line' = line /\ ex'[i].task = "begin"
    <3>1. \A j \in DOMAIN line : /\ ex'[j].task # "none"
                                 /\ ex'[j].task # "serial" => line[j] = {}
      BY <2>1, <2>2, LineMembers DEF OtherRecords
    <3> QED
      BY <2>2, <3>1, LineKept
  <2>3. CASE line' = Without({i})
    <3>1. \A j \in DOMAIN line \ {i} : ex'[j].task = ex[j].task
      BY <2>1, LineMembers DEF OtherRecords
    <3> QED
      BY <2>3, <3>1, LineLeft
  <2> QED
    BY <1>8, TaskPermitFacts, <2>2, <2>3
<1>9. ASSUME NEW i \in Slots, TaskBegin(i)
      PROVE  LineRests'
  <2>1. OtherRecords(i) /\ ex[i].task = "begin"
    BY <1>9, TaskBeginFacts
  <2>2. CASE line' = line /\ ex'[i].task = "work"
    <3>1. \A j \in DOMAIN line : /\ ex'[j].task # "none"
                                 /\ ex'[j].task # "serial" => line[j] = {}
      BY <2>1, <2>2, LineMembers DEF OtherRecords
    <3> QED
      BY <2>2, <3>1, LineKept
  <2>3. CASE line' = Without({i})
    <3>1. \A j \in DOMAIN line \ {i} : ex'[j].task = ex[j].task
      BY <2>1, LineMembers DEF OtherRecords
    <3> QED
      BY <2>3, <3>1, LineLeft
  <2> QED
    BY <1>9, TaskBeginFacts, <2>2, <2>3
<1>10. ASSUME NEW i \in Slots, TaskWork(i)
      PROVE  LineRests'
  <2>1. line' = line /\ OtherRecords(i) /\ ex[i].task = "work" /\ ex'[i].task = "end"
    BY <1>10, TaskWorkFacts
  <2>2. \A j \in DOMAIN line : /\ ex'[j].task # "none"
                               /\ ex'[j].task # "serial" => line[j] = {}
    BY <2>1, LineMembers DEF OtherRecords
  <2> QED
    BY <2>1, <2>2, LineKept
<1>11. ASSUME NEW i \in Slots, TaskEnd(i)
      PROVE  LineRests'
  <2>1. OtherRecords(i) /\ line' = Without({i})
    BY <1>11, TaskEndFacts
  <2>2. \A j \in DOMAIN line \ {i} : ex'[j].task = ex[j].task
    BY <2>1, LineMembers DEF OtherRecords
  <2> QED
    BY <2>1, <2>2, LineLeft
<1>12. ASSUME StopEnd
      PROVE  LineRests'
  <2>1. DOMAIN line' = {}
    BY <1>12, StopEndFacts DEF NoLine
  <2> QED
    BY <2>1 DEF LineRests
<1>13. ASSUME Restart
      PROVE  LineRests'
  <2>1. DOMAIN line' = {}
    BY <1>13, RestartFacts DEF NoLine
  <2> QED
    BY <2>1 DEF LineRests
<1> QED
  BY <1>1, <1>2, <1>3, <1>4, <1>5, <1>6, <1>7, <1>8, <1>9, <1>10, <1>11, <1>12, <1>13
     DEF Next, Handler, Task, Worker, Restart

\* Every step keeps the order of the backfilled executions.
LEMMA StepOrder ==
  ASSUME Shape, SlotRests, CancelRests, LifeRests, LineRests, OrderRests, AtRests, Next
  PROVE  OrderRests'
<1>1. ASSUME StartPlan \/ StartPersist \/ Evaluate \/ Explicit \/ Receive \/ Gate \/ GiveUp \/ Handled \/
             Release \/ Drain \/ SeeActive \/ SeeUnfinished \/ Clear \/ Forget \/ Arm \/ Disarm \/ SetEnabled \/
             DefineEnabled \/ ReplaceFile \/ UndoEnabled \/ StopBegin \/ Clock
      PROVE  OrderRests'
  <2>1. UNCHANGED <<policy, ex, line>>
    BY <1>1, StartPlanFacts, StartPersistFacts, EvaluateFacts, ExplicitFacts, ReceiveFacts,
       GateFacts, GiveUpFacts, HandledFacts, ReleaseFacts, DrainFacts, SeeActiveFacts,
       SeeUnfinishedFacts, ClearFacts, ForgetFacts, ArmFacts, DisarmFacts, SetEnabledFacts,
       DefineEnabledFacts, ReplaceFileFacts, UndoEnabledFacts, StopBeginFacts, ClockFacts
  <2> QED
    BY <2>1 DEF OrderRests, OtherRecords, RecordKept, Active
<1>2. ASSUME NEW h \in Handlers, Admit(h) \/ Skip(h) \/ SkipFile(h) \/ SkipRow(h) \/ MoveCursor(h) \/ PersistCursor(h)
      PROVE  OrderRests'
  <2>1. UNCHANGED <<policy, ex, line>>
    BY <1>2, AdmitFacts, SkipFacts, SkipFileFacts, SkipRowFacts, MoveCursorFacts,
       PersistCursorFacts
  <2> QED
    BY <2>1 DEF OrderRests, OtherRecords, RecordKept, Active
<1>3. ASSUME NEW h \in Handlers, Apply(h)
      PROVE  OrderRests'
  <2>1. policy' = policy
    BY <1>3, ApplyFacts
  <2>2. CASE UNCHANGED <<failed, ex, line>>
    BY <2>1, <2>2 DEF OrderRests, Active
  <2>3. CASE /\ line' = Without({i \in Slots : Active(i)})
             /\ \A i \in Slots : ex'[i].task = "none"
    <3> DEFINE S == {i \in Slots : Active(i)}
    <3>1. \A j \in DOMAIN line : j \in S
      BY LineMembers DEF Active
    <3>2. line' = Without(S)
      BY <2>3
    <3> HIDE DEF S
    <3> QED
      BY <2>1, <2>3, <3>1, <3>2, OrderLeft
  <2> QED
    BY <1>3, ApplyFacts, <2>2, <2>3
<1>4. ASSUME NEW h \in Handlers, CancelOne(h)
      PROVE  OrderRests'
  <2>1. PICK i \in Slots : i \in hd[h].taken /\ ex'[i].task = "none" /\ OtherRecords(i) /\ ex[i].task = "none"
    BY <1>4, CancelOneFacts, FreshFacts DEF CancelRests
  <2>2. \A j \in DOMAIN line : ex'[j] = ex[j]
    BY <2>1, LineMembers DEF OtherRecords
  <2>3. \A j \in Slots : ex'[j].rec /\ ex'[j].task # "none" => ex[j].rec /\ ex[j].task # "none"
    BY <2>1 DEF OtherRecords
  <2>4. line' = line /\ policy' = policy
    BY <1>4, CancelOneFacts
  <2> QED
    BY <2>2, <2>3, <2>4, OrderKept
<1>5. ASSUME NEW h \in Handlers, Record(h)
      PROVE  OrderRests'
  <2>1. PICK i \in Slots : OtherRecords(i) /\ ex'[i].task = "none" /\ ex[i].task = "none"
    BY <1>5, RecordFacts, FreshFacts DEF CancelRests
  <2>2. \A j \in DOMAIN line : ex'[j] = ex[j]
    BY <2>1, LineMembers DEF OtherRecords
  <2>3. \A j \in Slots : ex'[j].rec /\ ex'[j].task # "none" => ex[j].rec /\ ex[j].task # "none"
    BY <2>1 DEF OtherRecords
  <2>4. line' = line /\ policy' = policy
    BY <1>5, RecordFacts
  <2> QED
    BY <2>2, <2>3, <2>4, OrderKept
<1>6. ASSUME NEW h \in Handlers, Spawn(h)
      PROVE  OrderRests'
  <2>1. PICK i \in Slots : i = hd[h].slot
    BY <1>6, SpawnFacts, SlotFacts
  <2>2. /\ OtherRecords(i) /\ ex[i].task = "none" /\ ex[i].rec = (h = "rec") /\ ex[i].at = hd[h].at
        /\ ex'[i].rec = ex[i].rec /\ ex'[i].at = ex[i].at /\ hd[h].pc = "row" /\ policy' = policy
    BY <1>6, SpawnFacts, <2>1, SlotFacts
  <2>3. i \notin DOMAIN line /\ \A j \in DOMAIN line : ex'[j] = ex[j]
    BY <2>2, LineMembers DEF OtherRecords
  <2>4. CASE line' = line /\ (ex'[i].task = "none" \/ h # "rec")
    <3>1. \A j \in Slots : ex'[j].rec /\ ex'[j].task # "none" => ex[j].rec /\ ex[j].task # "none"
      BY <2>2, <2>4 DEF OtherRecords
    <3> QED
      BY <2>2, <2>3, <2>4, <3>1, OrderKept
  <2>5. CASE h = "rec" /\ ConcurrencyOf(h) # "queue"
    <3>1. policy.missed # "backfill"
      BY <2>5 DEF ConcurrencyOf
    <3> QED
      BY <2>2, <3>1 DEF OrderRests
  <2>6. CASE line' = Joined(i)
    <3> SUFFICES ASSUME policy'.missed = "backfill"
                 PROVE  OrderRests'
      BY DEF OrderRests
    <3>1. /\ \A k \in Slots : ex[k].rec /\ ex[k].task # "none" => k \in DOMAIN line
          /\ \A j, k \in DOMAIN line : ex[j].rec /\ ex[k].rec /\ j \in line[k] => ex[j].at < ex[k].at
      BY <2>2 DEF OrderRests, Active
    <3>2. /\ DOMAIN line' = DOMAIN line \cup {i} /\ line'[i] = DOMAIN line
          /\ \A j \in DOMAIN line : line'[j] = line[j] /\ i \notin line[j]
      BY <2>3, <2>6, JoinedFacts, LineMembers
    <3>3. ASSUME NEW k \in Slots, ex'[k].rec, ex'[k].task # "none"
          PROVE  k \in DOMAIN line'
      BY <2>2, <3>1, <3>2, <3>3 DEF OtherRecords
    <3>4. ASSUME NEW j \in DOMAIN line, ex[j].rec, ex[i].rec
          PROVE  ex[j].at < ex[i].at
      <4>1. h = "rec" /\ hd["rec"].pc = "row"
        BY <2>2, <3>4
      <4>2. worker.pc = "handle" /\ hd["rec"].at = worker.at
        BY <4>1 DEF LifeRests
      <4>3. j \in Slots /\ ex[j].task # "none"
        BY LineMembers
      <4>4. ex[j].at < worker.at
        BY <3>4, <4>1, <4>2, <4>3 DEF AtRests, Active
      <4> QED
        BY <2>2, <4>1, <4>2, <4>4
    <3>5. ASSUME NEW j \in DOMAIN line', NEW k \in DOMAIN line', ex'[j].rec, ex'[k].rec, j \in line'[k]
          PROVE  ex'[j].at < ex'[k].at
      <4>1. CASE k = i
        <5>1. j \in DOMAIN line /\ ex'[j] = ex[j]
          BY <2>3, <3>2, <3>5, <4>1
        <5> QED
          BY <2>2, <3>4, <3>5, <4>1, <5>1
      <4>2. CASE k # i
        <5>1. k \in DOMAIN line /\ j \in line[k]
          BY <3>2, <3>5, <4>2
        <5>2. j \in DOMAIN line
          BY <5>1, LineMembers
        <5> QED
          BY <2>3, <3>1, <3>5, <5>1, <5>2
      <4> QED
        BY <4>1, <4>2
    <3> QED
      BY <3>3, <3>5 DEF OrderRests, Active
  <2> QED
    BY <1>6, SpawnFacts, <2>1, <2>4, <2>5, <2>6
<1>7. ASSUME NEW i \in Slots, TaskSerial(i)
      PROVE  OrderRests'
  <2>1. line' = line /\ policy' = policy
    BY <1>7, TaskSerialFacts
  <2>2. /\ \A j \in Slots : ex'[j].rec /\ ex'[j].task # "none" => ex[j].rec /\ ex[j].task # "none"
        /\ \A j \in DOMAIN line : ex'[j].rec = ex[j].rec /\ ex'[j].at = ex[j].at
    BY <1>7, TaskSerialFacts, LineMembers DEF OtherRecords, RecordKept
  <2> QED
    BY <2>1, <2>2, OrderKept
<1>8. ASSUME NEW i \in Slots, TaskPermit(i)
      PROVE  OrderRests'
  <2>1. policy' = policy /\ OtherRecords(i) /\ ex'[i].rec = ex[i].rec /\ ex'[i].at = ex[i].at
        /\ ex[i].task # "none"
    BY <1>8, TaskPermitFacts DEF RecordKept
  <2>2. \A j \in DOMAIN line : ex'[j].rec = ex[j].rec /\ ex'[j].at = ex[j].at
    BY <2>1, LineMembers DEF OtherRecords
  <2>3. \A j \in Slots : ex'[j].rec /\ ex'[j].task # "none" => ex[j].rec /\ ex[j].task # "none"
    BY <2>1 DEF OtherRecords
  <2>4. CASE line' = line
    BY <2>1, <2>2, <2>3, <2>4, OrderKept
  <2>5. CASE line' = Without({i}) /\ ex'[i].task = "none"
    <3>1. \A j \in Slots : ex'[j].rec /\ ex'[j].task # "none" => j \notin {i}
      BY <2>5
    <3> QED
      BY <2>1, <2>2, <2>3, <2>5, <3>1, OrderLeft
  <2> QED
    BY <1>8, TaskPermitFacts, <2>4, <2>5
<1>9. ASSUME NEW i \in Slots, TaskBegin(i)
      PROVE  OrderRests'
  <2>1. policy' = policy /\ OtherRecords(i) /\ ex'[i].rec = ex[i].rec /\ ex'[i].at = ex[i].at
        /\ ex[i].task # "none"
    BY <1>9, TaskBeginFacts DEF RecordKept
  <2>2. \A j \in DOMAIN line : ex'[j].rec = ex[j].rec /\ ex'[j].at = ex[j].at
    BY <2>1, LineMembers DEF OtherRecords
  <2>3. \A j \in Slots : ex'[j].rec /\ ex'[j].task # "none" => ex[j].rec /\ ex[j].task # "none"
    BY <2>1 DEF OtherRecords
  <2>4. CASE line' = line
    BY <2>1, <2>2, <2>3, <2>4, OrderKept
  <2>5. CASE line' = Without({i}) /\ ex'[i].task = "none"
    <3>1. \A j \in Slots : ex'[j].rec /\ ex'[j].task # "none" => j \notin {i}
      BY <2>5
    <3> QED
      BY <2>1, <2>2, <2>3, <2>5, <3>1, OrderLeft
  <2> QED
    BY <1>9, TaskBeginFacts, <2>4, <2>5
<1>10. ASSUME NEW i \in Slots, TaskWork(i)
      PROVE  OrderRests'
  <2>1. line' = line /\ policy' = policy
    BY <1>10, TaskWorkFacts
  <2>2. /\ \A j \in Slots : ex'[j].rec /\ ex'[j].task # "none" => ex[j].rec /\ ex[j].task # "none"
        /\ \A j \in DOMAIN line : ex'[j].rec = ex[j].rec /\ ex'[j].at = ex[j].at
    BY <1>10, TaskWorkFacts, LineMembers DEF OtherRecords, RecordKept
  <2> QED
    BY <2>1, <2>2, OrderKept
<1>11. ASSUME NEW i \in Slots, TaskEnd(i)
      PROVE  OrderRests'
  <2>1. policy' = policy /\ OtherRecords(i) /\ line' = Without({i}) /\ ex'[i].task = "none"
    BY <1>11, TaskEndFacts, FreshFacts
  <2>2. \A j \in DOMAIN line \ {i} : ex'[j].rec = ex[j].rec /\ ex'[j].at = ex[j].at
    BY <2>1, LineMembers DEF OtherRecords
  <2>3. \A j \in Slots : ex'[j].rec /\ ex'[j].task # "none" =>
                            j \notin {i} /\ ex[j].rec /\ ex[j].task # "none"
    BY <2>1 DEF OtherRecords
  <2> QED
    BY <2>1, <2>2, <2>3, OrderLeft
<1>12. ASSUME StopEnd
      PROVE  OrderRests'
  <2>1. DOMAIN line' = {}
    BY <1>12, StopEndFacts DEF NoLine
  <2>2. \A i \in Slots : ~(ex'[i].rec /\ ex'[i].task # "none")
    BY <1>12, StopEndFacts, FreshFacts DEF Active
  <2> QED
    BY <2>1, <2>2 DEF OrderRests, Active
<1>13. ASSUME Restart
      PROVE  OrderRests'
  <2>1. DOMAIN line' = {}
    BY <1>13, RestartFacts DEF NoLine
  <2>2. \A i \in Slots : ~(ex'[i].rec /\ ex'[i].task # "none")
    BY <1>13, RestartFacts, FreshFacts DEF Active
  <2> QED
    BY <2>1, <2>2 DEF OrderRests, Active
<1> QED
  BY <1>1, <1>2, <1>3, <1>4, <1>5, <1>6, <1>7, <1>8, <1>9, <1>10, <1>11, <1>12, <1>13
     DEF Next, Handler, Task, Worker, Restart

\* Every step keeps what runs before what comes next.
LEMMA StepAt ==
  ASSUME Shape, SlotRests, LifeRests, WorkerRests, AtRests, Next
  PROVE  AtRests'
<1>1. ASSUME StartPlan \/ Evaluate \/ Explicit \/ Arm \/ Disarm \/ SetEnabled \/ DefineEnabled \/ ReplaceFile \/
             UndoEnabled \/ Clock
      PROVE  AtRests'
  <2>1. UNCHANGED <<worker, hd, ex>>
    BY <1>1, StartPlanFacts, EvaluateFacts, ExplicitFacts, ArmFacts, DisarmFacts,
       SetEnabledFacts, DefineEnabledFacts, ReplaceFileFacts, UndoEnabledFacts, ClockFacts
  <2> QED
    BY <2>1
       DEF AtRests, LifeRests, OtherRecords, RecordKept, OtherHandler, HandlerKept, Handlers,
           Active
<1>2. ASSUME StartPersist
      PROVE  AtRests'
  BY <1>2, StartPersistFacts, FreshFacts
     DEF AtRests, LifeRests, OtherRecords, RecordKept, OtherHandler, HandlerKept, Handlers,
         Active
<1>3. ASSUME Receive
      PROVE  AtRests'
  BY <1>3, ReceiveFacts, FreshFacts
     DEF AtRests, LifeRests, OtherRecords, RecordKept, OtherHandler, HandlerKept, Handlers,
         Active
<1>4. ASSUME NEW h \in Handlers, Admit(h)
      PROVE  AtRests'
  <2>1. CASE h = "rec"
    <3>1. hd["rec"].pc = "wait" /\ worker' = worker /\ ex' = ex
      BY <1>4, AdmitFacts, <2>1
    <3>2. worker.pc # "none" => \A i \in Slots : ex[i].rec /\ ex[i].task # "none" => ex[i].at < worker.at
      BY <3>1 DEF AtRests, Active
    <3> QED
      BY <3>1, <3>2 DEF AtRests, Active
  <2>2. CASE h = "live"
    <3>1. hd'["rec"] = hd["rec"] /\ worker' = worker /\ ex' = ex
      BY <1>4, AdmitFacts, <2>2 DEF OtherHandler, Handlers
    <3> QED
      BY <3>1, AtKept
  <2> QED
    BY <2>1, <2>2 DEF Handlers
<1>5. ASSUME NEW h \in Handlers, Apply(h)
      PROVE  AtRests'
  BY <1>5, ApplyFacts, FreshFacts
     DEF AtRests, LifeRests, OtherRecords, RecordKept, OtherHandler, HandlerKept, Handlers,
         Active
<1>6. ASSUME NEW h \in Handlers, CancelOne(h)
      PROVE  AtRests'
  BY <1>6, CancelOneFacts, FreshFacts
     DEF AtRests, LifeRests, OtherRecords, RecordKept, OtherHandler, HandlerKept, Handlers,
         Active
<1>7. ASSUME NEW h \in Handlers, Skip(h)
      PROVE  AtRests'
  BY <1>7, SkipFacts, FreshFacts
     DEF AtRests, LifeRests, OtherRecords, RecordKept, OtherHandler, HandlerKept, Handlers,
         Active
<1>8. ASSUME NEW h \in Handlers, SkipFile(h)
      PROVE  AtRests'
  BY <1>8, SkipFileFacts, FreshFacts
     DEF AtRests, LifeRests, OtherRecords, RecordKept, OtherHandler, HandlerKept, Handlers,
         Active
<1>9. ASSUME NEW h \in Handlers, SkipRow(h)
      PROVE  AtRests'
  BY <1>9, SkipRowFacts, FreshFacts
     DEF AtRests, LifeRests, OtherRecords, RecordKept, OtherHandler, HandlerKept, Handlers,
         Active
<1>10. ASSUME NEW h \in Handlers, Record(h)
      PROVE  AtRests'
  BY <1>10, RecordFacts, FreshFacts
     DEF AtRests, LifeRests, OtherRecords, RecordKept, OtherHandler, HandlerKept, Handlers,
         Active
<1>11. ASSUME NEW h \in Handlers, MoveCursor(h)
      PROVE  AtRests'
  BY <1>11, MoveCursorFacts, FreshFacts
     DEF AtRests, LifeRests, OtherRecords, RecordKept, OtherHandler, HandlerKept, Handlers,
         Active
<1>12. ASSUME NEW h \in Handlers, PersistCursor(h)
      PROVE  AtRests'
  BY <1>12, PersistCursorFacts, FreshFacts
     DEF AtRests, LifeRests, OtherRecords, RecordKept, OtherHandler, HandlerKept, Handlers,
         Active
<1>13. ASSUME NEW h \in Handlers, Spawn(h)
      PROVE  AtRests'
  <2>1. PICK i \in Slots : i = hd[h].slot
    BY <1>13, SpawnFacts, SlotFacts
  <2>2. /\ OtherRecords(i) /\ ex[i].rec = (h = "rec") /\ ex[i].at = hd[h].at /\ worker' = worker
        /\ ex'[i].rec = ex[i].rec /\ ex'[i].at = ex[i].at /\ hd[h].pc = "row"
    BY <1>13, SpawnFacts, <2>1, SlotFacts
  <2>3. CASE h = "rec"
    <3>1. hd'["rec"].pc = "idle" /\ worker.pc = "handle" /\ hd["rec"].at = worker.at
      BY <1>13, SpawnFacts, <2>2, <2>3, FreshFacts DEF LifeRests
    <3>2. \A j \in Slots : ex[j].rec /\ ex[j].task # "none" => ex[j].at < worker.at
      BY <2>2, <2>3, <3>1 DEF AtRests, Active
    <3>3. \A j \in Slots : ex'[j].rec /\ ex'[j].task # "none" => ex'[j].at < worker.at \/ ex'[j].at = worker.at
      BY <2>2, <2>3, <3>1, <3>2 DEF OtherRecords
    <3> QED
      BY <2>2, <3>1, <3>3 DEF AtRests, Active
  <2>4. CASE h = "live"
    <3>1. hd'["rec"] = hd["rec"] /\ ~ex'[i].rec
      BY <1>13, SpawnFacts, <2>2, <2>4 DEF OtherHandler, Handlers
    <3>2. \A j \in Slots : ex'[j].rec /\ ex'[j].task # "none" =>
                              ex[j].rec /\ ex[j].task # "none" /\ ex'[j].at = ex[j].at
      BY <2>2, <3>1 DEF OtherRecords
    <3> QED
      BY <2>2, <3>1, <3>2, AtKept
  <2> QED
    BY <2>3, <2>4 DEF Handlers
<1>14. ASSUME NEW i \in Slots, TaskSerial(i)
      PROVE  AtRests'
  BY <1>14, TaskSerialFacts, FreshFacts
     DEF AtRests, LifeRests, OtherRecords, RecordKept, OtherHandler, HandlerKept, Handlers,
         Active
<1>15. ASSUME NEW i \in Slots, TaskPermit(i)
      PROVE  AtRests'
  <2>1. worker' = worker /\ hd' = hd
    BY <1>15, TaskPermitFacts
  <2>2. \A j \in Slots : ex'[j].rec /\ ex'[j].task # "none" =>
                            ex[j].rec /\ ex[j].task # "none" /\ ex'[j].at = ex[j].at
    BY <1>15, TaskPermitFacts, FreshFacts DEF OtherRecords, RecordKept
  <2> QED
    BY <2>1, <2>2, AtKept
<1>16. ASSUME NEW i \in Slots, TaskBegin(i)
      PROVE  AtRests'
  <2>1. worker' = worker /\ hd' = hd
    BY <1>16, TaskBeginFacts
  <2>2. \A j \in Slots : ex'[j].rec /\ ex'[j].task # "none" =>
                            ex[j].rec /\ ex[j].task # "none" /\ ex'[j].at = ex[j].at
    BY <1>16, TaskBeginFacts, FreshFacts DEF OtherRecords, RecordKept
  <2> QED
    BY <2>1, <2>2, AtKept
<1>17. ASSUME NEW i \in Slots, TaskWork(i)
      PROVE  AtRests'
  BY <1>17, TaskWorkFacts, FreshFacts
     DEF AtRests, LifeRests, OtherRecords, RecordKept, OtherHandler, HandlerKept, Handlers,
         Active
<1>18. ASSUME NEW i \in Slots, TaskEnd(i)
      PROVE  AtRests'
  <2>1. worker' = worker /\ hd' = hd
    BY <1>18, TaskEndFacts
  <2>2. \A j \in Slots : ex'[j].rec /\ ex'[j].task # "none" =>
                            ex[j].rec /\ ex[j].task # "none" /\ ex'[j].at = ex[j].at
    BY <1>18, TaskEndFacts, FreshFacts DEF OtherRecords, RecordKept
  <2> QED
    BY <2>1, <2>2, AtKept
<1>19. ASSUME Gate
      PROVE  AtRests'
  BY <1>19, GateFacts, FreshFacts
     DEF AtRests, LifeRests, OtherRecords, RecordKept, OtherHandler, HandlerKept, Handlers,
         Active
<1>20. ASSUME GiveUp
      PROVE  AtRests'
  BY <1>20, GiveUpFacts, FreshFacts
     DEF AtRests, LifeRests, OtherRecords, RecordKept, OtherHandler, HandlerKept, Handlers,
         Active
<1>21. ASSUME Handled
      PROVE  AtRests'
  <2>1. worker.pc = "handle" /\ worker'.at = worker.at + Interval /\ ex' = ex
    BY <1>21, HandledFacts
  <2>2. worker.at \in Int /\ Interval \in Nat /\ Interval > 0 /\ \A i \in Slots : ex[i].at \in Int
    BY RecurringAssumption DEF Shape, Executions
  <2>3. \A i \in Slots : ex[i].rec /\ ex[i].task # "none" => ex[i].at <= worker.at
    BY <2>1, <2>2 DEF AtRests, Active
  <2>4. \A i \in Slots : ex[i].rec /\ ex[i].task # "none" => ex[i].at < worker'.at
    BY <2>1, <2>2, <2>3
  <2> QED
    BY <2>1, <2>4 DEF AtRests, Active
<1>22. ASSUME Release
      PROVE  AtRests'
  BY <1>22, ReleaseFacts, FreshFacts
     DEF AtRests, LifeRests, OtherRecords, RecordKept, OtherHandler, HandlerKept, Handlers,
         Active
<1>23. ASSUME Drain
      PROVE  AtRests'
  BY <1>23, DrainFacts, FreshFacts
     DEF AtRests, LifeRests, OtherRecords, RecordKept, OtherHandler, HandlerKept, Handlers,
         Active
<1>24. ASSUME SeeActive
      PROVE  AtRests'
  BY <1>24, SeeActiveFacts, FreshFacts
     DEF AtRests, LifeRests, OtherRecords, RecordKept, OtherHandler, HandlerKept, Handlers,
         Active
<1>25. ASSUME SeeUnfinished
      PROVE  AtRests'
  BY <1>25, SeeUnfinishedFacts, FreshFacts
     DEF AtRests, LifeRests, OtherRecords, RecordKept, OtherHandler, HandlerKept, Handlers,
         Active
<1>26. ASSUME Clear
      PROVE  AtRests'
  BY <1>26, ClearFacts, FreshFacts
     DEF AtRests, LifeRests, OtherRecords, RecordKept, OtherHandler, HandlerKept, Handlers,
         Active
<1>27. ASSUME Forget
      PROVE  AtRests'
  BY <1>27, ForgetFacts, FreshFacts
     DEF AtRests, LifeRests, OtherRecords, RecordKept, OtherHandler, HandlerKept, Handlers,
         Active
<1>28. ASSUME StopBegin
      PROVE  AtRests'
  BY <1>28, StopBeginFacts, FreshFacts
     DEF AtRests, LifeRests, OtherRecords, RecordKept, OtherHandler, HandlerKept, Handlers,
         Active
<1>29. ASSUME StopEnd
      PROVE  AtRests'
  BY <1>29, StopEndFacts, FreshFacts
     DEF AtRests, LifeRests, OtherRecords, RecordKept, OtherHandler, HandlerKept, Handlers,
         Active
<1>30. ASSUME Restart
      PROVE  AtRests'
  BY <1>30, RestartFacts, FreshFacts
     DEF AtRests, LifeRests, OtherRecords, RecordKept, OtherHandler, HandlerKept, Handlers,
         Active
<1> QED
  BY <1>1, <1>2, <1>3, <1>4, <1>5, <1>6, <1>7, <1>8, <1>9, <1>10, <1>11, <1>12, <1>13, <1>14,
     <1>15, <1>16, <1>17, <1>18, <1>19, <1>20, <1>21, <1>22, <1>23, <1>24, <1>25, <1>26, <1>27,
     <1>28, <1>29, <1>30 DEF Next, Handler, Task, Worker, Restart

\* Every step keeps what is owed in every copy of the schedule.
LEMMA StepKeep ==
  ASSUME Shape, SlotRests, LifeRests, WorkerRests, DoneRests, KeepRests, Next
  PROVE  KeepRests'
<1>1. ASSUME Evaluate \/ Explicit \/ Receive \/ Gate \/ GiveUp \/ Handled \/ Release \/ Drain \/ SeeActive \/
             SeeUnfinished \/ Arm \/ Disarm \/ StopBegin \/ StopEnd \/ Clock
      PROVE  KeepRests'
  <2>1. UNCHANGED <<mem, disk, edit, owed, recorded>>
    BY <1>1, EvaluateFacts, ExplicitFacts, ReceiveFacts, GateFacts, GiveUpFacts, HandledFacts,
       ReleaseFacts, DrainFacts, SeeActiveFacts, SeeUnfinishedFacts, ArmFacts, DisarmFacts,
       StopBeginFacts, StopEndFacts, ClockFacts
  <2> QED
    BY <2>1 DEF KeepRests
<1>2. ASSUME NEW h \in Handlers, Admit(h) \/ Apply(h) \/ Record(h) \/ Spawn(h)
      PROVE  KeepRests'
  <2>1. UNCHANGED <<mem, disk, edit, owed, recorded>>
    BY <1>2, AdmitFacts, ApplyFacts, RecordFacts, SpawnFacts
  <2> QED
    BY <2>1 DEF KeepRests
<1>3. ASSUME NEW i \in Slots, TaskSerial(i) \/ TaskPermit(i) \/ TaskBegin(i) \/ TaskWork(i)
      PROVE  KeepRests'
  <2>1. UNCHANGED <<mem, disk, edit, owed, recorded>>
    BY <1>3, TaskSerialFacts, TaskPermitFacts, TaskBeginFacts, TaskWorkFacts
  <2> QED
    BY <2>1 DEF KeepRests
<1>4. ASSUME StartPlan
      PROVE  KeepRests'
  <2>1. mem'.pending = Planned(mem) /\ edit.pc = "idle"
    BY <1>4, StartPlanFacts
  <2>2. mem.pending = NoCheckpoint \/ mem'.pending = mem.pending
    BY <2>1 DEF Planned
  <2>3. UNCHANGED <<owed, disk, edit, recorded>>
    BY <1>4, StartPlanFacts
  <2> QED
    BY <2>1, <2>2, <2>3, CoveredNone DEF KeepRests
<1>5. ASSUME StartPersist
      PROVE  KeepRests'
  <2>1. UNCHANGED <<mem, edit, recorded>> /\ edit.pc = "idle" /\ Stored(mem) /\ mem \in Schedules
    BY <1>5, StartPersistFacts DEF LifeRests, Shape
  <2>2. owed \subseteq Covered(disk'.pending) \cup recorded
    BY <2>1, StoredKeeps DEF KeepRests
  <2>3. CASE owed' = owed
    BY <2>1, <2>2, <2>3 DEF KeepRests
  <2>4. CASE /\ owed' = owed \cup Covered(mem.pending)
             /\ mem.pending = NoCheckpoint \/ disk'.pending = mem.pending
    BY <2>1, <2>2, <2>4, CoveredNone DEF KeepRests
  <2> QED
    BY <1>5, StartPersistFacts, <2>3, <2>4
<1>6. ASSUME NEW h \in Handlers, CancelOne(h)
      PROVE  KeepRests'
  BY <1>6, CancelOneFacts, FreshFacts, CoveredNone DEF KeepRests
<1>7. ASSUME NEW h \in Handlers, Skip(h)
      PROVE  KeepRests'
  BY <1>7, SkipFacts, FreshFacts, CoveredNone DEF KeepRests
<1>8. ASSUME NEW h \in Handlers, SkipFile(h)
      PROVE  KeepRests'
  <2>1. UNCHANGED <<owed, mem, edit, recorded>> /\ Stored(hd[h].snap) /\ hd[h].snap \in Schedules
    BY <1>8, SkipFileFacts DEF Shape, HandlerStates
  <2>2. owed \subseteq Covered(disk'.pending) \cup recorded
    BY <2>1, StoredKeeps DEF KeepRests
  <2> QED
    BY <2>1, <2>2 DEF KeepRests
<1>9. ASSUME NEW h \in Handlers, SkipRow(h)
      PROVE  KeepRests'
  BY <1>9, SkipRowFacts, FreshFacts, CoveredNone DEF KeepRests
<1>10. ASSUME NEW h \in Handlers, MoveCursor(h)
      PROVE  KeepRests'
  BY <1>10, MoveCursorFacts, FreshFacts, CoveredNone DEF KeepRests
<1>11. ASSUME NEW h \in Handlers, PersistCursor(h)
      PROVE  KeepRests'
  <2>1. UNCHANGED <<owed, mem, edit, recorded>> /\ Stored(hd[h].snap) /\ hd[h].snap \in Schedules
    BY <1>11, PersistCursorFacts DEF Shape, HandlerStates
  <2>2. owed \subseteq Covered(disk'.pending) \cup recorded
    BY <2>1, StoredKeeps DEF KeepRests
  <2> QED
    BY <2>1, <2>2 DEF KeepRests
<1>12. ASSUME NEW i \in Slots, TaskEnd(i)
      PROVE  KeepRests'
  BY <1>12, TaskEndFacts, FreshFacts, CoveredNone DEF KeepRests
<1>13. ASSUME Clear
      PROVE  KeepRests'
  <2>1. UNCHANGED <<owed, mem, edit, recorded>> /\ worker.pc = "clear"
    BY <1>13, ClearFacts
  <2>2. Covered(worker.cp) \subseteq recorded
    BY <2>1 DEF DoneRests
  <2>3. disk' = disk \/ disk.pending = worker.cp
    BY <1>13, ClearFacts
  <2>4. owed \subseteq Covered(disk'.pending) \cup recorded
    BY <2>2, <2>3 DEF KeepRests
  <2> QED
    BY <2>1, <2>4 DEF KeepRests
<1>14. ASSUME Forget
      PROVE  KeepRests'
  <2>1. UNCHANGED <<owed, disk, edit, recorded>> /\ worker.pc = "forget"
    BY <1>14, ForgetFacts
  <2>2. Covered(worker.cp) \subseteq recorded
    BY <2>1 DEF DoneRests
  <2>3. mem' = mem \/ mem.pending = worker.cp
    BY <1>14, ForgetFacts
  <2>4. owed \subseteq Covered(mem'.pending) \cup recorded
    BY <2>2, <2>3 DEF KeepRests
  <2> QED
    BY <2>1, <2>4 DEF KeepRests
<1>15. ASSUME SetEnabled
      PROVE  KeepRests'
  BY <1>15, SetEnabledFacts, FreshFacts, CoveredNone DEF KeepRests
<1>16. ASSUME DefineEnabled
      PROVE  KeepRests'
  <2>1. /\ UNCHANGED <<owed, mem, recorded>> /\ Stored(edit.snap) /\ edit.snap \in Schedules
        /\ edit'.prev = edit.prev /\ edit.pc # "idle"
    BY <1>16, DefineEnabledFacts DEF Shape, HandlerStates
  <2>2. owed \subseteq Covered(disk'.pending) \cup recorded
    BY <2>1, StoredKeeps DEF KeepRests
  <2> QED
    BY <2>1, <2>2 DEF KeepRests
<1>17. ASSUME ReplaceFile
      PROVE  KeepRests'
  BY <1>17, ReplaceFileFacts, FreshFacts, CoveredNone DEF KeepRests
<1>18. ASSUME UndoEnabled
      PROVE  KeepRests'
  BY <1>18, UndoEnabledFacts, FreshFacts, CoveredNone DEF KeepRests
<1>19. ASSUME Restart
      PROVE  KeepRests'
  BY <1>19, RestartFacts, FreshFacts, CoveredNone DEF KeepRests
<1> QED
  BY <1>1, <1>2, <1>3, <1>4, <1>5, <1>6, <1>7, <1>8, <1>9, <1>10, <1>11, <1>12, <1>13, <1>14,
     <1>15, <1>16, <1>17, <1>18, <1>19 DEF Next, Handler, Task, Worker, Restart

\* Every step keeps every copy of the schedule past the cleared checkpoints.
LEMMA StepCleared ==
  ASSUME Shape, SlotRests, Dated, LifeRests, WorkerRests, ClearedRests, Next
  PROVE  ClearedRests'
<1>1. ASSUME Evaluate \/ Explicit \/ Receive \/ Arm \/ Disarm \/ StopEnd \/ Clock
      PROVE  ClearedRests'
  <2>1. UNCHANGED <<mem, disk, worker, edit, cleared>>
    BY <1>1, EvaluateFacts, ExplicitFacts, ReceiveFacts, ArmFacts, DisarmFacts, StopEndFacts,
       ClockFacts
  <2> QED
    BY <2>1 DEF ClearedRests, PassedIn
<1>2. ASSUME NEW h \in Handlers, Admit(h) \/ Apply(h) \/ CancelOne(h) \/ SkipRow(h) \/ Record(h) \/ Spawn(h)
      PROVE  ClearedRests'
  <2>1. UNCHANGED <<mem, disk, worker, edit, cleared>>
    BY <1>2, AdmitFacts, ApplyFacts, CancelOneFacts, SkipRowFacts, RecordFacts, SpawnFacts
  <2> QED
    BY <2>1 DEF ClearedRests, PassedIn
<1>3. ASSUME NEW i \in Slots, TaskSerial(i) \/ TaskPermit(i) \/ TaskBegin(i) \/ TaskWork(i) \/ TaskEnd(i)
      PROVE  ClearedRests'
  <2>1. UNCHANGED <<mem, disk, worker, edit, cleared>>
    BY <1>3, TaskSerialFacts, TaskPermitFacts, TaskBeginFacts, TaskWorkFacts, TaskEndFacts
  <2> QED
    BY <2>1 DEF ClearedRests, PassedIn
<1>4. ASSUME StartPlan
      PROVE  ClearedRests'
  <2>1. /\ UNCHANGED <<disk, worker, cleared, edit>> /\ mem'.pending = Planned(mem)
        /\ mem'.last = Advanced(mem)
    BY <1>4, StartPlanFacts
  <2>2. mem.pending = NoCheckpoint \/ mem'.pending = mem.pending
    BY <2>1 DEF Planned
  <2>3. mem.last \in Int /\ mem.last <= mem'.last
    BY <2>1, AdvancedFacts DEF Shape, Schedules
  <2>4. \A cp \in cleared : cp # NoCheckpoint /\ cp.last \in Int
    BY DEF ClearedRests, Shape, Checkpoints
  <2>5. mem'.last \in Int
    BY <2>1, AdvancedFacts
  <2>6. \A cp \in cleared : PassedIn(mem', cp)
    BY <2>2, <2>3, <2>4, <2>5 DEF ClearedRests, PassedIn
  <2> QED
    BY <2>1, <2>6 DEF ClearedRests
<1>5. ASSUME StartPersist
      PROVE  ClearedRests'
  <2>1. UNCHANGED <<mem, edit, cleared>> /\ Stored(mem) /\ mem \in Schedules
    BY <1>5, StartPersistFacts DEF Shape
  <2>2. worker'.pc # "clear"
    BY <1>5, StartPersistFacts, FreshFacts DEF LifeRests
  <2>3. \A cp \in cleared : cp \in Checkpoints /\ cp # NoCheckpoint
    BY DEF ClearedRests, Shape
  <2>4. \A cp \in cleared : PassedIn(disk', cp)
    BY <2>1, <2>3, StoredKeeps DEF ClearedRests
  <2> QED
    BY <2>1, <2>2, <2>4 DEF ClearedRests
<1>6. ASSUME NEW h \in Handlers, Skip(h)
      PROVE  ClearedRests'
  <2>1. /\ UNCHANGED <<disk, worker, cleared, edit>> /\ mem'.last = Cursor(h, now)
        /\ mem'.pending = mem.pending
    BY <1>6, SkipFacts
  <2>2. now \in Int /\ mem.last \in Int
    BY DEF Shape, HandlerStates, Schedules
  <2>3. mem.last <= mem'.last /\ mem'.last \in Int
    BY <2>1, <2>2, CursorFacts
  <2>4. \A cp \in cleared : cp.last \in Int
    BY DEF Shape, Checkpoints
  <2>5. \A cp \in cleared : PassedIn(mem', cp)
    BY <2>1, <2>2, <2>3, <2>4 DEF ClearedRests, PassedIn
  <2> QED
    BY <2>1, <2>5 DEF ClearedRests
<1>7. ASSUME NEW h \in Handlers, SkipFile(h)
      PROVE  ClearedRests'
  <2>1. /\ UNCHANGED <<mem, worker, cleared>> /\ Stored(hd[h].snap) /\ hd[h].snap \in Schedules
        /\ edit'.prev = edit.prev /\ (edit'.pc # "idle" => edit.pc # "idle")
    BY <1>7, SkipFileFacts DEF Shape, HandlerStates
  <2>2. \A cp \in cleared : cp \in Checkpoints /\ cp # NoCheckpoint
    BY DEF ClearedRests, Shape
  <2>3. \A cp \in cleared : PassedIn(disk', cp)
    BY <2>1, <2>2, StoredKeeps DEF ClearedRests
  <2> QED
    BY <2>1, <2>3 DEF ClearedRests
<1>8. ASSUME NEW h \in Handlers, MoveCursor(h)
      PROVE  ClearedRests'
  <2>1. /\ UNCHANGED <<disk, worker, cleared, edit>> /\ mem'.last = Cursor(h, hd[h].to)
        /\ mem'.pending = mem.pending
    BY <1>8, MoveCursorFacts
  <2>2. hd[h].to \in Int /\ mem.last \in Int
    BY DEF Shape, HandlerStates, Schedules
  <2>3. mem.last <= mem'.last /\ mem'.last \in Int
    BY <2>1, <2>2, CursorFacts
  <2>4. \A cp \in cleared : cp.last \in Int
    BY DEF Shape, Checkpoints
  <2>5. \A cp \in cleared : PassedIn(mem', cp)
    BY <2>1, <2>2, <2>3, <2>4 DEF ClearedRests, PassedIn
  <2> QED
    BY <2>1, <2>5 DEF ClearedRests
<1>9. ASSUME NEW h \in Handlers, PersistCursor(h)
      PROVE  ClearedRests'
  <2>1. /\ UNCHANGED <<mem, worker, cleared>> /\ Stored(hd[h].snap) /\ hd[h].snap \in Schedules
        /\ edit'.prev = edit.prev /\ (edit'.pc # "idle" => edit.pc # "idle")
    BY <1>9, PersistCursorFacts DEF Shape, HandlerStates
  <2>2. \A cp \in cleared : cp \in Checkpoints /\ cp # NoCheckpoint
    BY DEF ClearedRests, Shape
  <2>3. \A cp \in cleared : PassedIn(disk', cp)
    BY <2>1, <2>2, StoredKeeps DEF ClearedRests
  <2> QED
    BY <2>1, <2>3 DEF ClearedRests
<1>10. ASSUME Gate
      PROVE  ClearedRests'
  BY <1>10, GateFacts, FreshFacts DEF ClearedRests, PassedIn
<1>11. ASSUME GiveUp
      PROVE  ClearedRests'
  BY <1>11, GiveUpFacts, FreshFacts DEF ClearedRests, PassedIn
<1>12. ASSUME Handled
      PROVE  ClearedRests'
  BY <1>12, HandledFacts, FreshFacts DEF ClearedRests, PassedIn
<1>13. ASSUME Release
      PROVE  ClearedRests'
  BY <1>13, ReleaseFacts, FreshFacts DEF ClearedRests, PassedIn
<1>14. ASSUME Drain
      PROVE  ClearedRests'
  BY <1>14, DrainFacts, FreshFacts DEF ClearedRests, PassedIn
<1>15. ASSUME SeeActive
      PROVE  ClearedRests'
  BY <1>15, SeeActiveFacts, FreshFacts DEF ClearedRests, PassedIn
<1>16. ASSUME SeeUnfinished
      PROVE  ClearedRests'
  <2>1. UNCHANGED <<disk, mem, cleared, edit>> /\ worker.pc = "rest"
    BY <1>16, SeeUnfinishedFacts
  <2>2. worker'.pc = "clear" => /\ worker'.cp = mem.pending
                               /\ worker'.to = Later(mem.last, worker.cp.last)
    BY <1>16, SeeUnfinishedFacts, FreshFacts
  <2>3. mem.pending = worker.cp /\ mem.last \in Int /\ worker.cp.last \in Int
    BY <2>1 DEF WorkerRests, Shape, Schedules, Checkpoints
  <2>5. worker.cp.last <= Later(mem.last, worker.cp.last) /\ Later(mem.last, worker.cp.last) \in Int
    BY <2>3, LaterFacts
  <2>4. worker'.pc = "clear" => worker'.to >= worker'.cp.last
    BY <2>2, <2>3, <2>5
  <2> QED
    BY <2>1, <2>4 DEF ClearedRests
<1>17. ASSUME Clear
      PROVE  ClearedRests'
  <2>1. /\ UNCHANGED <<mem, edit>> /\ worker.pc = "clear" /\ worker'.pc # "clear"
        /\ disk' \in Schedules
    BY <1>17, ClearFacts, FreshFacts
  <2>2. /\ worker.cp # NoCheckpoint /\ mem.pending = worker.cp
        /\ edit.pc # "idle" => edit.prev.pending = worker.cp
    BY <2>1 DEF WorkerRests
  <2>3. /\ worker.to >= worker.cp.last /\ worker.to \in Int /\ worker.cp.last \in Int
        /\ disk.last \in Int /\ disk'.last \in Int /\ \A cp \in cleared : cp.last \in Int
    BY <2>1 DEF ClearedRests, Shape, Checkpoints, Schedules
  <2>4. cleared' \subseteq cleared \cup {worker.cp}
    BY <1>17, ClearFacts
  <2>5. CASE disk' = disk
    <3>1. cleared' = cleared
      BY <1>17, ClearFacts, <2>2, <2>5
    <3> QED
      BY <2>1, <2>5, <3>1 DEF ClearedRests
  <2>6. CASE /\ disk.pending = worker.cp /\ disk'.pending = NoCheckpoint
             /\ disk'.last = Later(disk.last, worker.to)
    <3>3. disk.last <= disk'.last /\ worker.to <= disk'.last
      BY <2>3, <2>6, LaterFacts
    <3>1. disk.last <= disk'.last /\ worker.cp.last <= disk'.last
      BY <2>3, <3>3
    <3>2. ASSUME NEW cp \in cleared'
          PROVE  /\ cp # NoCheckpoint /\ PassedIn(disk', cp) /\ PassedIn(mem, cp)
                 /\ edit.pc # "idle" => PassedIn(edit.prev, cp)
      <4>1. CASE cp = worker.cp
        BY <2>2, <2>3, <3>1, <4>1 DEF PassedIn
      <4>2. CASE cp # worker.cp
        <5>1. cp \in cleared /\ cp # NoCheckpoint
          BY <2>4, <4>2 DEF ClearedRests
        <5>2. disk.last >= cp.last /\ cp.last \in Int
          BY <2>3, <2>6, <4>2, <5>1 DEF ClearedRests, PassedIn
        <5>3. disk'.last >= cp.last
          BY <2>3, <3>1, <5>2
        <5> QED
          BY <5>1, <5>3 DEF ClearedRests, PassedIn
      <4> QED
        BY <4>1, <4>2
    <3> QED
      BY <2>1, <3>2 DEF ClearedRests
  <2> QED
    BY <1>17, ClearFacts, <2>5, <2>6
<1>18. ASSUME Forget
      PROVE  ClearedRests'
  <2>1. UNCHANGED <<disk, cleared, edit>> /\ worker'.pc = "none"
    BY <1>18, ForgetFacts, FreshFacts
  <2>2. CASE mem' = mem
    BY <2>1, <2>2 DEF ClearedRests
  <2>3. CASE mem.pending = worker.cp /\ mem'.last = Later(mem.last, worker.cp.last)
    <3>1. /\ mem.last \in Int /\ worker.cp.last \in Int /\ \A cp \in cleared : cp.last \in Int
      BY DEF Shape, Schedules, Checkpoints
    <3>2. mem'.last \in Int /\ mem.last <= mem'.last /\ worker.cp.last <= mem'.last
      BY <2>3, <3>1, LaterFacts
    <3>3. \A cp \in cleared : PassedIn(mem', cp)
      BY <2>3, <3>1, <3>2 DEF ClearedRests, PassedIn
    <3> QED
      BY <2>1, <3>3 DEF ClearedRests
  <2> QED
    BY <1>18, ForgetFacts, <2>2, <2>3
<1>19. ASSUME SetEnabled
      PROVE  ClearedRests'
  BY <1>19, SetEnabledFacts, FreshFacts DEF ClearedRests, PassedIn
<1>20. ASSUME DefineEnabled
      PROVE  ClearedRests'
  <2>1. /\ UNCHANGED <<mem, worker, cleared>> /\ Stored(edit.snap) /\ edit.snap \in Schedules
        /\ edit'.prev = edit.prev /\ (edit'.pc # "idle" => edit.pc # "idle")
    BY <1>20, DefineEnabledFacts DEF Shape, HandlerStates
  <2>2. \A cp \in cleared : cp \in Checkpoints /\ cp # NoCheckpoint
    BY DEF ClearedRests, Shape
  <2>3. \A cp \in cleared : PassedIn(disk', cp)
    BY <2>1, <2>2, StoredKeeps DEF ClearedRests
  <2> QED
    BY <2>1, <2>3 DEF ClearedRests
<1>21. ASSUME ReplaceFile
      PROVE  ClearedRests'
  BY <1>21, ReplaceFileFacts, FreshFacts DEF ClearedRests, PassedIn
<1>22. ASSUME UndoEnabled
      PROVE  ClearedRests'
  BY <1>22, UndoEnabledFacts, FreshFacts DEF ClearedRests, PassedIn
<1>23. ASSUME StopBegin
      PROVE  ClearedRests'
  BY <1>23, StopBeginFacts, FreshFacts DEF ClearedRests, PassedIn
<1>24. ASSUME Restart
      PROVE  ClearedRests'
  BY <1>24, RestartFacts, FreshFacts DEF ClearedRests, PassedIn
<1> QED
  BY <1>1, <1>2, <1>3, <1>4, <1>5, <1>6, <1>7, <1>8, <1>9, <1>10, <1>11, <1>12, <1>13, <1>14,
     <1>15, <1>16, <1>17, <1>18, <1>19, <1>20, <1>21, <1>22, <1>23, <1>24
     DEF Next, Handler, Task, Worker, Restart

\* Every step keeps everything out of the future.
LEMMA StepDated ==
  ASSUME Shape, SlotRests, WorkerRests, Dated, Next
  PROVE  Dated'
<1>1. ASSUME Arm \/ Disarm
      PROVE  Dated'
  <2>1. UNCHANGED <<now, mem, disk, worker, queue, hd, edit>>
    BY <1>1, ArmFacts, DisarmFacts
  <2> QED
    BY <2>1 DEF Dated
<1>2. ASSUME NEW i \in Slots, TaskSerial(i) \/ TaskPermit(i) \/ TaskBegin(i) \/ TaskWork(i) \/ TaskEnd(i)
      PROVE  Dated'
  <2>1. UNCHANGED <<now, mem, disk, worker, queue, hd, edit>>
    BY <1>2, TaskSerialFacts, TaskPermitFacts, TaskBeginFacts, TaskWorkFacts, TaskEndFacts
  <2> QED
    BY <2>1 DEF Dated
<1>3. ASSUME StartPlan
      PROVE  Dated'
  <2>1. UNCHANGED <<now, disk, queue, hd, edit, worker>>
    BY <1>3, StartPlanFacts
  <2>2. mem'.last = Advanced(mem) /\ mem'.pending = Planned(mem)
    BY <1>3, StartPlanFacts
  <2>3. /\ mem.last >= -1 /\ mem.last <= Advanced(mem) /\ Advanced(mem) <= now
        /\ Advanced(mem) \in Int
        /\ mem.last \in Int
    BY AdvancedFacts, MissedFacts
  <2>4. DatedSchedule(mem', now)
    BY <2>2, <2>3, PlannedFacts DEF DatedSchedule, Never
  <2> QED
    BY <2>1, <2>4 DEF Dated
<1>4. ASSUME StartPersist
      PROVE  Dated'
  <2>0. now \in Nat
    BY DEF Shape
  <2>5. mem \in Schedules
    BY DEF Shape
  <2>6. queue' = queue \/ queue' = <<>>
    BY <1>4, StartPersistFacts
  <2>7. UNCHANGED <<now, mem, hd, edit>> /\ Stored(mem)
    BY <1>4, StartPersistFacts
  <2>1. /\ UNCHANGED <<now, mem, hd, edit>> /\ Stored(mem) /\ mem \in Schedules
        /\ queue' = queue \/ queue' = <<>>
    BY <2>5, <2>6, <2>7
  <2>2. DatedSchedule(disk', now)
    BY <2>0, <2>1, DatedStored DEF Dated
  <2>3. \A k \in 1..Len(queue') : queue'[k] <= now
    BY <2>0, <2>1 DEF Dated
  <2>4. DatedCheckpoint(worker'.cp, now) /\ worker'.to <= now
    <3>1. CASE worker' = worker
      BY <3>1 DEF Dated
    <3>2. CASE worker' = NoWorker
      BY <2>0, <2>1, <3>2, FreshFacts, DatedNothing
    <3>3. CASE worker'.cp = mem.pending /\ worker'.to = -1
      BY <2>0, <2>1, <3>3 DEF Dated, DatedSchedule
    <3> QED
      BY <1>4, StartPersistFacts, <3>1, <3>2, <3>3
  <2> QED
    BY <2>0, <2>1, <2>2, <2>3, <2>4 DEF Dated
<1>5. ASSUME Evaluate
      PROVE  Dated'
  <2>1. UNCHANGED <<now, mem, disk, hd, edit, worker>> /\ queue' = Append(queue, now) /\ now \in Nat
        /\ queue \in Seq(Int)
    BY <1>5, EvaluateFacts DEF Shape
  <2>2. /\ Len(queue') = Len(queue) + 1 /\ queue'[Len(queue) + 1] = now
        /\ \A k \in 1..Len(queue) : queue'[k] = queue[k]
    BY <2>1
  <2>3. ASSUME NEW k \in 1..Len(queue')
        PROVE  queue'[k] <= now
    <3>1. Len(queue) \in Nat /\ (k \in 1..Len(queue) \/ k = Len(queue) + 1)
      BY <2>1, <2>2, <2>3
    <3> QED
      BY <2>1, <2>2, <3>1 DEF Dated
  <2> QED
    BY <2>1, <2>3 DEF Dated
<1>6. ASSUME Explicit
      PROVE  Dated'
  <2>1. UNCHANGED <<now, mem, disk, hd, edit, worker>> /\ queue' = Append(queue, now) /\ now \in Nat
        /\ queue \in Seq(Int)
    BY <1>6, ExplicitFacts DEF Shape
  <2>2. /\ Len(queue') = Len(queue) + 1 /\ queue'[Len(queue) + 1] = now
        /\ \A k \in 1..Len(queue) : queue'[k] = queue[k]
    BY <2>1
  <2>3. ASSUME NEW k \in 1..Len(queue')
        PROVE  queue'[k] <= now
    <3>1. Len(queue) \in Nat /\ (k \in 1..Len(queue) \/ k = Len(queue) + 1)
      BY <2>1, <2>2, <2>3
    <3> QED
      BY <2>1, <2>2, <3>1 DEF Dated
  <2> QED
    BY <2>1, <2>3 DEF Dated
<1>7. ASSUME Receive
      PROVE  Dated'
  <2>1. /\ UNCHANGED <<now, mem, disk, edit, worker>> /\ now \in Nat /\ queue \in Seq(Int)
        /\ queue # <<>>
        /\ queue' = Tail(queue)
    BY <1>7, ReceiveFacts DEF Shape
  <2>2. /\ Len(queue) \in Nat \ {0} /\ Len(queue') = Len(queue) - 1 /\ Head(queue) = queue[1]
        /\ \A k \in 1..Len(queue') : queue'[k] = queue[k + 1]
    BY <2>1
  <2>3. Head(queue) <= now
    BY <2>2 DEF Dated
  <2>4. \A k \in 1..Len(queue') : queue'[k] <= now
    BY <2>2 DEF Dated
  <2>5. /\ hd'["live"].at <= now /\ hd'["live"].to <= now /\ DatedSchedule(hd'["live"].snap, now)
        /\ hd'["rec"] = hd["rec"]
    BY <1>7, ReceiveFacts, <2>1, <2>3, DatedNothing
  <2>6. \A g \in Handlers : hd'[g].at <= now /\ hd'[g].to <= now /\ DatedSchedule(hd'[g].snap, now)
    BY <2>5 DEF Dated, Handlers
  <2> QED
    BY <2>1, <2>4, <2>6 DEF Dated
<1>8. ASSUME NEW h \in Handlers, Admit(h)
      PROVE  Dated'
  <2>0. now \in Nat
    BY DEF Shape
  <2>1. /\ UNCHANGED <<now, mem, disk, queue, edit, worker>> /\ OtherHandler(h)
    BY <1>8, AdmitFacts
  <2>2. hd'[h].at <= now /\ hd'[h].to <= now /\ DatedSchedule(hd'[h].snap, now)
    <3>1. CASE hd'[h] = Idle
      BY <2>0, <3>1, FreshFacts, DatedNothing
    <3>2. CASE hd'[h].snap = mem /\ hd'[h].at = hd[h].at /\ hd'[h].to \in {hd[h].to, now}
      BY <2>0, <3>2 DEF Dated
    <3> QED
      BY <1>8, AdmitFacts, <3>1, <3>2
  <2>3. \A g \in Handlers : hd'[g].at <= now /\ hd'[g].to <= now /\ DatedSchedule(hd'[g].snap, now)
    BY <2>0, <2>1, <2>2 DEF Dated, OtherHandler
  <2> QED
    BY <2>0, <2>1, <2>3 DEF Dated
<1>9. ASSUME NEW h \in Handlers, Apply(h)
      PROVE  Dated'
  <2>0. now \in Nat
    BY DEF Shape
  <2>1. /\ UNCHANGED <<now, mem, disk, queue, edit, worker>> /\ OtherHandler(h)
    BY <1>9, ApplyFacts
  <2>2. hd'[h].at <= now /\ hd'[h].to <= now /\ DatedSchedule(hd'[h].snap, now)
    <3>1. HandlerKept(h) /\ hd'[h].snap = hd[h].snap
      BY <1>9, ApplyFacts
    <3> QED
      BY <3>1 DEF Dated, HandlerKept
  <2>3. \A g \in Handlers : hd'[g].at <= now /\ hd'[g].to <= now /\ DatedSchedule(hd'[g].snap, now)
    BY <2>0, <2>1, <2>2 DEF Dated, OtherHandler
  <2> QED
    BY <2>0, <2>1, <2>3 DEF Dated
<1>10. ASSUME NEW h \in Handlers, CancelOne(h)
      PROVE  Dated'
  <2>0. now \in Nat
    BY DEF Shape
  <2>1. /\ UNCHANGED <<now, mem, disk, queue, edit, worker>> /\ OtherHandler(h)
    BY <1>10, CancelOneFacts
  <2>2. hd'[h].at <= now /\ hd'[h].to <= now /\ DatedSchedule(hd'[h].snap, now)
    <3>1. HandlerKept(h) /\ hd'[h].snap = hd[h].snap
      BY <1>10, CancelOneFacts
    <3> QED
      BY <3>1 DEF Dated, HandlerKept
  <2>3. \A g \in Handlers : hd'[g].at <= now /\ hd'[g].to <= now /\ DatedSchedule(hd'[g].snap, now)
    BY <2>0, <2>1, <2>2 DEF Dated, OtherHandler
  <2> QED
    BY <2>0, <2>1, <2>3 DEF Dated
<1>11. ASSUME NEW h \in Handlers, Skip(h)
      PROVE  Dated'
  <2>1. /\ UNCHANGED <<now, disk, queue, edit, worker>> /\ OtherHandler(h) /\ now \in Nat
        /\ HandlerKept(h) /\ hd'[h].snap = mem' /\ mem'.last = Cursor(h, now)
        /\ mem'.pending = mem.pending /\ now \in Int /\ mem.last \in Int
    BY <1>11, SkipFacts DEF Shape, HandlerStates, Schedules
  <2>4. /\ mem'.last \in Int /\ mem.last <= mem'.last /\ mem'.last \in {mem.last, hd[h].at, now}
    BY <2>1, CursorFacts
  <2>5. now <= now /\ hd[h].at <= now /\ mem.last <= now /\ mem.last >= -1
    BY <2>1 DEF Dated, DatedSchedule, Never
  <2>6. DatedSchedule(mem', now)
    BY <2>1, <2>4, <2>5 DEF Dated, DatedSchedule, Never
  <2>2. hd'[h].at <= now /\ hd'[h].to <= now /\ DatedSchedule(hd'[h].snap, now)
    BY <2>1, <2>6 DEF Dated, HandlerKept
  <2>3. \A g \in Handlers : hd'[g].at <= now /\ hd'[g].to <= now /\ DatedSchedule(hd'[g].snap, now)
    BY <2>1, <2>2 DEF Dated, OtherHandler
  <2> QED
    BY <2>1, <2>3, <2>6 DEF Dated
<1>12. ASSUME NEW h \in Handlers, SkipFile(h)
      PROVE  Dated'
  <2>1. /\ UNCHANGED <<now, mem, queue, edit, worker>> /\ OtherHandler(h) /\ HandlerKept(h)
        /\ hd'[h].snap = hd[h].snap /\ Stored(hd[h].snap) /\ hd[h].snap \in Schedules
    BY <1>12, SkipFileFacts DEF Shape, HandlerStates
  <2>2. hd'[h].at <= now /\ hd'[h].to <= now /\ DatedSchedule(hd'[h].snap, now)
    BY <2>1 DEF Dated, HandlerKept
  <2>3. \A g \in Handlers : hd'[g].at <= now /\ hd'[g].to <= now /\ DatedSchedule(hd'[g].snap, now)
    BY <2>1, <2>2 DEF Dated, OtherHandler
  <2>4. DatedSchedule(disk', now)
    BY <2>1, DatedStored DEF Dated
  <2> QED
    BY <2>1, <2>3, <2>4 DEF Dated
<1>13. ASSUME NEW h \in Handlers, SkipRow(h)
      PROVE  Dated'
  <2>0. now \in Nat
    BY DEF Shape
  <2>1. /\ UNCHANGED <<now, mem, disk, queue, edit, worker>> /\ OtherHandler(h)
    BY <1>13, SkipRowFacts
  <2>2. hd'[h].at <= now /\ hd'[h].to <= now /\ DatedSchedule(hd'[h].snap, now)
    BY <1>13, SkipRowFacts, <2>0, <2>1, FreshFacts, DatedNothing DEF Dated, HandlerKept
  <2>3. \A g \in Handlers : hd'[g].at <= now /\ hd'[g].to <= now /\ DatedSchedule(hd'[g].snap, now)
    BY <2>0, <2>1, <2>2 DEF Dated, OtherHandler
  <2> QED
    BY <2>0, <2>1, <2>3 DEF Dated
<1>14. ASSUME NEW h \in Handlers, Record(h)
      PROVE  Dated'
  <2>0. now \in Nat
    BY DEF Shape
  <2>1. /\ UNCHANGED <<now, mem, disk, queue, edit, worker>> /\ OtherHandler(h)
    BY <1>14, RecordFacts
  <2>2. hd'[h].at <= now /\ hd'[h].to <= now /\ DatedSchedule(hd'[h].snap, now)
    BY <1>14, RecordFacts, <2>0, <2>1 DEF Dated, HandlerKept
  <2>3. \A g \in Handlers : hd'[g].at <= now /\ hd'[g].to <= now /\ DatedSchedule(hd'[g].snap, now)
    BY <2>0, <2>1, <2>2 DEF Dated, OtherHandler
  <2> QED
    BY <2>0, <2>1, <2>3 DEF Dated
<1>15. ASSUME NEW h \in Handlers, MoveCursor(h)
      PROVE  Dated'
  <2>1. /\ UNCHANGED <<now, disk, queue, edit, worker>> /\ OtherHandler(h) /\ now \in Nat
        /\ HandlerKept(h) /\ hd'[h].snap = mem' /\ mem'.last = Cursor(h, hd[h].to)
        /\ mem'.pending = mem.pending /\ hd[h].to \in Int /\ mem.last \in Int
    BY <1>15, MoveCursorFacts DEF Shape, HandlerStates, Schedules
  <2>4. /\ mem'.last \in Int /\ mem.last <= mem'.last
        /\ mem'.last \in {mem.last, hd[h].at, hd[h].to}
    BY <2>1, CursorFacts
  <2>5. hd[h].to <= now /\ hd[h].at <= now /\ mem.last <= now /\ mem.last >= -1
    BY <2>1 DEF Dated, DatedSchedule, Never
  <2>6. DatedSchedule(mem', now)
    BY <2>1, <2>4, <2>5 DEF Dated, DatedSchedule, Never
  <2>2. hd'[h].at <= now /\ hd'[h].to <= now /\ DatedSchedule(hd'[h].snap, now)
    BY <2>1, <2>6 DEF Dated, HandlerKept
  <2>3. \A g \in Handlers : hd'[g].at <= now /\ hd'[g].to <= now /\ DatedSchedule(hd'[g].snap, now)
    BY <2>1, <2>2 DEF Dated, OtherHandler
  <2> QED
    BY <2>1, <2>3, <2>6 DEF Dated
<1>16. ASSUME NEW h \in Handlers, PersistCursor(h)
      PROVE  Dated'
  <2>1. /\ UNCHANGED <<now, mem, queue, edit, worker>> /\ OtherHandler(h) /\ HandlerKept(h)
        /\ hd'[h].snap = hd[h].snap /\ Stored(hd[h].snap) /\ hd[h].snap \in Schedules
    BY <1>16, PersistCursorFacts DEF Shape, HandlerStates
  <2>2. hd'[h].at <= now /\ hd'[h].to <= now /\ DatedSchedule(hd'[h].snap, now)
    BY <2>1 DEF Dated, HandlerKept
  <2>3. \A g \in Handlers : hd'[g].at <= now /\ hd'[g].to <= now /\ DatedSchedule(hd'[g].snap, now)
    BY <2>1, <2>2 DEF Dated, OtherHandler
  <2>4. DatedSchedule(disk', now)
    BY <2>1, DatedStored DEF Dated
  <2> QED
    BY <2>1, <2>3, <2>4 DEF Dated
<1>17. ASSUME NEW h \in Handlers, Spawn(h)
      PROVE  Dated'
  <2>0. now \in Nat
    BY DEF Shape
  <2>1. /\ UNCHANGED <<now, mem, disk, queue, edit, worker>> /\ OtherHandler(h)
    BY <1>17, SpawnFacts
  <2>2. hd'[h].at <= now /\ hd'[h].to <= now /\ DatedSchedule(hd'[h].snap, now)
    BY <1>17, SpawnFacts, <2>0, <2>1, FreshFacts, DatedNothing DEF Dated, HandlerKept
  <2>3. \A g \in Handlers : hd'[g].at <= now /\ hd'[g].to <= now /\ DatedSchedule(hd'[g].snap, now)
    BY <2>0, <2>1, <2>2 DEF Dated, OtherHandler
  <2> QED
    BY <2>0, <2>1, <2>3 DEF Dated
<1>18. ASSUME Gate
      PROVE  Dated'
  <2>1. /\ UNCHANGED <<now, mem, disk, queue, edit>> /\ worker'.cp = worker.cp
        /\ worker'.to = worker.to
        /\ worker.pc = "gate" /\ now \in Nat
    BY <1>18, GateFacts DEF Shape
  <2>2. worker.at <= now
    <3>1. worker.pc # "none" /\ worker.left # 0
      BY <2>1 DEF WorkerRests
    <3> QED
      BY <3>1, AtFacts
  <2>3. /\ hd'["rec"].at <= now /\ hd'["rec"].to <= now /\ DatedSchedule(hd'["rec"].snap, now)
        /\ hd'["live"] = hd["live"]
    BY <1>18, GateFacts, <2>1, <2>2, DatedNothing
  <2>4. \A g \in Handlers : hd'[g].at <= now /\ hd'[g].to <= now /\ DatedSchedule(hd'[g].snap, now)
    BY <2>3 DEF Dated, Handlers
  <2> QED
    BY <2>1, <2>4 DEF Dated
<1>19. ASSUME GiveUp
      PROVE  Dated'
  <2>0. now \in Nat
    BY DEF Shape
  <2>1. UNCHANGED <<now, mem, disk, queue, edit, hd>>
    BY <1>19, GiveUpFacts
  <2>2. \/ worker'.cp = worker.cp /\ worker'.to = worker.to
        \/ worker'.cp = NoCheckpoint /\ worker'.to = -1
    BY <1>19, GiveUpFacts, FreshFacts
  <2>3. DatedCheckpoint(worker'.cp, now) /\ worker'.to <= now
    BY <2>0, <2>1, <2>2, DatedNothing DEF Dated
  <2> QED
    BY <2>0, <2>1, <2>3 DEF Dated
<1>20. ASSUME Handled
      PROVE  Dated'
  <2>0. now \in Nat
    BY DEF Shape
  <2>1. UNCHANGED <<now, mem, disk, queue, edit, hd>>
    BY <1>20, HandledFacts
  <2>2. \/ worker'.cp = worker.cp /\ worker'.to = worker.to
        \/ worker'.cp = NoCheckpoint /\ worker'.to = -1
    BY <1>20, HandledFacts, FreshFacts
  <2>3. DatedCheckpoint(worker'.cp, now) /\ worker'.to <= now
    BY <2>0, <2>1, <2>2, DatedNothing DEF Dated
  <2> QED
    BY <2>0, <2>1, <2>3 DEF Dated
<1>21. ASSUME Release
      PROVE  Dated'
  <2>0. now \in Nat
    BY DEF Shape
  <2>1. UNCHANGED <<now, mem, disk, queue, edit, hd>>
    BY <1>21, ReleaseFacts
  <2>2. \/ worker'.cp = worker.cp /\ worker'.to = worker.to
        \/ worker'.cp = NoCheckpoint /\ worker'.to = -1
    BY <1>21, ReleaseFacts, FreshFacts
  <2>3. DatedCheckpoint(worker'.cp, now) /\ worker'.to <= now
    BY <2>0, <2>1, <2>2, DatedNothing DEF Dated
  <2> QED
    BY <2>0, <2>1, <2>3 DEF Dated
<1>22. ASSUME Drain
      PROVE  Dated'
  <2>0. now \in Nat
    BY DEF Shape
  <2>1. UNCHANGED <<now, mem, disk, queue, edit, hd>>
    BY <1>22, DrainFacts
  <2>2. \/ worker'.cp = worker.cp /\ worker'.to = worker.to
        \/ worker'.cp = NoCheckpoint /\ worker'.to = -1
    BY <1>22, DrainFacts, FreshFacts
  <2>3. DatedCheckpoint(worker'.cp, now) /\ worker'.to <= now
    BY <2>0, <2>1, <2>2, DatedNothing DEF Dated
  <2> QED
    BY <2>0, <2>1, <2>3 DEF Dated
<1>23. ASSUME SeeActive
      PROVE  Dated'
  <2>0. now \in Nat
    BY DEF Shape
  <2>1. UNCHANGED <<now, mem, disk, queue, edit, hd>>
    BY <1>23, SeeActiveFacts
  <2>2. \/ worker'.cp = worker.cp /\ worker'.to = worker.to
        \/ worker'.cp = NoCheckpoint /\ worker'.to = -1
    BY <1>23, SeeActiveFacts, FreshFacts
  <2>3. DatedCheckpoint(worker'.cp, now) /\ worker'.to <= now
    BY <2>0, <2>1, <2>2, DatedNothing DEF Dated
  <2> QED
    BY <2>0, <2>1, <2>3 DEF Dated
<1>24. ASSUME SeeUnfinished
      PROVE  Dated'
  <2>0. now \in Nat
    BY DEF Shape
  <2>1. UNCHANGED <<now, mem, disk, queue, edit, hd>> /\ worker.pc = "rest"
    BY <1>24, SeeUnfinishedFacts
  <2>2. /\ mem.last \in Int /\ worker.cp.last \in Int /\ mem.last <= now /\ worker.cp.last <= now
        /\ mem.pending = worker.cp
    BY <2>0, <2>1
       DEF Dated, DatedSchedule, DatedCheckpoint, WorkerRests, Shape, Schedules, Checkpoints
  <2>3. \/ worker'.cp = worker.cp /\ worker'.to = worker.to
        \/ worker'.cp = NoCheckpoint /\ worker'.to = -1
        \/ worker'.cp = worker.cp /\ worker'.to = Later(mem.last, worker.cp.last)
    BY <1>24, SeeUnfinishedFacts, <2>2, FreshFacts
  <2>4. Later(mem.last, worker.cp.last) <= now
    BY <2>2, LaterFacts
  <2>5. DatedCheckpoint(worker'.cp, now) /\ worker'.to <= now
    BY <2>0, <2>1, <2>3, <2>4, DatedNothing DEF Dated
  <2> QED
    BY <2>0, <2>1, <2>5 DEF Dated
<1>25. ASSUME Clear
      PROVE  Dated'
  <2>0. now \in Nat
    BY DEF Shape
  <2>1. UNCHANGED <<now, mem, queue, edit, hd>>
    BY <1>25, ClearFacts
  <2>2. \/ worker'.cp = worker.cp /\ worker'.to = worker.to
        \/ worker'.cp = NoCheckpoint /\ worker'.to = -1
    BY <1>25, ClearFacts, FreshFacts
  <2>3. DatedCheckpoint(worker'.cp, now) /\ worker'.to <= now
    BY <2>0, <2>1, <2>2, DatedNothing DEF Dated
  <2>4. /\ disk.last \in Int /\ worker.to \in Int
        /\ Later(disk.last, worker.to) \in {disk.last, worker.to}
        /\ disk.last <= Later(disk.last, worker.to) /\ Later(disk.last, worker.to) \in Int
    BY LaterFacts DEF Shape, Schedules
  <2>5. /\ disk.last >= -1 /\ disk.last <= now /\ worker.to <= now
    BY DEF Dated, DatedSchedule, Never
  <2>6. CASE disk' = disk
    BY <2>0, <2>1, <2>3, <2>6 DEF Dated
  <2>7. CASE disk'.pending = NoCheckpoint /\ disk'.last = Later(disk.last, worker.to)
    <3>1. DatedSchedule(disk', now)
      BY <2>0, <2>1, <2>4, <2>5, <2>7, DatedNothing DEF DatedSchedule, Never
    <3> QED
      BY <2>0, <2>1, <2>3, <3>1 DEF Dated
  <2> QED
    BY <1>25, ClearFacts, <2>6, <2>7
<1>26. ASSUME Forget
      PROVE  Dated'
  <2>0. now \in Nat
    BY DEF Shape
  <2>1. UNCHANGED <<now, disk, queue, edit, hd>> /\ worker.pc = "forget"
    BY <1>26, ForgetFacts
  <2>2. worker'.cp = NoCheckpoint /\ worker'.to = -1
    BY <1>26, ForgetFacts, FreshFacts
  <2>3. DatedCheckpoint(worker'.cp, now) /\ worker'.to <= now
    BY <2>0, <2>1, <2>2, DatedNothing
  <2>4. /\ mem.last \in Int /\ worker.cp.last \in Int /\ mem.last <= now /\ worker.cp.last <= now
        /\ mem.last >= -1
    BY <2>0, <2>1
       DEF Dated, DatedSchedule, DatedCheckpoint, WorkerRests, Shape, Schedules, Checkpoints, Never
  <2>5. DatedSchedule(mem', now)
    <3>1. CASE mem' = mem
      BY <3>1 DEF Dated
    <3>2. CASE mem'.pending = NoCheckpoint /\ mem'.last = Later(mem.last, worker.cp.last)
      <4>1. mem'.last \in Int /\ mem.last <= mem'.last /\ mem'.last <= now
        BY <2>0, <2>1, <2>4, <3>2, LaterFacts
      <4> QED
        BY <2>0, <2>1, <2>4, <3>2, <4>1, DatedNothing DEF DatedSchedule, Never
    <3> QED
      BY <1>26, ForgetFacts, <3>1, <3>2
  <2> QED
    BY <2>0, <2>1, <2>3, <2>5 DEF Dated
<1>27. ASSUME SetEnabled
      PROVE  Dated'
  <2>1. /\ UNCHANGED <<now, disk, queue, worker, hd>> /\ mem'.last = mem.last
        /\ mem'.pending = mem.pending
        /\ edit'.prev = mem /\ edit'.snap = mem'
    BY <1>27, SetEnabledFacts
  <2>2. DatedSchedule(mem', now)
    BY <2>1 DEF Dated, DatedSchedule
  <2> QED
    BY <2>1, <2>2 DEF Dated
<1>28. ASSUME DefineEnabled
      PROVE  Dated'
  <2>1. /\ UNCHANGED <<now, mem, queue, worker, hd>> /\ edit'.prev = edit.prev
        /\ edit'.snap = edit.snap
        /\ Stored(edit.snap) /\ edit.snap \in Schedules
    BY <1>28, DefineEnabledFacts DEF Shape
  <2>2. DatedSchedule(disk', now)
    BY <2>1, DatedStored DEF Dated
  <2> QED
    BY <2>1, <2>2 DEF Dated
<1>29. ASSUME ReplaceFile
      PROVE  Dated'
  <2>0. now \in Nat
    BY DEF Shape
  <2>1. /\ UNCHANGED <<now, mem, queue, worker, hd>> /\ disk' \in {disk, mem}
    BY <1>29, ReplaceFileFacts
  <2>2. DatedSchedule(edit'.prev, now) /\ DatedSchedule(edit'.snap, now)
    BY <1>29, ReplaceFileFacts, <2>0, <2>1, FreshFacts, DatedNothing DEF Dated
  <2>3. DatedSchedule(disk', now)
    BY <2>0, <2>1 DEF Dated
  <2> QED
    BY <2>0, <2>1, <2>2, <2>3 DEF Dated
<1>30. ASSUME UndoEnabled
      PROVE  Dated'
  <2>0. now \in Nat
    BY DEF Shape
  <2>1. /\ UNCHANGED <<now, disk, queue, worker, hd>> /\ mem' = edit.prev /\ edit' = NoEdit
    BY <1>30, UndoEnabledFacts
  <2> QED
    BY <2>0, <2>1, FreshFacts, DatedNothing DEF Dated
<1>31. ASSUME StopBegin
      PROVE  Dated'
  <2>0. now \in Nat
    BY DEF Shape
  <2>1. /\ UNCHANGED <<now, mem, disk, edit>>
        /\ worker' = worker \/ worker' = NoWorker
        /\ queue' = queue \/ queue' = <<>>
    BY <1>31, StopBeginFacts
  <2>2. DatedCheckpoint(worker'.cp, now) /\ worker'.to <= now
    BY <2>0, <2>1, FreshFacts, DatedNothing DEF Dated
  <2>3. \A k \in 1..Len(queue') : queue'[k] <= now
    BY <2>0, <2>1 DEF Dated
  <2>4. hd'["rec"] = Idle /\ hd'["live"] = hd["live"]
    BY <1>31, StopBeginFacts
  <2>5. \A g \in Handlers : hd'[g].at <= now /\ hd'[g].to <= now /\ DatedSchedule(hd'[g].snap, now)
    BY <2>0, <2>1, <2>4, FreshFacts, DatedNothing DEF Dated, Handlers
  <2> QED
    BY <2>0, <2>1, <2>2, <2>3, <2>5 DEF Dated
<1>32. ASSUME StopEnd
      PROVE  Dated'
  <2>0. now \in Nat
    BY DEF Shape
  <2>1. /\ UNCHANGED <<now, mem, disk, edit>>
        /\ worker' = worker \/ worker' = NoWorker
        /\ queue' = queue \/ queue' = <<>>
    BY <1>32, StopEndFacts
  <2>2. DatedCheckpoint(worker'.cp, now) /\ worker'.to <= now
    BY <2>0, <2>1, FreshFacts, DatedNothing DEF Dated
  <2>3. \A k \in 1..Len(queue') : queue'[k] <= now
    BY <2>0, <2>1 DEF Dated
  <2>4. hd'["live"] = Idle /\ hd'["rec"] = hd["rec"]
    BY <1>32, StopEndFacts
  <2>5. \A g \in Handlers : hd'[g].at <= now /\ hd'[g].to <= now /\ DatedSchedule(hd'[g].snap, now)
    BY <2>0, <2>1, <2>4, FreshFacts, DatedNothing DEF Dated, Handlers
  <2> QED
    BY <2>0, <2>1, <2>2, <2>3, <2>5 DEF Dated
<1>33. ASSUME Restart
      PROVE  Dated'
  <2>0. now \in Nat
    BY DEF Shape
  <2>1. /\ UNCHANGED <<now, disk>> /\ mem' = disk /\ edit' = NoEdit /\ worker' = NoWorker
        /\ queue' = <<>>
    BY <1>33, RestartFacts
  <2>2. \A g \in Handlers : hd'[g] = Idle
    BY <1>33, RestartFacts
  <2>3. \A k \in 1..Len(queue') : queue'[k] <= now
    BY <2>0, <2>1
  <2>4. \A g \in Handlers : hd'[g].at <= now /\ hd'[g].to <= now /\ DatedSchedule(hd'[g].snap, now)
    BY <2>0, <2>1, <2>2, FreshFacts, DatedNothing
  <2> QED
    BY <2>0, <2>1, <2>3, <2>4, FreshFacts, DatedNothing DEF Dated
<1>34. ASSUME Clock
      PROVE  Dated'
  <2>1. UNCHANGED <<mem, disk, queue, hd, edit, worker>> /\ now' = now + 1 /\ now \in Nat
    BY <1>34, ClockFacts DEF Shape
  <2>2. /\ mem \in Schedules /\ disk \in Schedules /\ edit.prev \in Schedules
        /\ edit.snap \in Schedules
        /\ \A g \in Handlers : hd[g].snap \in Schedules /\ hd[g].at \in Int /\ hd[g].to \in Int
        /\ worker.to \in Int /\ worker.cp.last \in Int /\ worker.cp.count \in Int
        /\ queue \in Seq(Int)
    BY DEF Shape, HandlerStates, Checkpoints
  <2>3. /\ DatedSchedule(mem, now + 1) /\ DatedSchedule(disk, now + 1)
        /\ DatedSchedule(edit.prev, now + 1) /\ DatedSchedule(edit.snap, now + 1)
    BY <2>1, <2>2, DatedLater DEF Dated
  <2>4. \A g \in Handlers : hd[g].at <= now + 1 /\ hd[g].to <= now + 1 /\ DatedSchedule(hd[g].snap, now + 1)
    BY <2>1, <2>2, DatedLater DEF Dated
  <2>5. DatedCheckpoint(worker.cp, now + 1) /\ worker.to <= now + 1
    BY <2>1, <2>2 DEF Dated, DatedCheckpoint
  <2>6. \A k \in 1..Len(queue) : queue[k] <= now + 1
    BY <2>1, <2>2 DEF Dated
  <2> QED
    BY <2>1, <2>3, <2>4, <2>5, <2>6 DEF Dated
<1> QED
  BY <1>1, <1>2, <1>3, <1>4, <1>5, <1>6, <1>7, <1>8, <1>9, <1>10, <1>11, <1>12, <1>13, <1>14,
     <1>15, <1>16, <1>17, <1>18, <1>19, <1>20, <1>21, <1>22, <1>23, <1>24, <1>25, <1>26, <1>27,
     <1>28, <1>29, <1>30, <1>31, <1>32, <1>33, <1>34 DEF Next, Handler, Task, Worker, Restart

\* Every step leaves nothing of a worker that has ended.
LEMMA StepNone ==
  ASSUME Shape, SlotRests, NoneRests, Next
  PROVE  NoneRests'
<1>1. ASSUME StartPlan \/ Evaluate \/ Explicit \/ Receive \/ Arm \/ Disarm \/ SetEnabled \/ DefineEnabled \/
             ReplaceFile \/ UndoEnabled \/ StopEnd \/ Clock
      PROVE  NoneRests'
  <2>1. UNCHANGED <<worker>>
    BY <1>1, StartPlanFacts, EvaluateFacts, ExplicitFacts, ReceiveFacts, ArmFacts, DisarmFacts,
       SetEnabledFacts, DefineEnabledFacts, ReplaceFileFacts, UndoEnabledFacts, StopEndFacts,
       ClockFacts
  <2> QED
    BY <2>1 DEF NoneRests
<1>2. ASSUME NEW h \in Handlers, Admit(h) \/ Apply(h) \/ CancelOne(h) \/ Skip(h) \/ SkipFile(h) \/ SkipRow(h) \/ Record(h) \/
             MoveCursor(h) \/ PersistCursor(h) \/ Spawn(h)
      PROVE  NoneRests'
  <2>1. UNCHANGED <<worker>>
    BY <1>2, AdmitFacts, ApplyFacts, CancelOneFacts, SkipFacts, SkipFileFacts, SkipRowFacts,
       RecordFacts, MoveCursorFacts, PersistCursorFacts, SpawnFacts
  <2> QED
    BY <2>1 DEF NoneRests
<1>3. ASSUME NEW i \in Slots, TaskSerial(i) \/ TaskPermit(i) \/ TaskBegin(i) \/ TaskWork(i) \/ TaskEnd(i)
      PROVE  NoneRests'
  <2>1. UNCHANGED <<worker>>
    BY <1>3, TaskSerialFacts, TaskPermitFacts, TaskBeginFacts, TaskWorkFacts, TaskEndFacts
  <2> QED
    BY <2>1 DEF NoneRests
<1>4. ASSUME StartPersist
      PROVE  NoneRests'
  <2>1. worker' = worker \/ worker' = NoWorker \/ worker'.pc = "gate"
    BY <1>4, StartPersistFacts
  <2> QED
    BY <2>1 DEF NoneRests
<1>5. ASSUME Gate
      PROVE  NoneRests'
  BY <1>5, GateFacts, FreshFacts DEF NoneRests
<1>6. ASSUME GiveUp
      PROVE  NoneRests'
  BY <1>6, GiveUpFacts, FreshFacts DEF NoneRests
<1>7. ASSUME Handled
      PROVE  NoneRests'
  BY <1>7, HandledFacts, FreshFacts DEF NoneRests
<1>8. ASSUME Release
      PROVE  NoneRests'
  BY <1>8, ReleaseFacts, FreshFacts DEF NoneRests
<1>9. ASSUME Drain
      PROVE  NoneRests'
  BY <1>9, DrainFacts, FreshFacts DEF NoneRests
<1>10. ASSUME SeeActive
      PROVE  NoneRests'
  BY <1>10, SeeActiveFacts, FreshFacts DEF NoneRests
<1>11. ASSUME SeeUnfinished
      PROVE  NoneRests'
  BY <1>11, SeeUnfinishedFacts, FreshFacts DEF NoneRests
<1>12. ASSUME Clear
      PROVE  NoneRests'
  BY <1>12, ClearFacts, FreshFacts DEF NoneRests
<1>13. ASSUME Forget
      PROVE  NoneRests'
  BY <1>13, ForgetFacts, FreshFacts DEF NoneRests
<1>14. ASSUME StopBegin
      PROVE  NoneRests'
  BY <1>14, StopBeginFacts, FreshFacts DEF NoneRests
<1>15. ASSUME Restart
      PROVE  NoneRests'
  BY <1>15, RestartFacts, FreshFacts DEF NoneRests
<1> QED
  BY <1>1, <1>2, <1>3, <1>4, <1>5, <1>6, <1>7, <1>8, <1>9, <1>10, <1>11, <1>12, <1>13, <1>14,
     <1>15 DEF Next, Handler, Task, Worker, Restart

\* What a step releases was released before, or is handled by it.
ReleasedStep ==
    \A k \in 0..(worker'.cp.count - 1) :
        worker'.pc # "none" /\ ~failed' /\ Released(k)' =>
            /\ worker.pc # "none" /\ ~failed /\ worker'.cp = worker.cp
            /\ \/ Released(k)
               \/ /\ k = worker.cp.count - worker.left /\ worker' = worker
                  /\ hd["rec"].pc \in {"row", "skipRow"} /\ hd'["rec"].pc = "idle"

\* Recovered work is recorded or goes on, unless the recovery is blocked or over.
RecordStep ==
    \A i \in Slots :
        ex[i].rec /\ (Active(i) \/ Unfinished(i)) =>
            \/ failed' \/ worker'.pc = "none"
            \/ ex[i].at \in recorded'
            \/ ex'[i].rec /\ ex'[i].at = ex[i].at /\ (Active(i) \/ Unfinished(i))'

\* What is handled is recorded or at work, unless the recovery is blocked or over.
HandledStep ==
    hd["rec"].pc \in {"row", "skipRow"} /\ hd'["rec"].pc = "idle" =>
        \/ failed' \/ worker'.pc = "none"
        \/ hd["rec"].at \in recorded'
        \/ \E j \in Slots : ex'[j].rec /\ ex'[j].at = hd["rec"].at /\ Unfinished(j)'

\* Nothing more is released while the worker and its trigger stay.
LEMMA ReleasedSame ==
  ASSUME worker' = worker, failed => failed',
         hd'["rec"].pc = "idle" => hd["rec"].pc = "idle" \/ failed'
  PROVE  ReleasedStep
BY DEF ReleasedStep, Released

\* Nothing more is released while the worker does something else.
LEMMA ReleasedElse ==
  ASSUME worker.pc # "none", failed => failed', worker'.cp = worker.cp, worker'.left = worker.left,
         worker'.pc # "handle" \/ hd'["rec"].pc # "idle"
  PROVE  ReleasedStep
BY DEF ReleasedStep, Released

\* What a step may release.
LEMMA StepReleased ==
  ASSUME Shape, SlotRests, LifeRests, WorkerRests, Next
  PROVE  ReleasedStep
<1>1. ASSUME StartPlan \/ Evaluate \/ Explicit \/ Arm \/ Disarm \/ SetEnabled \/ DefineEnabled \/ ReplaceFile \/
             UndoEnabled \/ Clock
      PROVE  ReleasedStep
  <2>1. UNCHANGED <<failed, worker, hd>>
    BY <1>1, StartPlanFacts, EvaluateFacts, ExplicitFacts, ArmFacts, DisarmFacts,
       SetEnabledFacts, DefineEnabledFacts, ReplaceFileFacts, UndoEnabledFacts, ClockFacts
  <2> QED
    BY <2>1 DEF ReleasedStep, Released
<1>2. ASSUME NEW i \in Slots, TaskSerial(i) \/ TaskPermit(i) \/ TaskWork(i)
      PROVE  ReleasedStep
  <2>1. UNCHANGED <<failed, worker, hd>>
    BY <1>2, TaskSerialFacts, TaskPermitFacts, TaskWorkFacts
  <2> QED
    BY <2>1 DEF ReleasedStep, Released
<1>3. ASSUME StartPersist
      PROVE  ReleasedStep
  <2>1. worker.pc = "none"
    BY <1>3, StartPersistFacts DEF LifeRests
  <2>2. CASE worker'.pc = "none"
    BY <2>2 DEF ReleasedStep
  <2>3. CASE worker'.pc = "gate" /\ worker'.left = mem.pending.count /\ worker'.cp = mem.pending
    <3>1. mem.pending.count \in Int
      BY DEF Shape, Schedules, Checkpoints
    <3>2. \A k \in 0..(worker'.cp.count - 1) : ~Released(k)'
      BY <2>3, <3>1 DEF Released
    <3> QED
      BY <3>2 DEF ReleasedStep
  <2> QED
    BY <1>3, StartPersistFacts, <2>1, <2>2, <2>3, FreshFacts
<1>4. ASSUME Receive
      PROVE  ReleasedStep
  <2>1. worker' = worker /\ failed' = failed /\ hd'["rec"] = hd["rec"]
    BY <1>4, ReceiveFacts
  <2> QED
    BY <2>1, ReleasedSame
<1>5. ASSUME NEW h \in Handlers, Admit(h)
      PROVE  ReleasedStep
  <2>1. worker' = worker /\ (failed => failed') /\ OtherHandler(h)
    BY <1>5, AdmitFacts
  <2>2. hd'[h].pc = "idle" => failed'
    BY <1>5, AdmitFacts, FreshFacts
  <2>3. hd'["rec"].pc = "idle" => hd["rec"].pc = "idle" \/ failed'
    BY <2>1, <2>2 DEF OtherHandler, Handlers
  <2> QED
    BY <2>1, <2>3, ReleasedSame
<1>6. ASSUME NEW h \in Handlers, Apply(h)
      PROVE  ReleasedStep
  <2>1. worker' = worker /\ (failed => failed') /\ OtherHandler(h)
    BY <1>6, ApplyFacts
  <2>2. hd'[h].pc = "idle" => failed'
    BY <1>6, ApplyFacts, FreshFacts
  <2>3. hd'["rec"].pc = "idle" => hd["rec"].pc = "idle" \/ failed'
    BY <2>1, <2>2 DEF OtherHandler, Handlers
  <2> QED
    BY <2>1, <2>3, ReleasedSame
<1>7. ASSUME NEW h \in Handlers, CancelOne(h)
      PROVE  ReleasedStep
  <2>1. worker' = worker /\ (failed => failed') /\ OtherHandler(h)
    BY <1>7, CancelOneFacts
  <2>2. hd'[h].pc = "idle" => failed'
    BY <1>7, CancelOneFacts, FreshFacts
  <2>3. hd'["rec"].pc = "idle" => hd["rec"].pc = "idle" \/ failed'
    BY <2>1, <2>2 DEF OtherHandler, Handlers
  <2> QED
    BY <2>1, <2>3, ReleasedSame
<1>8. ASSUME NEW h \in Handlers, Skip(h)
      PROVE  ReleasedStep
  <2>1. worker' = worker /\ (failed => failed') /\ OtherHandler(h)
    BY <1>8, SkipFacts
  <2>2. hd'[h].pc = "idle" => failed'
    BY <1>8, SkipFacts, FreshFacts
  <2>3. hd'["rec"].pc = "idle" => hd["rec"].pc = "idle" \/ failed'
    BY <2>1, <2>2 DEF OtherHandler, Handlers
  <2> QED
    BY <2>1, <2>3, ReleasedSame
<1>9. ASSUME NEW h \in Handlers, SkipFile(h)
      PROVE  ReleasedStep
  <2>1. worker' = worker /\ (failed => failed') /\ OtherHandler(h)
    BY <1>9, SkipFileFacts
  <2>2. hd'[h].pc = "idle" => failed'
    BY <1>9, SkipFileFacts, FreshFacts
  <2>3. hd'["rec"].pc = "idle" => hd["rec"].pc = "idle" \/ failed'
    BY <2>1, <2>2 DEF OtherHandler, Handlers
  <2> QED
    BY <2>1, <2>3, ReleasedSame
<1>10. ASSUME NEW h \in Handlers, SkipRow(h)
      PROVE  ReleasedStep
  <2>1. /\ worker' = worker /\ (failed => failed') /\ OtherHandler(h) /\ hd[h].pc = "skipRow"
        /\ hd'[h] = Idle
    BY <1>10, SkipRowFacts
  <2>2. CASE h = "rec"
    <3>1. worker.pc = "handle"
      BY <2>1, <2>2 DEF LifeRests
    <3> QED
      BY <2>1, <2>2, <3>1, FreshFacts DEF ReleasedStep, Released
  <2>3. CASE h = "live"
    <3>1. hd'["rec"] = hd["rec"]
      BY <2>1, <2>3 DEF OtherHandler, Handlers
    <3> QED
      BY <2>1, <3>1, ReleasedSame
  <2> QED
    BY <2>2, <2>3 DEF Handlers
<1>11. ASSUME NEW h \in Handlers, Record(h)
      PROVE  ReleasedStep
  <2>1. worker' = worker /\ (failed => failed') /\ OtherHandler(h)
    BY <1>11, RecordFacts
  <2>2. hd'[h].pc = "idle" => failed'
    BY <1>11, RecordFacts, FreshFacts
  <2>3. hd'["rec"].pc = "idle" => hd["rec"].pc = "idle" \/ failed'
    BY <2>1, <2>2 DEF OtherHandler, Handlers
  <2> QED
    BY <2>1, <2>3, ReleasedSame
<1>12. ASSUME NEW h \in Handlers, MoveCursor(h)
      PROVE  ReleasedStep
  <2>1. worker' = worker /\ (failed => failed') /\ OtherHandler(h)
    BY <1>12, MoveCursorFacts
  <2>2. hd'[h].pc = "idle" => failed'
    BY <1>12, MoveCursorFacts, FreshFacts
  <2>3. hd'["rec"].pc = "idle" => hd["rec"].pc = "idle" \/ failed'
    BY <2>1, <2>2 DEF OtherHandler, Handlers
  <2> QED
    BY <2>1, <2>3, ReleasedSame
<1>13. ASSUME NEW h \in Handlers, PersistCursor(h)
      PROVE  ReleasedStep
  <2>1. worker' = worker /\ (failed => failed') /\ OtherHandler(h)
    BY <1>13, PersistCursorFacts
  <2>2. hd'[h].pc = "idle" => failed'
    BY <1>13, PersistCursorFacts, FreshFacts
  <2>3. hd'["rec"].pc = "idle" => hd["rec"].pc = "idle" \/ failed'
    BY <2>1, <2>2 DEF OtherHandler, Handlers
  <2> QED
    BY <2>1, <2>3, ReleasedSame
<1>14. ASSUME NEW h \in Handlers, Spawn(h)
      PROVE  ReleasedStep
  <2>1. /\ worker' = worker /\ (failed => failed') /\ OtherHandler(h) /\ hd[h].pc = "row"
        /\ hd'[h] = Idle
    BY <1>14, SpawnFacts
  <2>2. CASE h = "rec"
    <3>1. worker.pc = "handle"
      BY <2>1, <2>2 DEF LifeRests
    <3> QED
      BY <2>1, <2>2, <3>1, FreshFacts DEF ReleasedStep, Released
  <2>3. CASE h = "live"
    <3>1. hd'["rec"] = hd["rec"]
      BY <2>1, <2>3 DEF OtherHandler, Handlers
    <3> QED
      BY <2>1, <3>1, ReleasedSame
  <2> QED
    BY <2>2, <2>3 DEF Handlers
<1>15. ASSUME NEW i \in Slots, TaskBegin(i)
      PROVE  ReleasedStep
  <2>1. worker' = worker /\ (failed => failed') /\ hd' = hd
    BY <1>15, TaskBeginFacts
  <2> QED
    BY <2>1, ReleasedSame
<1>16. ASSUME NEW i \in Slots, TaskEnd(i)
      PROVE  ReleasedStep
  <2>1. worker' = worker /\ (failed => failed') /\ hd' = hd
    BY <1>16, TaskEndFacts
  <2> QED
    BY <2>1, ReleasedSame
<1>17. ASSUME Gate
      PROVE  ReleasedStep
  <2>1. /\ worker.pc # "none" /\ worker'.cp = worker.cp /\ worker'.left = worker.left
        /\ failed' = failed
        /\ hd'["rec"].pc # "idle"
    BY <1>17, GateFacts
  <2> QED
    BY <2>1, ReleasedElse
<1>18. ASSUME GiveUp
      PROVE  ReleasedStep
  <2>1. worker'.pc = "none"
    BY <1>18, GiveUpFacts, FreshFacts
  <2> QED
    BY <2>1 DEF ReleasedStep
<1>19. ASSUME Handled
      PROVE  ReleasedStep
  <2>1. /\ worker.pc = "handle" /\ hd["rec"].pc = "idle" /\ failed' = failed
        /\ worker'.pc # "handle"
        /\ worker'.cp = worker.cp /\ worker'.left = worker.left - 1
    BY <1>19, HandledFacts
  <2>2. worker.left \in Int /\ worker.cp.count \in Int
    BY DEF Shape, Checkpoints
  <2>3. \A k \in 0..(worker'.cp.count - 1) : Released(k)' => Released(k)
    BY <2>1, <2>2 DEF Released
  <2> QED
    BY <2>1, <2>3 DEF ReleasedStep
<1>20. ASSUME Release
      PROVE  ReleasedStep
  <2>1. CASE worker'.pc = "none"
    BY <2>1 DEF ReleasedStep
  <2>2. CASE worker'.pc # "none"
    <3>1. /\ worker.pc # "none" /\ worker'.cp = worker.cp /\ worker'.left = worker.left
          /\ failed => failed'
          /\ worker'.pc # "handle"
      BY <1>20, ReleaseFacts, <2>2, FreshFacts
    <3> QED
      BY <3>1, ReleasedElse
  <2> QED
    BY <2>1, <2>2
<1>21. ASSUME Drain
      PROVE  ReleasedStep
  <2>1. CASE worker'.pc = "none"
    BY <2>1 DEF ReleasedStep
  <2>2. CASE worker'.pc # "none"
    <3>1. worker.pc # "none" /\ (failed => failed')
      BY <1>21, DrainFacts
    <3>2. worker'.cp = worker.cp /\ worker'.left = worker.left /\ worker'.pc # "handle"
      BY <1>21, DrainFacts, <2>2, FreshFacts
    <3> QED
      BY <3>1, <3>2, ReleasedElse
  <2> QED
    BY <2>1, <2>2
<1>22. ASSUME SeeActive
      PROVE  ReleasedStep
  <2>1. CASE worker'.pc = "none"
    BY <2>1 DEF ReleasedStep
  <2>2. CASE worker'.pc # "none"
    <3>1. /\ worker.pc # "none" /\ worker'.cp = worker.cp /\ worker'.left = worker.left
          /\ failed => failed'
          /\ worker'.pc # "handle"
      BY <1>22, SeeActiveFacts, <2>2, FreshFacts
    <3> QED
      BY <3>1, ReleasedElse
  <2> QED
    BY <2>1, <2>2
<1>23. ASSUME SeeUnfinished
      PROVE  ReleasedStep
  <2>1. CASE worker'.pc = "none"
    BY <2>1 DEF ReleasedStep
  <2>2. CASE worker'.pc # "none"
    <3>1. worker.pc = "rest" /\ mem.pending = worker.cp
      BY <1>23, SeeUnfinishedFacts DEF WorkerRests
    <3>2. /\ worker'.cp = worker.cp /\ worker'.left = worker.left
          /\ failed' = failed /\ worker'.pc # "handle"
      BY <1>23, SeeUnfinishedFacts, <2>2, <3>1, FreshFacts
    <3> QED
      BY <3>1, <3>2, ReleasedElse
  <2> QED
    BY <2>1, <2>2
<1>24. ASSUME Clear
      PROVE  ReleasedStep
  <2>1. CASE worker'.pc = "none"
    BY <2>1 DEF ReleasedStep
  <2>2. CASE worker'.pc # "none"
    <3>3. worker.pc # "none" /\ (failed' = TRUE \/ failed' = failed)
      BY <1>24, ClearFacts
    <3>1. worker.pc # "none" /\ (failed => failed')
      BY <3>3
    <3>2. worker'.cp = worker.cp /\ worker'.left = worker.left /\ worker'.pc # "handle"
      BY <1>24, ClearFacts, <2>2, FreshFacts
    <3> QED
      BY <3>1, <3>2, ReleasedElse
  <2> QED
    BY <2>1, <2>2
<1>25. ASSUME Forget
      PROVE  ReleasedStep
  <2>1. worker'.pc = "none"
    BY <1>25, ForgetFacts, FreshFacts
  <2> QED
    BY <2>1 DEF ReleasedStep
<1>26. ASSUME StopBegin
      PROVE  ReleasedStep
  <2>1. worker'.pc = "none"
    BY <1>26, StopBeginFacts, FreshFacts
  <2> QED
    BY <2>1 DEF ReleasedStep
<1>27. ASSUME StopEnd
      PROVE  ReleasedStep
  <2>1. worker' = worker /\ failed' = failed /\ hd'["rec"] = hd["rec"]
    BY <1>27, StopEndFacts
  <2> QED
    BY <2>1, ReleasedSame
<1>28. ASSUME Restart
      PROVE  ReleasedStep
  <2>1. worker'.pc = "none"
    BY <1>28, RestartFacts, FreshFacts
  <2> QED
    BY <2>1 DEF ReleasedStep
<1> QED
  BY <1>1, <1>2, <1>3, <1>4, <1>5, <1>6, <1>7, <1>8, <1>9, <1>10, <1>11, <1>12, <1>13, <1>14,
     <1>15, <1>16, <1>17, <1>18, <1>19, <1>20, <1>21, <1>22, <1>23, <1>24, <1>25, <1>26, <1>27,
     <1>28 DEF Next, Handler, Task, Worker, Restart

\* What becomes of recovered work in a step.
LEMMA StepRecord ==
  ASSUME Shape, SlotRests, LifeRests, CancelRests, Next
  PROVE  RecordStep
<1>1. ASSUME StartPlan \/ StartPersist \/ Evaluate \/ Explicit \/ Receive \/ Gate \/ GiveUp \/ Handled \/
             Release \/ Drain \/ SeeActive \/ SeeUnfinished \/ Clear \/ Forget \/ Arm \/ Disarm \/ SetEnabled \/
             DefineEnabled \/ ReplaceFile \/ UndoEnabled \/ StopBegin \/ Clock
      PROVE  RecordStep
  <2>1. UNCHANGED <<ex>>
    BY <1>1, StartPlanFacts, StartPersistFacts, EvaluateFacts, ExplicitFacts, ReceiveFacts,
       GateFacts, GiveUpFacts, HandledFacts, ReleaseFacts, DrainFacts, SeeActiveFacts,
       SeeUnfinishedFacts, ClearFacts, ForgetFacts, ArmFacts, DisarmFacts, SetEnabledFacts,
       DefineEnabledFacts, ReplaceFileFacts, UndoEnabledFacts, StopBeginFacts, ClockFacts
  <2> QED
    BY <2>1 DEF RecordStep, OtherRecords, RecordKept, Active, Unfinished
<1>2. ASSUME NEW h \in Handlers, Admit(h) \/ Skip(h) \/ SkipFile(h) \/ SkipRow(h) \/ MoveCursor(h) \/ PersistCursor(h)
      PROVE  RecordStep
  <2>1. UNCHANGED <<ex>>
    BY <1>2, AdmitFacts, SkipFacts, SkipFileFacts, SkipRowFacts, MoveCursorFacts,
       PersistCursorFacts
  <2> QED
    BY <2>1 DEF RecordStep, OtherRecords, RecordKept, Active, Unfinished
<1>3. ASSUME NEW h \in Handlers, Apply(h)
      PROVE  RecordStep
  BY <1>3, ApplyFacts, FreshFacts DEF RecordStep, OtherRecords, RecordKept, Active, Unfinished
<1>4. ASSUME NEW h \in Handlers, CancelOne(h)
      PROVE  RecordStep
  <2>1. PICK i \in Slots : i \in hd[h].taken /\ OtherRecords(i)
    BY <1>4, CancelOneFacts
  <2>2. ex[i].rec => failed'
    BY <1>4, CancelOneFacts, <2>1 DEF CancelRests
  <2> QED
    BY <2>1, <2>2 DEF RecordStep, OtherRecords, Active, Unfinished
<1>5. ASSUME NEW h \in Handlers, Record(h)
      PROVE  RecordStep
  BY <1>5, RecordFacts, FreshFacts DEF RecordStep, OtherRecords, RecordKept, Active, Unfinished
<1>6. ASSUME NEW h \in Handlers, Spawn(h)
      PROVE  RecordStep
  <2>1. PICK i \in Slots : i = hd[h].slot
    BY <1>6, SpawnFacts, SlotFacts
  <2>2. /\ OtherRecords(i) /\ ex'[i].rec = ex[i].rec /\ ex'[i].at = ex[i].at /\ ex'[i].st = ex[i].st
        /\ ex[i].st = "pending"
    BY <1>6, SpawnFacts, <2>1, SlotFacts
  <2> QED
    BY <2>2 DEF RecordStep, OtherRecords, Active, Unfinished
<1>7. ASSUME NEW i \in Slots, TaskSerial(i)
      PROVE  RecordStep
  BY <1>7, TaskSerialFacts, FreshFacts
     DEF RecordStep, OtherRecords, RecordKept, Active, Unfinished
<1>8. ASSUME NEW i \in Slots, TaskPermit(i)
      PROVE  RecordStep
  <2>1. OtherRecords(i) /\ ex'[i].rec = ex[i].rec /\ ex'[i].at = ex[i].at
    BY <1>8, TaskPermitFacts DEF RecordKept
  <2>2. UNCHANGED failed /\ (failed \/ ex'[i].task # "none")
    BY <1>8, TaskPermitFacts
  <2>3. failed' \/ ex'[i].task # "none"
    BY <2>2
  <2> QED
    BY <2>1, <2>3 DEF RecordStep, OtherRecords, Active, Unfinished
<1>9. ASSUME NEW i \in Slots, TaskBegin(i)
      PROVE  RecordStep
  BY <1>9, TaskBeginFacts, FreshFacts
     DEF RecordStep, OtherRecords, RecordKept, Active, Unfinished
<1>10. ASSUME NEW i \in Slots, TaskWork(i)
      PROVE  RecordStep
  BY <1>10, TaskWorkFacts, FreshFacts
     DEF RecordStep, OtherRecords, RecordKept, Active, Unfinished
<1>11. ASSUME NEW i \in Slots, TaskEnd(i)
      PROVE  RecordStep
  BY <1>11, TaskEndFacts, FreshFacts
     DEF RecordStep, OtherRecords, RecordKept, Active, Unfinished
<1>12. ASSUME StopEnd
      PROVE  RecordStep
  <2>1. worker'.pc = "none"
    BY <1>12, StopEndFacts, FreshFacts DEF LifeRests
  <2> QED
    BY <2>1 DEF RecordStep
<1>13. ASSUME Restart
      PROVE  RecordStep
  <2>1. worker'.pc = "none"
    BY <1>13, RestartFacts, FreshFacts DEF LifeRests
  <2> QED
    BY <2>1 DEF RecordStep
<1> QED
  BY <1>1, <1>2, <1>3, <1>4, <1>5, <1>6, <1>7, <1>8, <1>9, <1>10, <1>11, <1>12, <1>13
     DEF Next, Handler, Task, Worker, Restart

\* What is recorded stays recorded.
LEMMA StepGrow ==
  ASSUME Shape, SlotRests, Next
  PROVE  recorded \subseteq recorded'
<1>1. ASSUME StartPlan \/ StartPersist \/ Evaluate \/ Explicit \/ Receive \/ Gate \/ GiveUp \/ Handled \/
             Release \/ Drain \/ SeeActive \/ SeeUnfinished \/ Clear \/ Forget \/ Arm \/ Disarm \/ SetEnabled \/
             DefineEnabled \/ ReplaceFile \/ UndoEnabled \/ StopBegin \/ StopEnd \/ Restart \/ Clock
      PROVE  recorded \subseteq recorded'
  <2>1. UNCHANGED <<recorded>>
    BY <1>1, StartPlanFacts, StartPersistFacts, EvaluateFacts, ExplicitFacts, ReceiveFacts,
       GateFacts, GiveUpFacts, HandledFacts, ReleaseFacts, DrainFacts, SeeActiveFacts,
       SeeUnfinishedFacts, ClearFacts, ForgetFacts, ArmFacts, DisarmFacts, SetEnabledFacts,
       DefineEnabledFacts, ReplaceFileFacts, UndoEnabledFacts, StopBeginFacts, StopEndFacts,
       RestartFacts, ClockFacts
  <2> QED
    BY <2>1
<1>2. ASSUME NEW h \in Handlers, Admit(h) \/ Apply(h) \/ Skip(h) \/ SkipFile(h) \/ Record(h) \/ MoveCursor(h) \/
             PersistCursor(h) \/ Spawn(h)
      PROVE  recorded \subseteq recorded'
  <2>1. UNCHANGED <<recorded>>
    BY <1>2, AdmitFacts, ApplyFacts, SkipFacts, SkipFileFacts, RecordFacts, MoveCursorFacts,
       PersistCursorFacts, SpawnFacts
  <2> QED
    BY <2>1
<1>3. ASSUME NEW i \in Slots, TaskSerial(i) \/ TaskPermit(i) \/ TaskBegin(i) \/ TaskWork(i)
      PROVE  recorded \subseteq recorded'
  <2>1. UNCHANGED <<recorded>>
    BY <1>3, TaskSerialFacts, TaskPermitFacts, TaskBeginFacts, TaskWorkFacts
  <2> QED
    BY <2>1
<1>4. ASSUME NEW h \in Handlers, CancelOne(h)
      PROVE  recorded \subseteq recorded'
  BY <1>4, CancelOneFacts
<1>5. ASSUME NEW h \in Handlers, SkipRow(h)
      PROVE  recorded \subseteq recorded'
  BY <1>5, SkipRowFacts
<1>6. ASSUME NEW i \in Slots, TaskEnd(i)
      PROVE  recorded \subseteq recorded'
  BY <1>6, TaskEndFacts
<1> QED
  BY <1>1, <1>2, <1>3, <1>4, <1>5, <1>6 DEF Next, Handler, Task, Worker, Restart

\* What becomes of the trigger that a step has handled.
LEMMA StepNew ==
  ASSUME Shape, SlotRests, Next
  PROVE  HandledStep
<1>1. ASSUME StartPlan \/ StartPersist \/ Evaluate \/ Explicit \/ GiveUp \/ Handled \/ Release \/ Drain \/
             SeeActive \/ SeeUnfinished \/ Clear \/ Forget \/ Arm \/ Disarm \/ SetEnabled \/ DefineEnabled \/
             ReplaceFile \/ UndoEnabled \/ Clock
      PROVE  HandledStep
  <2>1. UNCHANGED <<hd>>
    BY <1>1, StartPlanFacts, StartPersistFacts, EvaluateFacts, ExplicitFacts, GiveUpFacts,
       HandledFacts, ReleaseFacts, DrainFacts, SeeActiveFacts, SeeUnfinishedFacts, ClearFacts,
       ForgetFacts, ArmFacts, DisarmFacts, SetEnabledFacts, DefineEnabledFacts,
       ReplaceFileFacts, UndoEnabledFacts, ClockFacts
  <2> QED
    BY <2>1 DEF HandledStep, OtherHandler, Handlers
<1>2. ASSUME NEW i \in Slots, TaskSerial(i) \/ TaskPermit(i) \/ TaskBegin(i) \/ TaskWork(i) \/ TaskEnd(i)
      PROVE  HandledStep
  <2>1. UNCHANGED <<hd>>
    BY <1>2, TaskSerialFacts, TaskPermitFacts, TaskBeginFacts, TaskWorkFacts, TaskEndFacts
  <2> QED
    BY <2>1 DEF HandledStep, OtherHandler, Handlers
<1>3. ASSUME Receive
      PROVE  HandledStep
  BY <1>3, ReceiveFacts, FreshFacts DEF HandledStep, OtherHandler, Handlers
<1>4. ASSUME NEW h \in Handlers, Admit(h)
      PROVE  HandledStep
  <2>1. OtherHandler(h) /\ (hd'[h].pc = "idle" => failed')
    BY <1>4, AdmitFacts, FreshFacts
  <2> QED
    BY <2>1 DEF HandledStep, OtherHandler, Handlers
<1>5. ASSUME NEW h \in Handlers, Apply(h)
      PROVE  HandledStep
  <2>1. OtherHandler(h) /\ (hd'[h].pc = "idle" => failed')
    BY <1>5, ApplyFacts, FreshFacts
  <2> QED
    BY <2>1 DEF HandledStep, OtherHandler, Handlers
<1>6. ASSUME NEW h \in Handlers, CancelOne(h)
      PROVE  HandledStep
  <2>1. OtherHandler(h) /\ (hd'[h].pc = "idle" => failed')
    BY <1>6, CancelOneFacts, FreshFacts
  <2> QED
    BY <2>1 DEF HandledStep, OtherHandler, Handlers
<1>7. ASSUME NEW h \in Handlers, Skip(h)
      PROVE  HandledStep
  <2>1. OtherHandler(h) /\ (hd'[h].pc = "idle" => failed')
    BY <1>7, SkipFacts, FreshFacts
  <2> QED
    BY <2>1 DEF HandledStep, OtherHandler, Handlers
<1>8. ASSUME NEW h \in Handlers, SkipFile(h)
      PROVE  HandledStep
  <2>1. OtherHandler(h) /\ (hd'[h].pc = "idle" => failed')
    BY <1>8, SkipFileFacts, FreshFacts
  <2> QED
    BY <2>1 DEF HandledStep, OtherHandler, Handlers
<1>9. ASSUME NEW h \in Handlers, SkipRow(h)
      PROVE  HandledStep
  <2>1. OtherHandler(h) /\ (h = "rec" => failed' \/ hd[h].at \in recorded')
    BY <1>9, SkipRowFacts
  <2> QED
    BY <2>1 DEF HandledStep, OtherHandler, Handlers
<1>10. ASSUME NEW h \in Handlers, Record(h)
      PROVE  HandledStep
  <2>1. OtherHandler(h) /\ (hd'[h].pc = "idle" => failed')
    BY <1>10, RecordFacts, FreshFacts
  <2> QED
    BY <2>1 DEF HandledStep, OtherHandler, Handlers
<1>11. ASSUME NEW h \in Handlers, MoveCursor(h)
      PROVE  HandledStep
  <2>1. OtherHandler(h) /\ (hd'[h].pc = "idle" => failed')
    BY <1>11, MoveCursorFacts, FreshFacts
  <2> QED
    BY <2>1 DEF HandledStep, OtherHandler, Handlers
<1>12. ASSUME NEW h \in Handlers, PersistCursor(h)
      PROVE  HandledStep
  <2>1. OtherHandler(h) /\ (hd'[h].pc = "idle" => failed')
    BY <1>12, PersistCursorFacts, FreshFacts
  <2> QED
    BY <2>1 DEF HandledStep, OtherHandler, Handlers
<1>13. ASSUME NEW h \in Handlers, Spawn(h)
      PROVE  HandledStep
  <2>1. CASE h = "rec"
    <3>1. PICK i \in Slots : i = hd[h].slot
      BY <1>13, SpawnFacts, SlotFacts
    <3>2. /\ ex'[i].rec = ex[i].rec /\ ex'[i].at = ex[i].at /\ ex'[i].st = ex[i].st
          /\ ex[i].st = "pending" /\ ex[i].rec = (h = "rec") /\ ex[i].at = hd[h].at
      BY <1>13, SpawnFacts, <3>1, SlotFacts
    <3>3. ex'[i].rec /\ ex'[i].at = hd["rec"].at /\ ex'[i].st = "pending"
      BY <2>1, <3>2
    <3> QED
      BY <3>3 DEF HandledStep, Unfinished
  <2>2. CASE h = "live"
    BY <1>13, SpawnFacts, <2>2 DEF HandledStep, OtherHandler, Handlers
  <2> QED
    BY <2>1, <2>2 DEF Handlers
<1>14. ASSUME Gate
      PROVE  HandledStep
  BY <1>14, GateFacts, FreshFacts DEF HandledStep, OtherHandler, Handlers
<1>15. ASSUME StopBegin
      PROVE  HandledStep
  BY <1>15, StopBeginFacts, FreshFacts DEF HandledStep, OtherHandler, Handlers
<1>16. ASSUME StopEnd
      PROVE  HandledStep
  BY <1>16, StopEndFacts, FreshFacts DEF HandledStep, OtherHandler, Handlers
<1>17. ASSUME Restart
      PROVE  HandledStep
  BY <1>17, RestartFacts, FreshFacts DEF HandledStep, OtherHandler, Handlers
<1> QED
  BY <1>1, <1>2, <1>3, <1>4, <1>5, <1>6, <1>7, <1>8, <1>9, <1>10, <1>11, <1>12, <1>13, <1>14,
     <1>15, <1>16, <1>17 DEF Next, Handler, Task, Worker, Restart

\* An occurrence that comes up is the worker's.
LEMMA WorkerAt ==
  ASSUME LifeRests, WorkerRests, hd["rec"].pc # "idle"
  PROVE  hd["rec"].at = worker.cp.first + (worker.cp.count - worker.left) * Interval
<1>1. worker.pc = "handle" /\ hd["rec"].at = worker.at
  BY DEF LifeRests
<1> QED
  BY <1>1 DEF WorkerRests

\* Every step keeps what was handled recorded or at work.
LEMMA StepHandled ==
  ASSUME Shape, SlotRests, LifeRests, WorkerRests, CancelRests, HandledRests, Next
  PROVE  HandledRests'
<1>1. ReleasedStep /\ RecordStep /\ HandledStep /\ recorded \subseteq recorded'
  BY StepReleased, StepRecord, StepNew, StepGrow
<1> DEFINE Works(i, t) == ex'[i].rec /\ ex'[i].at = t /\ (Active(i) \/ Unfinished(i))'
<1> SUFFICES ASSUME worker'.pc # "none", ~failed',
                    NEW k \in Int, k \in 0..(worker'.cp.count - 1), Released(k)'
             PROVE  \/ worker'.cp.first + k * Interval \in recorded'
                    \/ \E i \in Slots : Works(i, worker'.cp.first + k * Interval)
  BY DEF HandledRests, Carried
<1>2. /\ worker.pc # "none" /\ ~failed /\ worker'.cp = worker.cp
      /\ \/ Released(k)
         \/ /\ k = worker.cp.count - worker.left /\ worker' = worker
            /\ hd["rec"].pc \in {"row", "skipRow"} /\ hd'["rec"].pc = "idle"
  BY <1>1 DEF ReleasedStep
<1>3. PICK t : t = worker.cp.first + k * Interval
  OBVIOUS
<1>4. SUFFICES t \in recorded' \/ \E i \in Slots : Works(i, t)
  BY <1>2, <1>3
<1>5. CASE Released(k)
  <2>1. t \in recorded \/ Carried(t)
    BY <1>2, <1>3, <1>5 DEF HandledRests
  <2>2. ASSUME Carried(t)
        PROVE  t \in recorded' \/ \E i \in Slots : Works(i, t)
    <3>1. PICK i \in Slots : ex[i].rec /\ ex[i].at = t /\ (Active(i) \/ Unfinished(i))
      BY <2>2 DEF Carried
    <3>2. \/ ex[i].at \in recorded'
          \/ ex'[i].rec /\ ex'[i].at = ex[i].at /\ (Active(i) \/ Unfinished(i))'
      BY <1>1, <3>1 DEF RecordStep
    <3> QED
      BY <3>1, <3>2
  <2> QED
    BY <1>1, <2>1, <2>2
<1>6. CASE /\ k = worker.cp.count - worker.left
           /\ hd["rec"].pc \in {"row", "skipRow"} /\ hd'["rec"].pc = "idle"
  <2>1. hd["rec"].at = t
    BY <1>3, <1>6, WorkerAt
  <2>2. t \in recorded' \/ \E j \in Slots : ex'[j].rec /\ ex'[j].at = t /\ Unfinished(j)'
    BY <1>1, <1>6, <2>1 DEF HandledStep
  <2> QED
    BY <2>2
<1> QED
  BY <1>2, <1>5, <1>6

\* Every step keeps the batch at rest.
LEMMA StepQuiet ==
  ASSUME Shape, SlotRests, LifeRests, QuietRests, Next
  PROVE  QuietRests'
<1>1. ASSUME StartPlan \/ Evaluate \/ Explicit \/ Receive \/ Arm \/ Disarm \/ SetEnabled \/ DefineEnabled \/
             ReplaceFile \/ UndoEnabled \/ Clock
      PROVE  QuietRests'
  <2>1. UNCHANGED <<worker, ex>>
    BY <1>1, StartPlanFacts, EvaluateFacts, ExplicitFacts, ReceiveFacts, ArmFacts, DisarmFacts,
       SetEnabledFacts, DefineEnabledFacts, ReplaceFileFacts, UndoEnabledFacts, ClockFacts
  <2> QED
    BY <2>1 DEF QuietRests, OtherRecords, RecordKept, Active
<1>2. ASSUME NEW h \in Handlers, Admit(h) \/ Skip(h) \/ SkipFile(h) \/ SkipRow(h) \/ MoveCursor(h) \/ PersistCursor(h)
      PROVE  QuietRests'
  <2>1. UNCHANGED <<worker, ex>>
    BY <1>2, AdmitFacts, SkipFacts, SkipFileFacts, SkipRowFacts, MoveCursorFacts,
       PersistCursorFacts
  <2> QED
    BY <2>1 DEF QuietRests, OtherRecords, RecordKept, Active
<1>3. ASSUME StartPersist
      PROVE  QuietRests'
  <2>1. worker'.pc # "rest"
    BY <1>3, StartPersistFacts, FreshFacts DEF LifeRests
  <2> QED
    BY <2>1 DEF QuietRests
<1>4. ASSUME NEW h \in Handlers, Apply(h)
      PROVE  QuietRests'
  BY <1>4, ApplyFacts, FreshFacts DEF QuietRests, OtherRecords, RecordKept, Active
<1>5. ASSUME NEW h \in Handlers, CancelOne(h)
      PROVE  QuietRests'
  BY <1>5, CancelOneFacts, FreshFacts DEF QuietRests, OtherRecords, RecordKept, Active
<1>6. ASSUME NEW h \in Handlers, Record(h)
      PROVE  QuietRests'
  BY <1>6, RecordFacts, FreshFacts DEF QuietRests, OtherRecords, RecordKept, Active
<1>7. ASSUME NEW h \in Handlers, Spawn(h)
      PROVE  QuietRests'
  <2>1. PICK i \in Slots : i = hd[h].slot
    BY <1>7, SpawnFacts, SlotFacts
  <2>2. /\ OtherRecords(i) /\ ex'[i].rec = ex[i].rec /\ ex[i].rec = (h = "rec") /\ worker' = worker
        /\ hd[h].pc = "row"
    BY <1>7, SpawnFacts, <2>1, SlotFacts
  <2>3. worker.pc = "rest" => h # "rec"
    BY <2>2 DEF LifeRests
  <2> QED
    BY <2>2, <2>3 DEF QuietRests, OtherRecords, Active
<1>8. ASSUME NEW i \in Slots, TaskSerial(i)
      PROVE  QuietRests'
  <2>1. worker' = worker /\ ex[i].task # "none" /\ OtherRecords(i) /\ (ex'[i].rec => ex[i].rec)
    BY <1>8, TaskSerialFacts, FreshFacts DEF RecordKept
  <2> QED
    BY <2>1 DEF QuietRests, OtherRecords, Active
<1>9. ASSUME NEW i \in Slots, TaskPermit(i)
      PROVE  QuietRests'
  <2>1. worker' = worker /\ ex[i].task # "none" /\ OtherRecords(i) /\ (ex'[i].rec => ex[i].rec)
    BY <1>9, TaskPermitFacts, FreshFacts DEF RecordKept
  <2> QED
    BY <2>1 DEF QuietRests, OtherRecords, Active
<1>10. ASSUME NEW i \in Slots, TaskBegin(i)
      PROVE  QuietRests'
  <2>1. worker' = worker /\ ex[i].task # "none" /\ OtherRecords(i) /\ (ex'[i].rec => ex[i].rec)
    BY <1>10, TaskBeginFacts, FreshFacts DEF RecordKept
  <2> QED
    BY <2>1 DEF QuietRests, OtherRecords, Active
<1>11. ASSUME NEW i \in Slots, TaskWork(i)
      PROVE  QuietRests'
  <2>1. worker' = worker /\ ex[i].task # "none" /\ OtherRecords(i) /\ (ex'[i].rec => ex[i].rec)
    BY <1>11, TaskWorkFacts, FreshFacts DEF RecordKept
  <2> QED
    BY <2>1 DEF QuietRests, OtherRecords, Active
<1>12. ASSUME NEW i \in Slots, TaskEnd(i)
      PROVE  QuietRests'
  <2>1. worker' = worker /\ ex[i].task # "none" /\ OtherRecords(i) /\ (ex'[i].rec => ex[i].rec)
    BY <1>12, TaskEndFacts, FreshFacts DEF RecordKept
  <2> QED
    BY <2>1 DEF QuietRests, OtherRecords, Active
<1>13. ASSUME Gate
      PROVE  QuietRests'
  BY <1>13, GateFacts, FreshFacts DEF QuietRests, OtherRecords, RecordKept, Active
<1>14. ASSUME GiveUp
      PROVE  QuietRests'
  BY <1>14, GiveUpFacts, FreshFacts DEF QuietRests, OtherRecords, RecordKept, Active
<1>15. ASSUME Handled
      PROVE  QuietRests'
  BY <1>15, HandledFacts, FreshFacts DEF QuietRests, OtherRecords, RecordKept, Active
<1>16. ASSUME Release
      PROVE  QuietRests'
  BY <1>16, ReleaseFacts, FreshFacts DEF QuietRests, OtherRecords, RecordKept, Active
<1>17. ASSUME Drain
      PROVE  QuietRests'
  BY <1>17, DrainFacts, FreshFacts DEF QuietRests, OtherRecords, RecordKept, Active
<1>18. ASSUME SeeActive
      PROVE  QuietRests'
  BY <1>18, SeeActiveFacts, FreshFacts DEF QuietRests, OtherRecords, RecordKept, Active
<1>19. ASSUME SeeUnfinished
      PROVE  QuietRests'
  BY <1>19, SeeUnfinishedFacts, FreshFacts DEF QuietRests, OtherRecords, RecordKept, Active
<1>20. ASSUME Clear
      PROVE  QuietRests'
  BY <1>20, ClearFacts, FreshFacts DEF QuietRests, OtherRecords, RecordKept, Active
<1>21. ASSUME Forget
      PROVE  QuietRests'
  BY <1>21, ForgetFacts, FreshFacts DEF QuietRests, OtherRecords, RecordKept, Active
<1>22. ASSUME StopBegin
      PROVE  QuietRests'
  BY <1>22, StopBeginFacts, FreshFacts DEF QuietRests, OtherRecords, RecordKept, Active
<1>23. ASSUME StopEnd
      PROVE  QuietRests'
  BY <1>23, StopEndFacts, FreshFacts DEF QuietRests, OtherRecords, RecordKept, Active
<1>24. ASSUME Restart
      PROVE  QuietRests'
  BY <1>24, RestartFacts, FreshFacts DEF QuietRests, OtherRecords, RecordKept, Active
<1> QED
  BY <1>1, <1>2, <1>3, <1>4, <1>5, <1>6, <1>7, <1>8, <1>9, <1>10, <1>11, <1>12, <1>13, <1>14,
     <1>15, <1>16, <1>17, <1>18, <1>19, <1>20, <1>21, <1>22, <1>23, <1>24
     DEF Next, Handler, Task, Worker, Restart

\* Every step keeps cleared what is recorded.
LEMMA StepDone ==
  ASSUME Shape, SlotRests, Dated, LifeRests, WorkerRests, HandledRests, QuietRests, DoneRests, Next
  PROVE  DoneRests'
<1>1. ASSUME StartPlan \/ Evaluate \/ Explicit \/ Receive \/ Arm \/ Disarm \/ SetEnabled \/ DefineEnabled \/
             ReplaceFile \/ UndoEnabled \/ StopEnd \/ Clock
      PROVE  DoneRests'
  <2>1. UNCHANGED <<worker, recorded>>
    BY <1>1, StartPlanFacts, EvaluateFacts, ExplicitFacts, ReceiveFacts, ArmFacts, DisarmFacts,
       SetEnabledFacts, DefineEnabledFacts, ReplaceFileFacts, UndoEnabledFacts, StopEndFacts,
       ClockFacts
  <2> QED
    BY <2>1 DEF DoneRests
<1>2. ASSUME NEW h \in Handlers, Admit(h) \/ Apply(h) \/ Skip(h) \/ SkipFile(h) \/ Record(h) \/ MoveCursor(h) \/
             PersistCursor(h) \/ Spawn(h)
      PROVE  DoneRests'
  <2>1. UNCHANGED <<worker, recorded>>
    BY <1>2, AdmitFacts, ApplyFacts, SkipFacts, SkipFileFacts, RecordFacts, MoveCursorFacts,
       PersistCursorFacts, SpawnFacts
  <2> QED
    BY <2>1 DEF DoneRests
<1>3. ASSUME NEW i \in Slots, TaskSerial(i) \/ TaskPermit(i) \/ TaskBegin(i) \/ TaskWork(i)
      PROVE  DoneRests'
  <2>1. UNCHANGED <<worker, recorded>>
    BY <1>3, TaskSerialFacts, TaskPermitFacts, TaskBeginFacts, TaskWorkFacts
  <2> QED
    BY <2>1 DEF DoneRests
<1>4. ASSUME StartPersist
      PROVE  DoneRests'
  <2>1. worker'.pc \notin {"clear", "forget"}
    BY <1>4, StartPersistFacts, FreshFacts DEF LifeRests
  <2> QED
    BY <2>1 DEF DoneRests
<1>5. ASSUME NEW h \in Handlers, CancelOne(h)
      PROVE  DoneRests'
  BY <1>5, CancelOneFacts, FreshFacts DEF DoneRests
<1>6. ASSUME NEW h \in Handlers, SkipRow(h)
      PROVE  DoneRests'
  BY <1>6, SkipRowFacts, FreshFacts DEF DoneRests
<1>7. ASSUME NEW i \in Slots, TaskEnd(i)
      PROVE  DoneRests'
  BY <1>7, TaskEndFacts, FreshFacts DEF DoneRests
<1>8. ASSUME Gate
      PROVE  DoneRests'
  BY <1>8, GateFacts, FreshFacts DEF DoneRests
<1>9. ASSUME GiveUp
      PROVE  DoneRests'
  BY <1>9, GiveUpFacts, FreshFacts DEF DoneRests
<1>10. ASSUME Handled
      PROVE  DoneRests'
  BY <1>10, HandledFacts, FreshFacts DEF DoneRests
<1>11. ASSUME Release
      PROVE  DoneRests'
  BY <1>11, ReleaseFacts, FreshFacts DEF DoneRests
<1>12. ASSUME Drain
      PROVE  DoneRests'
  BY <1>12, DrainFacts, FreshFacts DEF DoneRests
<1>13. ASSUME SeeActive
      PROVE  DoneRests'
  BY <1>13, SeeActiveFacts, FreshFacts DEF DoneRests
<1>14. ASSUME SeeUnfinished
      PROVE  DoneRests'
  <2>1. CASE worker'.pc \notin {"clear", "forget"}
    BY <2>1 DEF DoneRests
  <2>2. CASE worker'.pc \in {"clear", "forget"}
    <3>1. /\ worker.pc = "rest" /\ BatchEnded /\ worker'.cp = mem.pending /\ UNCHANGED recorded
      BY <1>14, SeeUnfinishedFacts, <2>2, FreshFacts
    <3>2. mem.pending = worker.cp /\ worker.left = 0 /\ worker.cp.count \in Int
      BY <3>1 DEF WorkerRests, Shape, Checkpoints
    <3>3. ~failed /\ \A i \in Slots : ex[i].rec => ~Unfinished(i) /\ ~Active(i)
      BY <3>1 DEF BatchEnded, QuietRests
    <3>4. ASSUME NEW k \in 0..(worker.cp.count - 1)
          PROVE  worker.cp.first + k * Interval \in recorded
      <4>1. Released(k)
        BY <3>2, <3>4 DEF Released
      <4> QED
        BY <3>1, <3>3, <3>4, <4>1 DEF HandledRests, Carried
    <3>5. Covered(worker.cp) \subseteq recorded
      BY <3>4 DEF Covered
    <3> QED
      BY <3>1, <3>2, <3>5 DEF DoneRests
  <2> QED
    BY <2>1, <2>2
<1>15. ASSUME Clear
      PROVE  DoneRests'
  BY <1>15, ClearFacts, FreshFacts DEF DoneRests
<1>16. ASSUME Forget
      PROVE  DoneRests'
  BY <1>16, ForgetFacts, FreshFacts DEF DoneRests
<1>17. ASSUME StopBegin
      PROVE  DoneRests'
  BY <1>17, StopBeginFacts, FreshFacts DEF DoneRests
<1>18. ASSUME Restart
      PROVE  DoneRests'
  BY <1>18, RestartFacts, FreshFacts DEF DoneRests
<1> QED
  BY <1>1, <1>2, <1>3, <1>4, <1>5, <1>6, <1>7, <1>8, <1>9, <1>10, <1>11, <1>12, <1>13, <1>14,
     <1>15, <1>16, <1>17, <1>18 DEF Next, Handler, Task, Worker, Restart

\* The cursor in memory moves on, unless an edit is undone or the process begins again.
CursorStep ==
    \/ undone'
    \/ worker'.pc = "none" /\ hd'["rec"].pc = "idle"
    \/ ~undone /\ mem.last <= mem'.last

\* A trigger that has moved the cursor has moved it to its occurrence or past it.
TriggerStep ==
    hd'["rec"].pc \in {"file", "row", "skipFile", "skipRow"} =>
        \/ hd'["rec"].at <= mem'.last
        \/ /\ hd["rec"].pc \in {"file", "row", "skipFile", "skipRow"}
           /\ hd'["rec"].at = hd["rec"].at

\* What becomes of the cursor in memory in a step.
LEMMA StepCursor ==
  ASSUME Shape, SlotRests, Dated, Next
  PROVE  CursorStep
<1>1. ASSUME StartPersist \/ Evaluate \/ Explicit \/ Receive \/ Gate \/ GiveUp \/ Handled \/ Release \/ Drain \/
             SeeActive \/ SeeUnfinished \/ Clear \/ Arm \/ Disarm \/ DefineEnabled \/ ReplaceFile \/
             StopBegin \/ StopEnd \/ Clock
      PROVE  CursorStep
  <2>1. UNCHANGED <<mem, undone>>
    BY <1>1, StartPersistFacts, EvaluateFacts, ExplicitFacts, ReceiveFacts, GateFacts,
       GiveUpFacts, HandledFacts, ReleaseFacts, DrainFacts, SeeActiveFacts, SeeUnfinishedFacts,
       ClearFacts, ArmFacts, DisarmFacts, DefineEnabledFacts, ReplaceFileFacts, StopBeginFacts,
       StopEndFacts, ClockFacts
  <2> QED
    BY <2>1 DEF CursorStep, Shape, Schedules
<1>2. ASSUME NEW h \in Handlers, Admit(h) \/ Apply(h) \/ CancelOne(h) \/ SkipFile(h) \/ SkipRow(h) \/ Record(h) \/
             PersistCursor(h) \/ Spawn(h)
      PROVE  CursorStep
  <2>1. UNCHANGED <<mem, undone>>
    BY <1>2, AdmitFacts, ApplyFacts, CancelOneFacts, SkipFileFacts, SkipRowFacts, RecordFacts,
       PersistCursorFacts, SpawnFacts
  <2> QED
    BY <2>1 DEF CursorStep, Shape, Schedules
<1>3. ASSUME NEW i \in Slots, TaskSerial(i) \/ TaskPermit(i) \/ TaskBegin(i) \/ TaskWork(i) \/ TaskEnd(i)
      PROVE  CursorStep
  <2>1. UNCHANGED <<mem, undone>>
    BY <1>3, TaskSerialFacts, TaskPermitFacts, TaskBeginFacts, TaskWorkFacts, TaskEndFacts
  <2> QED
    BY <2>1 DEF CursorStep, Shape, Schedules
<1>4. ASSUME StartPlan
      PROVE  CursorStep
  <2>1. undone' = undone /\ mem'.last = Advanced(mem)
    BY <1>4, StartPlanFacts
  <2>2. mem.last <= Advanced(mem)
    BY AdvancedFacts
  <2>3. undone \in BOOLEAN
    BY DEF Shape
  <2> QED
    BY <2>1, <2>2, <2>3 DEF CursorStep
<1>5. ASSUME NEW h \in Handlers, Skip(h)
      PROVE  CursorStep
  <2>1. undone' = undone /\ mem'.last = Cursor(h, now)
    BY <1>5, SkipFacts
  <2>2. now \in Int
    BY DEF Shape, HandlerStates
  <2>3. mem.last <= Cursor(h, now)
    BY <2>2, CursorFacts
  <2> QED
    BY <2>1, <2>3 DEF CursorStep
<1>6. ASSUME NEW h \in Handlers, MoveCursor(h)
      PROVE  CursorStep
  <2>1. undone' = undone /\ mem'.last = Cursor(h, hd[h].to)
    BY <1>6, MoveCursorFacts
  <2>2. hd[h].to \in Int
    BY DEF Shape, HandlerStates
  <2>3. mem.last <= Cursor(h, hd[h].to)
    BY <2>2, CursorFacts
  <2> QED
    BY <2>1, <2>3 DEF CursorStep
<1>7. ASSUME Forget
      PROVE  CursorStep
  <2>1. CASE worker'.pc = "none" /\ hd'["rec"].pc = "idle"
    BY <2>1 DEF CursorStep
  <2>2. CASE undone' = undone /\ mem' = mem
    <3>1. mem.last \in Int
      BY DEF Shape, Schedules
    <3> QED
      BY <2>2, <3>1 DEF CursorStep
  <2>3. CASE undone' = undone /\ mem'.last = Later(mem.last, worker.cp.last)
    <3>1. mem.last \in Int /\ worker.cp.last \in Int
      BY DEF Shape, Schedules, Checkpoints
    <3>2. mem.last <= Later(mem.last, worker.cp.last)
      BY <3>1, LaterFacts
    <3> QED
      BY <2>3, <3>2 DEF CursorStep
  <2> QED
    BY <1>7, ForgetFacts, <2>1, <2>2, <2>3, FreshFacts DEF Handlers
<1>8. ASSUME SetEnabled
      PROVE  CursorStep
  <2>1. undone' = undone /\ mem'.last = mem.last
    BY <1>8, SetEnabledFacts
  <2>2. mem.last \in Int
    BY DEF Shape, Schedules
  <2> QED
    BY <2>1, <2>2 DEF CursorStep
<1>9. ASSUME UndoEnabled
      PROVE  CursorStep
  <2>1. undone'
    BY <1>9, UndoEnabledFacts
  <2> QED
    BY <2>1 DEF CursorStep
<1>10. ASSUME Restart
      PROVE  CursorStep
  <2>1. CASE worker'.pc = "none" /\ hd'["rec"].pc = "idle"
    BY <2>1 DEF CursorStep
  <2>2. CASE undone' = undone /\ mem' = mem
    <3>1. mem.last \in Int
      BY DEF Shape, Schedules
    <3> QED
      BY <2>2, <3>1 DEF CursorStep
  <2>3. CASE undone' = undone /\ mem'.last = Later(mem.last, worker.cp.last)
    <3>1. mem.last \in Int /\ worker.cp.last \in Int
      BY DEF Shape, Schedules, Checkpoints
    <3>2. mem.last <= Later(mem.last, worker.cp.last)
      BY <3>1, LaterFacts
    <3> QED
      BY <2>3, <3>2 DEF CursorStep
  <2> QED
    BY <1>10, RestartFacts, <2>1, <2>2, <2>3, FreshFacts DEF Handlers
<1> QED
  BY <1>1, <1>2, <1>3, <1>4, <1>5, <1>6, <1>7, <1>8, <1>9, <1>10
     DEF Next, Handler, Task, Worker, Restart

\* What becomes of a recovered trigger in a step.
LEMMA StepTrigger ==
  ASSUME Shape, SlotRests, Next
  PROVE  TriggerStep
<1>1. ASSUME StartPlan \/ StartPersist \/ Evaluate \/ Explicit \/ GiveUp \/ Handled \/ Release \/ Drain \/
             SeeActive \/ SeeUnfinished \/ Clear \/ Forget \/ Arm \/ Disarm \/ SetEnabled \/ DefineEnabled \/
             ReplaceFile \/ UndoEnabled \/ Clock
      PROVE  TriggerStep
  <2>1. UNCHANGED <<hd>>
    BY <1>1, StartPlanFacts, StartPersistFacts, EvaluateFacts, ExplicitFacts, GiveUpFacts,
       HandledFacts, ReleaseFacts, DrainFacts, SeeActiveFacts, SeeUnfinishedFacts, ClearFacts,
       ForgetFacts, ArmFacts, DisarmFacts, SetEnabledFacts, DefineEnabledFacts,
       ReplaceFileFacts, UndoEnabledFacts, ClockFacts
  <2> QED
    BY <2>1 DEF TriggerStep, OtherHandler, Handlers
<1>2. ASSUME NEW i \in Slots, TaskSerial(i) \/ TaskPermit(i) \/ TaskBegin(i) \/ TaskWork(i) \/ TaskEnd(i)
      PROVE  TriggerStep
  <2>1. UNCHANGED <<hd>>
    BY <1>2, TaskSerialFacts, TaskPermitFacts, TaskBeginFacts, TaskWorkFacts, TaskEndFacts
  <2> QED
    BY <2>1 DEF TriggerStep, OtherHandler, Handlers
<1>3. ASSUME Receive
      PROVE  TriggerStep
  BY <1>3, ReceiveFacts, FreshFacts DEF TriggerStep, OtherHandler, Handlers
<1>4. ASSUME NEW h \in Handlers, Admit(h)
      PROVE  TriggerStep
  <2>1. OtherHandler(h) /\ hd'[h].pc \notin {"file", "row", "skipFile", "skipRow"}
    BY <1>4, AdmitFacts, FreshFacts
  <2> QED
    BY <2>1 DEF TriggerStep, OtherHandler, Handlers
<1>5. ASSUME NEW h \in Handlers, Apply(h)
      PROVE  TriggerStep
  <2>1. OtherHandler(h) /\ hd'[h].pc \notin {"file", "row", "skipFile", "skipRow"}
    BY <1>5, ApplyFacts, FreshFacts
  <2> QED
    BY <2>1 DEF TriggerStep, OtherHandler, Handlers
<1>6. ASSUME NEW h \in Handlers, CancelOne(h)
      PROVE  TriggerStep
  <2>1. OtherHandler(h) /\ hd'[h].pc \notin {"file", "row", "skipFile", "skipRow"}
    BY <1>6, CancelOneFacts, FreshFacts
  <2> QED
    BY <2>1 DEF TriggerStep, OtherHandler, Handlers
<1>7. ASSUME NEW h \in Handlers, Skip(h)
      PROVE  TriggerStep
  <2>1. OtherHandler(h) /\ HandlerKept(h) /\ mem'.last = Cursor(h, now)
    BY <1>7, SkipFacts
  <2>2. now \in Int
    BY DEF Shape, HandlerStates
  <2>3. hd'[h].at <= mem'.last
    BY <2>1, <2>2, CursorFacts DEF HandlerKept
  <2> QED
    BY <2>1, <2>3 DEF TriggerStep, OtherHandler, Handlers
<1>8. ASSUME NEW h \in Handlers, SkipFile(h)
      PROVE  TriggerStep
  <2>1. OtherHandler(h) /\ HandlerKept(h) /\ hd[h].pc \in {"file", "skipFile"}
    BY <1>8, SkipFileFacts
  <2> QED
    BY <2>1 DEF TriggerStep, OtherHandler, HandlerKept, Handlers
<1>9. ASSUME NEW h \in Handlers, SkipRow(h)
      PROVE  TriggerStep
  <2>1. OtherHandler(h) /\ hd'[h].pc \notin {"file", "row", "skipFile", "skipRow"}
    BY <1>9, SkipRowFacts, FreshFacts
  <2> QED
    BY <2>1 DEF TriggerStep, OtherHandler, Handlers
<1>10. ASSUME NEW h \in Handlers, Record(h)
      PROVE  TriggerStep
  <2>1. OtherHandler(h) /\ hd'[h].pc \notin {"file", "row", "skipFile", "skipRow"}
    BY <1>10, RecordFacts, FreshFacts
  <2> QED
    BY <2>1 DEF TriggerStep, OtherHandler, Handlers
<1>11. ASSUME NEW h \in Handlers, MoveCursor(h)
      PROVE  TriggerStep
  <2>1. OtherHandler(h) /\ HandlerKept(h) /\ mem'.last = Cursor(h, hd[h].to)
    BY <1>11, MoveCursorFacts
  <2>2. hd[h].to \in Int
    BY DEF Shape, HandlerStates
  <2>3. hd'[h].at <= mem'.last
    BY <2>1, <2>2, CursorFacts DEF HandlerKept
  <2> QED
    BY <2>1, <2>3 DEF TriggerStep, OtherHandler, Handlers
<1>12. ASSUME NEW h \in Handlers, PersistCursor(h)
      PROVE  TriggerStep
  <2>1. OtherHandler(h) /\ HandlerKept(h) /\ hd[h].pc \in {"file", "skipFile"}
    BY <1>12, PersistCursorFacts
  <2> QED
    BY <2>1 DEF TriggerStep, OtherHandler, HandlerKept, Handlers
<1>13. ASSUME NEW h \in Handlers, Spawn(h)
      PROVE  TriggerStep
  <2>1. OtherHandler(h) /\ hd'[h].pc \notin {"file", "row", "skipFile", "skipRow"}
    BY <1>13, SpawnFacts, FreshFacts
  <2> QED
    BY <2>1 DEF TriggerStep, OtherHandler, Handlers
<1>14. ASSUME Gate
      PROVE  TriggerStep
  BY <1>14, GateFacts, FreshFacts DEF TriggerStep, OtherHandler, Handlers
<1>15. ASSUME StopBegin
      PROVE  TriggerStep
  BY <1>15, StopBeginFacts, FreshFacts DEF TriggerStep, OtherHandler, Handlers
<1>16. ASSUME StopEnd
      PROVE  TriggerStep
  <2>1. hd'["rec"] = hd["rec"]
    BY <1>16, StopEndFacts
  <2> QED
    BY <2>1 DEF TriggerStep
<1>17. ASSUME Restart
      PROVE  TriggerStep
  BY <1>17, RestartFacts, FreshFacts DEF TriggerStep, OtherHandler, Handlers
<1> QED
  BY <1>1, <1>2, <1>3, <1>4, <1>5, <1>6, <1>7, <1>8, <1>9, <1>10, <1>11, <1>12, <1>13, <1>14,
     <1>15, <1>16, <1>17 DEF Next, Handler, Task, Worker, Restart

\* Every step keeps memory past what the recovery has handled.
LEMMA StepPast ==
  ASSUME Shape, SlotRests, Dated, LifeRests, WorkerRests, PastRests, Next
  PROVE  PastRests'
<1>1. CursorStep /\ TriggerStep /\ ReleasedStep
  BY StepCursor, StepTrigger, StepReleased
<1>2. CASE undone'
  BY <1>2 DEF PastRests
<1>3. CASE worker'.pc = "none" /\ hd'["rec"].pc = "idle"
  BY <1>3 DEF PastRests
<1>4. CASE ~undone /\ mem.last <= mem'.last
  <2>1. /\ mem.last \in Int /\ mem'.last \in Int /\ hd["rec"].at \in Int
        /\ worker.cp.first \in Int /\ worker.cp.count \in Int /\ worker.left \in Int
        /\ Interval \in Int
    <3>1. Shape'
      BY StepShape
    <3>2. mem.last \in Int /\ mem'.last \in Int
      BY <3>1 DEF Shape, Schedules
    <3>3. hd["rec"].at \in Int
      BY DEF Shape, HandlerStates, Handlers
    <3>4. worker.cp.first \in Int /\ worker.cp.count \in Int /\ worker.left \in Int
      BY DEF Shape, Checkpoints
    <3> QED
      BY <3>2, <3>3, <3>4, RecurringAssumption
  <2>2. hd'["rec"].pc \in {"file", "row", "skipFile", "skipRow"} => hd'["rec"].at <= mem'.last
    BY <1>1, <1>4, <2>1 DEF TriggerStep, PastRests
  <2>3. ASSUME worker'.pc # "none", ~failed',
               NEW k \in Int, k \in 0..(worker'.cp.count - 1), Released(k)'
        PROVE  worker'.cp.first + k * Interval <= mem'.last
    <3>1. /\ worker.pc # "none" /\ ~failed /\ worker'.cp = worker.cp
          /\ \/ Released(k)
             \/ /\ k = worker.cp.count - worker.left /\ worker' = worker
                /\ hd["rec"].pc \in {"row", "skipRow"} /\ hd'["rec"].pc = "idle"
      BY <1>1, <2>3 DEF ReleasedStep
    <3>2. worker.cp.first + k * Interval \in Int
      BY <2>1
    <3>3. worker.cp.first + k * Interval <= mem.last
      <4>1. CASE Released(k)
        BY <1>4, <2>3, <3>1, <4>1 DEF PastRests
      <4>2. CASE k = worker.cp.count - worker.left /\ hd["rec"].pc \in {"row", "skipRow"}
        <5>1. hd["rec"].at = worker.cp.first + k * Interval
          BY <4>2, WorkerAt
        <5> QED
          BY <1>4, <4>2, <5>1 DEF PastRests
      <4> QED
        BY <3>1, <4>1, <4>2
    <3> QED
      BY <1>4, <2>1, <3>1, <3>2, <3>3
  <2> QED
    BY <2>2, <2>3 DEF PastRests
<1> QED
  BY <1>1, <1>2, <1>3, <1>4 DEF CursorStep

\* Memory stays ahead while what is new is not past it.
LEMMA CopyKept ==
  ASSUME Shape, CopyRests, undone' = undone, mem'.last \in Int, mem.last <= mem'.last,
         ~undone => disk'.last <= mem.last \/ disk'.last <= mem'.last,
         \A g \in Handlers : hd'[g].pc \in {"file", "skipFile"} =>
             \/ hd'[g].snap = mem'
             \/ hd[g].pc \in {"file", "skipFile"} /\ hd'[g].snap = hd[g].snap,
         edit'.pc = "define" => edit'.snap = mem' \/ edit' = edit,
         ~undone /\ worker'.pc = "clear" => worker' = worker \/ worker'.to <= mem.last,
         disk'.last \in Int, worker'.to \in Int
  PROVE  CopyRests'
<1>1. /\ mem.last \in Int /\ \A g \in Handlers : hd[g].snap.last \in Int
      /\ edit.snap.last \in Int /\ worker.to \in Int
  BY DEF Shape, Schedules, HandlerStates
<1>2. CASE undone
  BY <1>2 DEF CopyRests
<1>3. CASE ~undone
  <2>1. disk'.last <= mem'.last
    BY <1>1, <1>3
  <2>2. ASSUME NEW g \in Handlers, hd'[g].pc \in {"file", "skipFile"}
        PROVE  hd'[g].snap.last <= mem'.last
    BY <1>1, <1>3, <2>2 DEF CopyRests
  <2>3. edit'.pc = "define" => edit'.snap.last <= mem'.last
    BY <1>1, <1>3 DEF CopyRests
  <2>4. worker'.pc = "clear" => worker'.to <= mem'.last
    BY <1>1, <1>3 DEF CopyRests
  <2> QED
    BY <2>1, <2>2, <2>3, <2>4 DEF CopyRests
<1> QED
  BY <1>2, <1>3

\* A copy that is stored leaves the file behind memory if the copy is.
LEMMA CopyStored ==
  ASSUME Shape, NEW s \in Schedules, Stored(s), disk.last <= mem.last, s.last <= mem.last
  PROVE  disk'.last <= mem.last
<1>1. disk.last \in Int /\ s.last \in Int /\ mem.last \in Int
  BY DEF Shape, Schedules
<1>2. Later(disk.last, s.last) \in {disk.last, s.last}
  BY <1>1, LaterFacts
<1> QED
  BY <1>2 DEF Stored

\* The parts of the state that are times are integers.
LEMMA TimesAre ==
  ASSUME Shape
  PROVE  mem.last \in Int /\ disk.last \in Int /\ worker.to \in Int
BY DEF Shape, Schedules

\* Every step keeps memory ahead of the file and of all that is written to it.
LEMMA StepCopy ==
  ASSUME Shape, SlotRests, Dated, LifeRests, WorkerRests, PastRests, CopyRests, Next
  PROVE  CopyRests'
<1>1. ASSUME Evaluate \/ Explicit \/ Arm \/ Disarm \/ Clock
      PROVE  CopyRests'
  <2>1. UNCHANGED <<mem, disk, worker, hd, edit, undone>>
    BY <1>1, EvaluateFacts, ExplicitFacts, ArmFacts, DisarmFacts, ClockFacts
  <2> QED
    BY <2>1 DEF CopyRests
<1>2. ASSUME NEW i \in Slots, TaskSerial(i) \/ TaskPermit(i) \/ TaskBegin(i) \/ TaskWork(i) \/ TaskEnd(i)
      PROVE  CopyRests'
  <2>1. UNCHANGED <<mem, disk, worker, hd, edit, undone>>
    BY <1>2, TaskSerialFacts, TaskPermitFacts, TaskBeginFacts, TaskWorkFacts, TaskEndFacts
  <2> QED
    BY <2>1 DEF CopyRests
<1>3. ASSUME StartPlan
      PROVE  CopyRests'
  <2>1. UNCHANGED <<undone, disk, hd, edit, worker>> /\ mem'.last = Advanced(mem)
    BY <1>3, StartPlanFacts
  <2>2. mem.last <= mem'.last
    BY <2>1, AdvancedFacts
  <2>7. ~undone => disk.last <= mem.last
    BY DEF CopyRests
  <2>8. mem.last \in Int /\ disk.last \in Int /\ worker.to \in Int
    BY TimesAre
  <2>9. mem'.last \in Int /\ disk'.last \in Int /\ worker'.to \in Int
    <3>1. Shape'
      BY <1>3, StartPlanFacts
    <3> QED
      BY <3>1 DEF Shape, Schedules
  <2> QED
    BY <2>1, <2>2, <2>7, <2>8, <2>9, CopyKept
<1>4. ASSUME StartPersist
      PROVE  CopyRests'
  <2>1. UNCHANGED <<undone, mem, hd, edit>> /\ Stored(mem)
    BY <1>4, StartPersistFacts
  <2>2. worker'.pc # "clear"
    BY <1>4, StartPersistFacts, FreshFacts DEF LifeRests
  <2>3. mem \in Schedules
    BY DEF Shape
  <2>7. ~undone => disk.last <= mem.last
    BY DEF CopyRests
  <2>8. mem.last \in Int /\ disk.last \in Int /\ worker.to \in Int
    BY TimesAre
  <2>9. mem'.last \in Int /\ disk'.last \in Int /\ worker'.to \in Int
    <3>1. Shape'
      BY <1>4, StartPersistFacts
    <3> QED
      BY <3>1 DEF Shape, Schedules
  <2>4. ~undone => disk'.last <= mem.last
    BY <2>1, <2>3, <2>7, <2>8, CopyStored
  <2> QED
    BY <2>1, <2>2, <2>4, <2>8, <2>9, CopyKept
<1>5. ASSUME Receive
      PROVE  CopyRests'
  <2>1. /\ UNCHANGED <<undone, disk, mem, edit, worker>> /\ hd'["live"].pc = "wait"
        /\ hd'["rec"] = hd["rec"]
    BY <1>5, ReceiveFacts
  <2> QED
    BY <2>1 DEF CopyRests, Handlers
<1>6. ASSUME NEW h \in Handlers, Admit(h)
      PROVE  CopyRests'
  <2>1. UNCHANGED <<undone, disk, mem, edit, worker>> /\ OtherHandler(h)
    BY <1>6, AdmitFacts
  <2>2. hd'[h].pc \notin {"file", "skipFile"}
    BY <1>6, AdmitFacts, FreshFacts
  <2> QED
    BY <2>1, <2>2 DEF CopyRests, OtherHandler
<1>7. ASSUME NEW h \in Handlers, Apply(h)
      PROVE  CopyRests'
  <2>1. UNCHANGED <<undone, disk, mem, edit, worker>> /\ OtherHandler(h)
    BY <1>7, ApplyFacts
  <2>2. hd'[h].pc \notin {"file", "skipFile"}
    BY <1>7, ApplyFacts, FreshFacts
  <2> QED
    BY <2>1, <2>2 DEF CopyRests, OtherHandler
<1>8. ASSUME NEW h \in Handlers, CancelOne(h)
      PROVE  CopyRests'
  <2>1. UNCHANGED <<undone, disk, mem, edit, worker>> /\ OtherHandler(h)
    BY <1>8, CancelOneFacts
  <2>2. hd'[h].pc \notin {"file", "skipFile"}
    BY <1>8, CancelOneFacts, FreshFacts
  <2> QED
    BY <2>1, <2>2 DEF CopyRests, OtherHandler
<1>9. ASSUME NEW h \in Handlers, Skip(h)
      PROVE  CopyRests'
  <2>1. /\ UNCHANGED <<undone, disk, edit, worker>> /\ OtherHandler(h) /\ hd'[h].snap = mem'
        /\ mem'.last = Cursor(h, now)
    BY <1>9, SkipFacts
  <2>2. now \in Int
    BY DEF Shape, HandlerStates
  <2>3. mem.last <= mem'.last
    BY <2>1, <2>2, CursorFacts
  <2>7. ~undone => disk.last <= mem.last
    BY DEF CopyRests
  <2>8. mem.last \in Int /\ disk.last \in Int /\ worker.to \in Int
    BY TimesAre
  <2>9. mem'.last \in Int /\ disk'.last \in Int /\ worker'.to \in Int
    <3>1. Shape'
      BY <1>9, SkipFacts
    <3> QED
      BY <3>1 DEF Shape, Schedules
  <2>4. \A g \in Handlers : hd'[g].snap = mem' \/ hd'[g] = hd[g]
    BY <2>1 DEF OtherHandler
  <2> QED
    BY <2>1, <2>3, <2>4, <2>7, <2>8, <2>9, CopyKept
<1>10. ASSUME NEW h \in Handlers, SkipFile(h)
      PROVE  CopyRests'
  <2>1. UNCHANGED <<undone, mem, edit, worker>> /\ OtherHandler(h) /\ Stored(hd[h].snap)
    BY <1>10, SkipFileFacts
  <2>2. hd[h].pc \in {"file", "skipFile"} /\ hd'[h].pc \notin {"file", "skipFile"}
    BY <1>10, SkipFileFacts
  <2>3. hd[h].snap \in Schedules
    BY DEF Shape, HandlerStates
  <2>8. mem.last \in Int /\ disk.last \in Int /\ worker.to \in Int
    BY TimesAre
  <2>9. mem'.last \in Int /\ disk'.last \in Int /\ worker'.to \in Int
    <3>1. Shape'
      BY <1>10, SkipFileFacts
    <3> QED
      BY <3>1 DEF Shape, Schedules
  <2>4. ~undone => disk.last <= mem.last /\ hd[h].snap.last <= mem.last
    BY <2>2 DEF CopyRests
  <2>5. ~undone => disk'.last <= mem.last
    BY <2>1, <2>3, <2>4, CopyStored
  <2>6. \A g \in Handlers : hd'[g].pc \in {"file", "skipFile"} => hd'[g] = hd[g]
    BY <2>1, <2>2 DEF OtherHandler
  <2> QED
    BY <2>1, <2>5, <2>6, <2>8, <2>9, CopyKept
<1>11. ASSUME NEW h \in Handlers, SkipRow(h)
      PROVE  CopyRests'
  <2>1. UNCHANGED <<undone, disk, mem, edit, worker>> /\ OtherHandler(h)
    BY <1>11, SkipRowFacts
  <2>2. hd'[h].pc \notin {"file", "skipFile"}
    BY <1>11, SkipRowFacts, FreshFacts
  <2> QED
    BY <2>1, <2>2 DEF CopyRests, OtherHandler
<1>12. ASSUME NEW h \in Handlers, Record(h)
      PROVE  CopyRests'
  <2>1. UNCHANGED <<undone, disk, mem, edit, worker>> /\ OtherHandler(h)
    BY <1>12, RecordFacts
  <2>2. hd'[h].pc \notin {"file", "skipFile"}
    BY <1>12, RecordFacts, FreshFacts
  <2> QED
    BY <2>1, <2>2 DEF CopyRests, OtherHandler
<1>13. ASSUME NEW h \in Handlers, MoveCursor(h)
      PROVE  CopyRests'
  <2>1. /\ UNCHANGED <<undone, disk, edit, worker>> /\ OtherHandler(h) /\ hd'[h].snap = mem'
        /\ mem'.last = Cursor(h, hd[h].to)
    BY <1>13, MoveCursorFacts
  <2>2. hd[h].to \in Int
    BY DEF Shape, HandlerStates
  <2>3. mem.last <= mem'.last
    BY <2>1, <2>2, CursorFacts
  <2>7. ~undone => disk.last <= mem.last
    BY DEF CopyRests
  <2>8. mem.last \in Int /\ disk.last \in Int /\ worker.to \in Int
    BY TimesAre
  <2>9. mem'.last \in Int /\ disk'.last \in Int /\ worker'.to \in Int
    <3>1. Shape'
      BY <1>13, MoveCursorFacts
    <3> QED
      BY <3>1 DEF Shape, Schedules
  <2>4. \A g \in Handlers : hd'[g].snap = mem' \/ hd'[g] = hd[g]
    BY <2>1 DEF OtherHandler
  <2> QED
    BY <2>1, <2>3, <2>4, <2>7, <2>8, <2>9, CopyKept
<1>14. ASSUME NEW h \in Handlers, PersistCursor(h)
      PROVE  CopyRests'
  <2>1. UNCHANGED <<undone, mem, edit, worker>> /\ OtherHandler(h) /\ Stored(hd[h].snap)
    BY <1>14, PersistCursorFacts
  <2>2. hd[h].pc \in {"file", "skipFile"} /\ hd'[h].pc \notin {"file", "skipFile"}
    BY <1>14, PersistCursorFacts
  <2>3. hd[h].snap \in Schedules
    BY DEF Shape, HandlerStates
  <2>8. mem.last \in Int /\ disk.last \in Int /\ worker.to \in Int
    BY TimesAre
  <2>9. mem'.last \in Int /\ disk'.last \in Int /\ worker'.to \in Int
    <3>1. Shape'
      BY <1>14, PersistCursorFacts
    <3> QED
      BY <3>1 DEF Shape, Schedules
  <2>4. ~undone => disk.last <= mem.last /\ hd[h].snap.last <= mem.last
    BY <2>2 DEF CopyRests
  <2>5. ~undone => disk'.last <= mem.last
    BY <2>1, <2>3, <2>4, CopyStored
  <2>6. \A g \in Handlers : hd'[g].pc \in {"file", "skipFile"} => hd'[g] = hd[g]
    BY <2>1, <2>2 DEF OtherHandler
  <2> QED
    BY <2>1, <2>5, <2>6, <2>8, <2>9, CopyKept
<1>15. ASSUME NEW h \in Handlers, Spawn(h)
      PROVE  CopyRests'
  <2>1. UNCHANGED <<undone, disk, mem, edit, worker>> /\ OtherHandler(h)
    BY <1>15, SpawnFacts
  <2>2. hd'[h].pc \notin {"file", "skipFile"}
    BY <1>15, SpawnFacts, FreshFacts
  <2> QED
    BY <2>1, <2>2 DEF CopyRests, OtherHandler
<1>16. ASSUME Gate
      PROVE  CopyRests'
  <2>1. /\ UNCHANGED <<undone, disk, mem, edit>> /\ worker'.pc = "handle" /\ hd'["rec"].pc = "wait"
        /\ hd'["live"] = hd["live"]
    BY <1>16, GateFacts
  <2> QED
    BY <2>1 DEF CopyRests, Handlers
<1>17. ASSUME GiveUp
      PROVE  CopyRests'
  <2>1. UNCHANGED <<undone, disk, mem, edit, hd>>
    BY <1>17, GiveUpFacts
  <2>2. worker'.pc # "clear"
    BY <1>17, GiveUpFacts, FreshFacts
  <2> QED
    BY <2>1, <2>2 DEF CopyRests
<1>18. ASSUME Handled
      PROVE  CopyRests'
  <2>1. UNCHANGED <<undone, disk, mem, edit, hd>>
    BY <1>18, HandledFacts
  <2>2. worker'.pc # "clear"
    BY <1>18, HandledFacts, FreshFacts
  <2> QED
    BY <2>1, <2>2 DEF CopyRests
<1>19. ASSUME Release
      PROVE  CopyRests'
  <2>1. UNCHANGED <<undone, disk, mem, edit, hd>>
    BY <1>19, ReleaseFacts
  <2>2. worker'.pc # "clear"
    BY <1>19, ReleaseFacts, FreshFacts
  <2> QED
    BY <2>1, <2>2 DEF CopyRests
<1>20. ASSUME Drain
      PROVE  CopyRests'
  <2>1. UNCHANGED <<undone, disk, mem, edit, hd>>
    BY <1>20, DrainFacts
  <2>2. worker'.pc # "clear"
    BY <1>20, DrainFacts, FreshFacts
  <2> QED
    BY <2>1, <2>2 DEF CopyRests
<1>21. ASSUME SeeActive
      PROVE  CopyRests'
  <2>1. UNCHANGED <<undone, disk, mem, edit, hd>>
    BY <1>21, SeeActiveFacts
  <2>2. worker'.pc # "clear"
    BY <1>21, SeeActiveFacts, FreshFacts
  <2> QED
    BY <2>1, <2>2 DEF CopyRests
<1>22. ASSUME SeeUnfinished
      PROVE  CopyRests'
  <2>1. UNCHANGED <<undone, disk, mem, edit, hd>> /\ worker.pc = "rest"
    BY <1>22, SeeUnfinishedFacts
  <2>2. ASSUME ~undone, worker'.pc = "clear"
        PROVE  worker'.to <= mem.last
    <3>1. BatchEnded /\ worker'.to = Later(mem.last, worker.cp.last)
      BY <1>22, SeeUnfinishedFacts, <2>2, FreshFacts
    <3>2. worker.left = 0 /\ worker.cp # NoCheckpoint
      BY <2>1 DEF WorkerRests
    <3>3. /\ worker.cp.count >= 1
          /\ worker.cp.last = worker.cp.first + (worker.cp.count - 1) * Interval
      BY <3>2 DEF Dated, DatedCheckpoint
    <3>4. worker.cp.count \in Int /\ worker.cp.last \in Int /\ mem.last \in Int
      BY DEF Shape, Checkpoints, Schedules
    <3>5. Released(worker.cp.count - 1) /\ worker.cp.count - 1 \in 0..(worker.cp.count - 1)
      BY <3>2, <3>3, <3>4 DEF Released
    <3>6. worker.cp.last <= mem.last
      BY <2>1, <2>2, <3>1, <3>3, <3>5 DEF PastRests, BatchEnded
    <3> QED
      BY <3>1, <3>4, <3>6, LaterFacts
  <2> QED
    BY <2>1, <2>2 DEF CopyRests
<1>23. ASSUME Clear
      PROVE  CopyRests'
  <2>1. UNCHANGED <<undone, mem, edit, hd>> /\ worker.pc = "clear"
    BY <1>23, ClearFacts
  <2>2. worker'.pc # "clear"
    BY <1>23, ClearFacts, FreshFacts
  <2>8. mem.last \in Int /\ disk.last \in Int /\ worker.to \in Int
    BY TimesAre
  <2>9. mem'.last \in Int /\ disk'.last \in Int /\ worker'.to \in Int
    <3>1. Shape'
      BY <1>23, ClearFacts
    <3> QED
      BY <3>1 DEF Shape, Schedules
  <2>3. disk' = disk \/ disk'.last = Later(disk.last, worker.to)
    BY <1>23, ClearFacts
  <2>4. Later(disk.last, worker.to) \in {disk.last, worker.to}
    BY <2>8, LaterFacts
  <2>5. ~undone => disk'.last <= mem.last
    BY <2>1, <2>3, <2>4 DEF CopyRests
  <2> QED
    BY <2>1, <2>2, <2>5 DEF CopyRests
<1>24. ASSUME Forget
      PROVE  CopyRests'
  <2>1. UNCHANGED <<undone, disk, edit, hd>> /\ worker'.pc = "none"
    BY <1>24, ForgetFacts, FreshFacts
  <2>2. mem' = mem \/ mem'.last = Later(mem.last, worker.cp.last)
    BY <1>24, ForgetFacts
  <2>8. mem.last \in Int /\ disk.last \in Int /\ worker.to \in Int
    BY TimesAre
  <2>9. mem'.last \in Int /\ disk'.last \in Int /\ worker'.to \in Int
    <3>1. Shape'
      BY <1>24, ForgetFacts
    <3> QED
      BY <3>1 DEF Shape, Schedules
  <2>3. mem.last <= mem'.last
    <3>1. worker.cp.last \in Int
      BY DEF Shape, Checkpoints
    <3>2. mem.last <= Later(mem.last, worker.cp.last)
      BY <2>8, <3>1, LaterFacts
    <3> QED
      BY <2>2, <2>8, <3>2
  <2>7. ~undone => disk.last <= mem.last
    BY DEF CopyRests
  <2> QED
    BY <2>1, <2>3, <2>7, <2>8, <2>9, CopyKept
<1>25. ASSUME SetEnabled
      PROVE  CopyRests'
  <2>1. /\ UNCHANGED <<undone, disk, hd, worker>> /\ mem'.last = mem.last /\ edit'.snap = mem'
    BY <1>25, SetEnabledFacts
  <2>7. ~undone => disk.last <= mem.last
    BY DEF CopyRests
  <2>8. mem.last \in Int /\ disk.last \in Int /\ worker.to \in Int
    BY TimesAre
  <2>9. mem'.last \in Int /\ disk'.last \in Int /\ worker'.to \in Int
    <3>1. Shape'
      BY <1>25, SetEnabledFacts
    <3> QED
      BY <3>1 DEF Shape, Schedules
  <2> QED
    BY <2>1, <2>7, <2>8, <2>9, CopyKept
<1>26. ASSUME DefineEnabled
      PROVE  CopyRests'
  <2>1. /\ UNCHANGED <<undone, mem, hd, worker>> /\ Stored(edit.snap) /\ edit.pc = "define"
        /\ edit'.pc = "replace"
    BY <1>26, DefineEnabledFacts
  <2>2. edit.snap \in Schedules
    BY DEF Shape
  <2>8. mem.last \in Int /\ disk.last \in Int /\ worker.to \in Int
    BY TimesAre
  <2>9. mem'.last \in Int /\ disk'.last \in Int /\ worker'.to \in Int
    <3>1. Shape'
      BY <1>26, DefineEnabledFacts
    <3> QED
      BY <3>1 DEF Shape, Schedules
  <2>3. ~undone => disk.last <= mem.last /\ edit.snap.last <= mem.last
    BY <2>1 DEF CopyRests
  <2>4. ~undone => disk'.last <= mem.last
    BY <2>1, <2>2, <2>3, CopyStored
  <2> QED
    BY <2>1, <2>4 DEF CopyRests
<1>27. ASSUME ReplaceFile
      PROVE  CopyRests'
  <2>1. UNCHANGED <<undone, mem, hd, worker>> /\ disk' \in {disk, mem}
    BY <1>27, ReplaceFileFacts
  <2>2. edit'.pc # "define"
    BY <1>27, ReplaceFileFacts, FreshFacts
  <2>3. ~undone => disk'.last <= mem.last
    BY <2>1, TimesAre DEF CopyRests
  <2> QED
    BY <2>1, <2>2, <2>3 DEF CopyRests
<1>28. ASSUME UndoEnabled
      PROVE  CopyRests'
  <2>1. undone'
    BY <1>28, UndoEnabledFacts
  <2> QED
    BY <2>1 DEF CopyRests
<1>29. ASSUME StopBegin
      PROVE  CopyRests'
  <2>1. UNCHANGED <<undone, disk, mem, edit>> /\ hd'["rec"] = Idle /\ hd'["live"] = hd["live"]
    BY <1>29, StopBeginFacts
  <2>2. worker' = worker \/ worker'.pc = "none"
    BY <1>29, StopBeginFacts, FreshFacts
  <2> QED
    BY <2>1, <2>2, FreshFacts DEF CopyRests, Handlers
<1>30. ASSUME StopEnd
      PROVE  CopyRests'
  <2>1. UNCHANGED <<undone, disk, mem, edit>> /\ hd'["live"] = Idle /\ hd'["rec"] = hd["rec"]
    BY <1>30, StopEndFacts
  <2>2. worker' = worker \/ worker'.pc = "none"
    BY <1>30, StopEndFacts, FreshFacts
  <2> QED
    BY <2>1, <2>2, FreshFacts DEF CopyRests, Handlers
<1>31. ASSUME Restart
      PROVE  CopyRests'
  <2>1. /\ mem' = disk /\ disk' = disk /\ worker'.pc = "none" /\ edit'.pc = "idle"
        /\ \A g \in Handlers : hd'[g].pc = "idle"
    BY <1>31, RestartFacts, FreshFacts
  <2> QED
    BY <2>1, TimesAre DEF CopyRests
<1> QED
  BY <1>1, <1>2, <1>3, <1>4, <1>5, <1>6, <1>7, <1>8, <1>9, <1>10, <1>11, <1>12, <1>13, <1>14,
     <1>15, <1>16, <1>17, <1>18, <1>19, <1>20, <1>21, <1>22, <1>23, <1>24, <1>25, <1>26, <1>27,
     <1>28, <1>29, <1>30, <1>31 DEF Next, Handler, Task, Worker, Restart

----------------------------------------------------------------------------
(* What a step does to the file. *)

\* A copy that is stored brings back no cleared checkpoint.
LEMMA StoredClears ==
  ASSUME Shape, ClearedRests, NEW s \in Schedules, Stored(s), cleared' = cleared,
         disk.pending \notin cleared
  PROVE  disk'.pending \notin cleared
<1>1. SUFFICES ASSUME disk'.pending \in cleared
               PROVE  FALSE
  OBVIOUS
<1>2. /\ disk.pending = NoCheckpoint /\ disk.last < s.pending.last /\ disk'.pending = s.pending
  BY <1>1 DEF Stored
<1>3. PassedIn(disk, s.pending) /\ s.pending # disk.pending
  BY <1>1, <1>2 DEF ClearedRests
<1>4. disk.last >= s.pending.last
  BY <1>3 DEF PassedIn
<1>5. disk.last \in Int /\ s.pending.last \in Int
  BY DEF Shape, Schedules, Checkpoints
<1> QED
  BY <1>2, <1>4, <1>5

\* A step takes the cursor in the file back only for an edit after an undone one.
LEMMA StepAdvances ==
  ASSUME Shape, SlotRests, CopyRests, Next
  PROVE  CursorMonotone
<1>1. ASSUME StartPlan \/ Evaluate \/ Explicit \/ Receive \/ Gate \/ GiveUp \/ Handled \/ Release \/ Drain \/
             SeeActive \/ SeeUnfinished \/ Forget \/ Arm \/ Disarm \/ SetEnabled \/ UndoEnabled \/ StopBegin \/
             StopEnd \/ Restart \/ Clock
      PROVE  CursorMonotone
  <2>1. UNCHANGED <<disk>>
    BY <1>1, StartPlanFacts, EvaluateFacts, ExplicitFacts, ReceiveFacts, GateFacts, GiveUpFacts,
       HandledFacts, ReleaseFacts, DrainFacts, SeeActiveFacts, SeeUnfinishedFacts, ForgetFacts,
       ArmFacts, DisarmFacts, SetEnabledFacts, UndoEnabledFacts, StopBeginFacts, StopEndFacts,
       RestartFacts, ClockFacts
  <2> QED
    BY <2>1 DEF CursorMonotone, Shape, Schedules
<1>2. ASSUME NEW h \in Handlers, Admit(h) \/ Apply(h) \/ CancelOne(h) \/ Skip(h) \/ SkipRow(h) \/ Record(h) \/ MoveCursor(h) \/
             Spawn(h)
      PROVE  CursorMonotone
  <2>1. UNCHANGED <<disk>>
    BY <1>2, AdmitFacts, ApplyFacts, CancelOneFacts, SkipFacts, SkipRowFacts, RecordFacts,
       MoveCursorFacts, SpawnFacts
  <2> QED
    BY <2>1 DEF CursorMonotone, Shape, Schedules
<1>3. ASSUME NEW i \in Slots, TaskSerial(i) \/ TaskPermit(i) \/ TaskBegin(i) \/ TaskWork(i) \/ TaskEnd(i)
      PROVE  CursorMonotone
  <2>1. UNCHANGED <<disk>>
    BY <1>3, TaskSerialFacts, TaskPermitFacts, TaskBeginFacts, TaskWorkFacts, TaskEndFacts
  <2> QED
    BY <2>1 DEF CursorMonotone, Shape, Schedules
<1>4. ASSUME StartPersist
      PROVE  CursorMonotone
  <2>1. Stored(mem)
    BY <1>4, StartPersistFacts
  <2>2. mem \in Schedules
    BY DEF Shape
  <2>3. disk.last \in Int /\ disk'.last \in Int
    <3>1. Shape'
      BY <1>4, StartPersistFacts
    <3> QED
      BY <3>1 DEF Shape, Schedules
  <2>4. disk.last <= disk'.last
    BY <2>1, <2>2, StoredKeeps
  <2> QED
    BY <2>3, <2>4 DEF CursorMonotone
<1>5. ASSUME NEW h \in Handlers, SkipFile(h)
      PROVE  CursorMonotone
  <2>1. Stored(hd[h].snap)
    BY <1>5, SkipFileFacts
  <2>2. hd[h].snap \in Schedules
    BY DEF Shape, HandlerStates
  <2>3. disk.last \in Int /\ disk'.last \in Int
    <3>1. Shape'
      BY <1>5, SkipFileFacts
    <3> QED
      BY <3>1 DEF Shape, Schedules
  <2>4. disk.last <= disk'.last
    BY <2>1, <2>2, StoredKeeps
  <2> QED
    BY <2>3, <2>4 DEF CursorMonotone
<1>6. ASSUME NEW h \in Handlers, PersistCursor(h)
      PROVE  CursorMonotone
  <2>1. Stored(hd[h].snap)
    BY <1>6, PersistCursorFacts
  <2>2. hd[h].snap \in Schedules
    BY DEF Shape, HandlerStates
  <2>3. disk.last \in Int /\ disk'.last \in Int
    <3>1. Shape'
      BY <1>6, PersistCursorFacts
    <3> QED
      BY <3>1 DEF Shape, Schedules
  <2>4. disk.last <= disk'.last
    BY <2>1, <2>2, StoredKeeps
  <2> QED
    BY <2>3, <2>4 DEF CursorMonotone
<1>7. ASSUME Clear
      PROVE  CursorMonotone
  <2>1. disk' = disk \/ disk'.last = Later(disk.last, worker.to)
    BY <1>7, ClearFacts
  <2>2. worker.to \in Int
    BY DEF Shape
  <2>3. disk.last \in Int /\ disk'.last \in Int
    <3>1. Shape'
      BY <1>7, ClearFacts
    <3> QED
      BY <3>1 DEF Shape, Schedules
  <2>4. disk.last <= Later(disk.last, worker.to)
    BY <2>2, <2>3, LaterFacts
  <2> QED
    BY <2>1, <2>3, <2>4 DEF CursorMonotone
<1>8. ASSUME DefineEnabled
      PROVE  CursorMonotone
  <2>1. Stored(edit.snap)
    BY <1>8, DefineEnabledFacts
  <2>2. edit.snap \in Schedules
    BY DEF Shape
  <2>3. disk.last \in Int /\ disk'.last \in Int
    <3>1. Shape'
      BY <1>8, DefineEnabledFacts
    <3> QED
      BY <3>1 DEF Shape, Schedules
  <2>4. disk.last <= disk'.last
    BY <2>1, <2>2, StoredKeeps
  <2> QED
    BY <2>3, <2>4 DEF CursorMonotone
<1>9. ASSUME ReplaceFile
      PROVE  CursorMonotone
  <2>1. edit.pc = "replace" /\ disk' \in {disk, mem}
    BY <1>9, ReplaceFileFacts
  <2>2. mem.last \in Int
    BY DEF Shape, Schedules
  <2>3. disk.last \in Int /\ disk'.last \in Int
    <3>1. Shape'
      BY <1>9, ReplaceFileFacts
    <3> QED
      BY <3>1 DEF Shape, Schedules
  <2>4. undone \/ disk.last <= mem.last
    BY DEF CopyRests
  <2> QED
    BY <2>1, <2>2, <2>3, <2>4 DEF CursorMonotone
<1> QED
  BY <1>1, <1>2, <1>3, <1>4, <1>5, <1>6, <1>7, <1>8, <1>9
     DEF Next, Handler, Task, Worker, Restart

\* A step brings a cleared checkpoint back to the file only for an edit.
LEMMA StepClears ==
  ASSUME Shape, SlotRests, WorkerRests, ClearedRests, ClearedRests', Next
  PROVE  ClearedStaysCleared
<1>1. ASSUME StartPlan \/ Evaluate \/ Explicit \/ Receive \/ Gate \/ GiveUp \/ Handled \/ Release \/ Drain \/
             SeeActive \/ SeeUnfinished \/ Forget \/ Arm \/ Disarm \/ SetEnabled \/ UndoEnabled \/ StopBegin \/
             StopEnd \/ Restart \/ Clock
      PROVE  ClearedStaysCleared
  <2>1. UNCHANGED <<disk, cleared>>
    BY <1>1, StartPlanFacts, EvaluateFacts, ExplicitFacts, ReceiveFacts, GateFacts, GiveUpFacts,
       HandledFacts, ReleaseFacts, DrainFacts, SeeActiveFacts, SeeUnfinishedFacts, ForgetFacts,
       ArmFacts, DisarmFacts, SetEnabledFacts, UndoEnabledFacts, StopBeginFacts, StopEndFacts,
       RestartFacts, ClockFacts
  <2> QED
    BY <2>1 DEF ClearedStaysCleared
<1>2. ASSUME NEW h \in Handlers, Admit(h) \/ Apply(h) \/ CancelOne(h) \/ Skip(h) \/ SkipRow(h) \/ Record(h) \/ MoveCursor(h) \/
             Spawn(h)
      PROVE  ClearedStaysCleared
  <2>1. UNCHANGED <<disk, cleared>>
    BY <1>2, AdmitFacts, ApplyFacts, CancelOneFacts, SkipFacts, SkipRowFacts, RecordFacts,
       MoveCursorFacts, SpawnFacts
  <2> QED
    BY <2>1 DEF ClearedStaysCleared
<1>3. ASSUME NEW i \in Slots, TaskSerial(i) \/ TaskPermit(i) \/ TaskBegin(i) \/ TaskWork(i) \/ TaskEnd(i)
      PROVE  ClearedStaysCleared
  <2>1. UNCHANGED <<disk, cleared>>
    BY <1>3, TaskSerialFacts, TaskPermitFacts, TaskBeginFacts, TaskWorkFacts, TaskEndFacts
  <2> QED
    BY <2>1 DEF ClearedStaysCleared
<1>4. ASSUME StartPersist
      PROVE  ClearedStaysCleared
  <2>1. Stored(mem) /\ cleared' = cleared
    BY <1>4, StartPersistFacts
  <2>2. mem \in Schedules
    BY DEF Shape
  <2> QED
    BY <2>1, <2>2, StoredClears DEF ClearedStaysCleared
<1>5. ASSUME NEW h \in Handlers, SkipFile(h)
      PROVE  ClearedStaysCleared
  <2>1. Stored(hd[h].snap) /\ cleared' = cleared
    BY <1>5, SkipFileFacts
  <2>2. hd[h].snap \in Schedules
    BY DEF Shape, HandlerStates
  <2> QED
    BY <2>1, <2>2, StoredClears DEF ClearedStaysCleared
<1>6. ASSUME NEW h \in Handlers, PersistCursor(h)
      PROVE  ClearedStaysCleared
  <2>1. Stored(hd[h].snap) /\ cleared' = cleared
    BY <1>6, PersistCursorFacts
  <2>2. hd[h].snap \in Schedules
    BY DEF Shape, HandlerStates
  <2> QED
    BY <2>1, <2>2, StoredClears DEF ClearedStaysCleared
<1>7. ASSUME Clear
      PROVE  ClearedStaysCleared
  <2>1. CASE disk' = disk
    <3>1. worker.cp # NoCheckpoint
      BY <1>7, ClearFacts DEF WorkerRests
    <3>2. cleared' = cleared
      BY <1>7, ClearFacts, <2>1, <3>1
    <3> QED
      BY <2>1, <3>2 DEF ClearedStaysCleared
  <2>2. CASE disk'.pending = NoCheckpoint
    <3>1. NoCheckpoint \notin cleared'
      BY DEF ClearedRests
    <3> QED
      BY <2>2, <3>1 DEF ClearedStaysCleared
  <2> QED
    BY <1>7, ClearFacts, <2>1, <2>2
<1>8. ASSUME DefineEnabled
      PROVE  ClearedStaysCleared
  <2>1. edit.pc # "idle"
    BY <1>8, DefineEnabledFacts
  <2> QED
    BY <2>1 DEF ClearedStaysCleared
<1>9. ASSUME ReplaceFile
      PROVE  ClearedStaysCleared
  <2>1. edit.pc # "idle"
    BY <1>9, ReplaceFileFacts
  <2> QED
    BY <2>1 DEF ClearedStaysCleared
<1> QED
  BY <1>1, <1>2, <1>3, <1>4, <1>5, <1>6, <1>7, <1>8, <1>9
     DEF Next, Handler, Task, Worker, Restart

----------------------------------------------------------------------------
(* What holds at the start and in every step. *)

\* The invariant holds when the system begins.
LEMMA InitInvariant ==
  ASSUME Init
  PROVE  IndInv
<1>1. PICK c \in Cases : policy = [missed |-> c.missed, conc |-> c.conc] /\ left = c.left
  BY DEF Init
<1>2. /\ c.missed \in {"skip", "catch_up", "backfill"} /\ c.left \in [Kinds -> Nat]
      /\ c.conc \in {"allow", "queue", "skip_if_running", "cancel_previous"}
  BY RecurringAssumption
<1>3. /\ mem \in Schedules /\ mem.last \in {-1, 0} /\ mem.pending = NoCheckpoint /\ disk = mem
  <2>1. PICK last \in {Never, 0} : mem = Schedule(last, NoCheckpoint, TRUE)
    BY DEF Init
  <2>2. last \in Int /\ last \in {-1, 0}
    BY <2>1 DEF Never
  <2>3. mem \in Schedules /\ mem.last = last /\ mem.pending = NoCheckpoint
    BY <2>1, <2>2, ScheduleFacts, FreshFacts
  <2> QED
    BY <2>2, <2>3 DEF Init
<1>4. /\ now = 0 /\ fenced = FALSE /\ run = "off" /\ armed = FALSE /\ decided = FALSE
      /\ held = FALSE /\ failed = FALSE /\ queue = <<>> /\ worker = NoWorker
      /\ edit = NoEdit /\ undone = FALSE /\ owed = {} /\ recorded = {} /\ cleared = {}
      /\ line = NoLine /\ hd = [h \in Handlers |-> Idle] /\ ex = [i \in Slots |-> Blank]
  BY DEF Init
<1>5. /\ \A h \in Handlers : hd[h] = Idle
      /\ hd["rec"] = Idle /\ hd["live"] = Idle
      /\ \A i \in Slots : ex[i] = Blank
      /\ DOMAIN line = {}
  BY <1>4 DEF Handlers, NoLine
<1>6. Shape
  <2>1. policy \in [missed : {"skip", "catch_up", "backfill"},
                    conc : {"allow", "queue", "skip_if_running", "cancel_previous"}]
    BY <1>1, <1>2
  <2>2. now \in 0..MaxTime /\ queue \in Seq(Int) /\ left \in [Kinds -> Nat]
    BY <1>1, <1>2, <1>4, RecurringAssumption
  <2>3. hd \in [Handlers -> HandlerStates] /\ ex \in [Slots -> Executions]
    BY <1>4, FreshFacts
  <2>4. line \in [DOMAIN line -> SUBSET DOMAIN line] /\ DOMAIN line \subseteq Slots
    BY <1>4 DEF NoLine
  <2> QED
    BY <1>3, <1>4, <2>1, <2>2, <2>3, <2>4, FreshFacts DEF Shape
<1>7. Dated
  <2>1. DatedSchedule(mem, 0) /\ DatedSchedule(disk, 0)
    BY <1>3 DEF DatedSchedule, DatedCheckpoint, Never
  <2>2. DatedSchedule(NoSchedule, 0) /\ DatedCheckpoint(NoCheckpoint, 0)
    BY DatedNothing
  <2>3. \A h \in Handlers : hd[h].at <= now /\ hd[h].to <= now /\ DatedSchedule(hd[h].snap, now)
    BY <1>4, <1>5, <2>2, FreshFacts
  <2>4. \A k \in 1..Len(queue) : queue[k] <= now
    BY <1>4
  <2> QED
    BY <1>4, <2>1, <2>2, <2>3, <2>4, FreshFacts DEF Dated
<1>8. LifeRests /\ NoneRests /\ WorkerRests
  BY <1>4, <1>5, FreshFacts
     DEF LifeRests, RestoredWaitsForOperator, Active, NoneRests, WorkerRests
<1>9. LockRests /\ SlotRests /\ GuardRests /\ CancelRests
  BY <1>5, FreshFacts DEF LockRests, SlotRests, GuardRests, CancelRests
<1>10. RowRests /\ LineRests /\ OrderRests /\ AtRests
  BY <1>5, FreshFacts DEF RowRests, LineRests, OrderRests, AtRests, Active
<1>11. HandledRests /\ QuietRests /\ DoneRests /\ KeepRests /\ ClearedRests
  BY <1>4, FreshFacts DEF HandledRests, QuietRests, DoneRests, KeepRests, ClearedRests
<1>12. CopyRests /\ PastRests
  BY <1>3, <1>4, <1>5, FreshFacts DEF CopyRests, PastRests
<1> QED
  BY <1>6, <1>7, <1>8, <1>9, <1>10, <1>11, <1>12 DEF IndInv

\* Every step keeps the invariant.
LEMMA StepInvariant ==
  ASSUME IndInv, [Next]_vars
  PROVE  IndInv'
<1>1. CASE Next
  <2>1. /\ Shape /\ Dated /\ LifeRests /\ NoneRests /\ WorkerRests /\ LockRests /\ SlotRests
        /\ GuardRests /\ CancelRests /\ RowRests /\ LineRests /\ OrderRests /\ AtRests
        /\ HandledRests /\ QuietRests /\ DoneRests /\ KeepRests /\ ClearedRests /\ CopyRests
        /\ PastRests
    BY DEF IndInv
  <2>2. Shape' /\ Dated' /\ LifeRests' /\ NoneRests' /\ WorkerRests' /\ LockRests'
    BY <1>1, <2>1, StepShape, StepDated, StepLife, StepNone, StepWorker, StepLock
  <2>3. SlotRests' /\ GuardRests' /\ CancelRests' /\ RowRests' /\ LineRests' /\ OrderRests'
    BY <1>1, <2>1, StepSlot, StepGuard, StepCancel, StepRow, StepLine, StepOrder
  <2>4. AtRests' /\ HandledRests' /\ QuietRests' /\ DoneRests'
    BY <1>1, <2>1, StepAt, StepHandled, StepQuiet, StepDone
  <2>5. KeepRests' /\ ClearedRests' /\ CopyRests' /\ PastRests'
    BY <1>1, <2>1, StepKeep, StepCleared, StepCopy, StepPast
  <2> QED
    BY <2>2, <2>3, <2>4, <2>5 DEF IndInv
<1>2. CASE UNCHANGED vars
  <2>1. UNCHANGED <<policy, now, mem, disk, fenced, run, armed, decided, held, failed, worker,
                    queue, hd, ex, line, edit, undone, owed, recorded, cleared, left>>
    BY <1>2 DEF vars, fileVars, lifeVars, recVars, execVars, editVars, ghosts
  <2>2. Shape' /\ Dated' /\ LifeRests' /\ NoneRests' /\ WorkerRests' /\ LockRests'
    BY <2>1 DEF IndInv, Shape, Dated, LifeRests, RestoredWaitsForOperator, Active, NoneRests,
                WorkerRests, LockRests
  <2>3. SlotRests' /\ GuardRests' /\ CancelRests' /\ RowRests' /\ LineRests' /\ OrderRests'
    BY <2>1 DEF IndInv, SlotRests, GuardRests, CancelRests, RowRests, LineRests, OrderRests, Active
  <2>4. AtRests' /\ HandledRests' /\ QuietRests' /\ DoneRests'
    BY <2>1 DEF IndInv, AtRests, HandledRests, QuietRests, DoneRests, Released, Carried, Active,
                Unfinished
  <2>5. KeepRests' /\ ClearedRests' /\ CopyRests' /\ PastRests'
    BY <2>1 DEF IndInv, KeepRests, ClearedRests, CopyRests, PastRests, Released
  <2> QED
    BY <2>2, <2>3, <2>4, <2>5 DEF IndInv
<1> QED
  BY <1>1, <1>2

----------------------------------------------------------------------------
(* The theorems. *)

\* The invariant holds in every state of the recurring scheduler.
THEOREM RecurringInvariant == Spec => []IndInv
<1>1. Init => IndInv
  BY InitInvariant
<1>2. IndInv /\ [Next]_vars => IndInv'
  BY StepInvariant
<1> QED
  BY <1>1, <1>2, PTL DEF Spec

\* A dated checkpoint fits into the time there is.
LEMMA DatedFits ==
  ASSUME Shape, NEW cp \in Checkpoints, DatedCheckpoint(cp, now)
  PROVE  cp.first \in -1..MaxTime /\ cp.count \in 0..(MaxTime + 1) /\ cp.last \in -1..MaxTime
<1>1. /\ now \in Int /\ now <= MaxTime /\ 0 <= now /\ MaxTime \in Int
      /\ cp.first \in Int /\ cp.count \in Int /\ cp.last \in Int
  BY RecurringAssumption DEF Shape, Checkpoints
<1>2. CASE cp = NoCheckpoint
  BY <1>1, <1>2, FreshFacts
<1>3. CASE /\ cp.first >= 0 /\ cp.count >= 1 /\ cp.count <= now + 1
           /\ cp.first <= cp.last /\ cp.last <= now
  BY <1>1, <1>3
<1> QED
  BY <1>2, <1>3 DEF DatedCheckpoint

\* A dated schedule fits into it as well.
LEMMA ScheduleFits ==
  ASSUME Shape, NEW s \in Schedules, DatedSchedule(s, now)
  PROVE  s \in [last : Never..MaxTime,
                pending : [first : Never..MaxTime, count : 0..(MaxTime + 1), last : Never..MaxTime],
                enabled : BOOLEAN]
<1>1. /\ s.last \in -1..MaxTime
  <2>1. /\ s.last \in Int /\ -1 <= s.last /\ s.last <= now /\ now <= MaxTime /\ now \in Int
        /\ MaxTime \in Int
    BY RecurringAssumption DEF Shape, Schedules, DatedSchedule, Never
  <2> QED
    BY <2>1
<1>2. s.pending \in Checkpoints /\ DatedCheckpoint(s.pending, now)
  BY DEF Schedules, DatedSchedule
<1>3. /\ s.pending.first \in -1..MaxTime /\ s.pending.count \in 0..(MaxTime + 1)
      /\ s.pending.last \in -1..MaxTime
  BY <1>2, DatedFits
<1>4. s.pending \in [first : Never..MaxTime, count : 0..(MaxTime + 1), last : Never..MaxTime]
  BY <1>2, <1>3 DEF Checkpoints, Never
<1> QED
  BY <1>1, <1>4 DEF Schedules, Never

\* The invariant keeps the types.
LEMMA InvariantTypes ==
  ASSUME IndInv
  PROVE  TypeOK
<1>1. Shape /\ Dated /\ NoneRests /\ WorkerRests
  BY DEF IndInv
<1>2. mem \in Schedules /\ disk \in Schedules /\ DatedSchedule(mem, now) /\ DatedSchedule(disk, now)
  BY <1>1 DEF Shape, Dated
<1>3. worker.left \in 0..(MaxTime + 1)
  <2>1. CASE worker.pc = "none"
    BY <1>1, <2>1, RecurringAssumption DEF NoneRests, NoWorker
  <2>2. CASE worker.pc # "none"
    <3>1. /\ worker.cp \in Checkpoints /\ worker.left \in Int /\ worker.cp.count \in Int
          /\ MaxTime \in Int
      BY <1>1, RecurringAssumption DEF Shape, Checkpoints
    <3>2. worker.cp.count \in 0..(MaxTime + 1)
      BY <1>1, <3>1, DatedFits DEF Dated
    <3>3. 0 <= worker.left /\ worker.left <= worker.cp.count
      BY <1>1, <2>2 DEF WorkerRests
    <3> QED
      BY <3>1, <3>2, <3>3
  <2> QED
    BY <2>1, <2>2
<1>4. /\ mem \in [last : Never..MaxTime,
                  pending : [first : Never..MaxTime, count : 0..(MaxTime + 1), last : Never..MaxTime],
                  enabled : BOOLEAN]
      /\ disk \in [last : Never..MaxTime,
                   pending : [first : Never..MaxTime, count : 0..(MaxTime + 1), last : Never..MaxTime],
                   enabled : BOOLEAN]
  BY <1>1, <1>2, ScheduleFits
<1>5. /\ now \in 0..MaxTime /\ run \in {"off", "starting", "on", "stopping"}
      /\ DOMAIN line \subseteq Slots /\ \A k \in Kinds : left[k] \in Nat
  BY <1>1 DEF Shape
<1>6. \A i \in Slots : ex[i].st \in {"none", "pending", "running", "done"}
  BY <1>1 DEF Shape, Executions
<1> QED
  BY <1>3, <1>4, <1>5, <1>6 DEF TypeOK

\* The invariant keeps backfilled executions in order.
LEMMA InvariantOrder ==
  ASSUME IndInv
  PROVE  BackfillInOrder
<1> SUFFICES ASSUME policy.missed = "backfill", NEW i \in Slots, NEW j \in Slots,
                    ex[i].rec, ex[i].task \in {"begin", "work", "end"},
                    i # j, ex[j].rec, Active(j)
             PROVE  ex[i].at < ex[j].at /\ ex[j].task \in {"serial", "permit"}
  BY DEF BackfillInOrder
<1>1. Shape /\ LineRests /\ OrderRests
  BY DEF IndInv
<1>2. i \in DOMAIN line /\ j \in DOMAIN line
  BY <1>1 DEF OrderRests, Active
<1>3. line[i] = {}
  BY <1>2, <1>1, LineMembers
<1>4. i \in line[j]
  BY <1>1, <1>2, <1>3 DEF LineRests
<1>5. ex[j].task = "serial"
  BY <1>1, <1>2, <1>4, LineMembers
<1>6. ex[i].at < ex[j].at
  BY <1>1, <1>2, <1>4 DEF OrderRests
<1> QED
  BY <1>5, <1>6

\* Recovered work is never forgotten, never started without its row or an operator, and
\* backfilled work runs in order, however many occurrences were missed, whatever the
\* interval, the permits and the policies, and wherever the process dies or a write fails.
THEOREM RecoveryAlwaysHolds == Spec => []RecoveryHolds
<1>1. IndInv => RecoveryHolds
  <2> SUFFICES ASSUME IndInv
               PROVE  RecoveryHolds
    OBVIOUS
  <2>1. OwedIsKept
    BY DEF IndInv, KeepRests, OwedIsKept
  <2>2. RecoveredHasRow
    BY DEF IndInv, RowRests, RecoveredHasRow
  <2>3. RestoredWaitsForOperator
    BY DEF IndInv, LifeRests
  <2> QED
    BY <2>1, <2>2, <2>3, InvariantTypes, InvariantOrder DEF RecoveryHolds
<1> QED
  BY <1>1, RecurringInvariant, PTL

\* The cursor in the file goes back, and the checkpoint of a finished recovery returns to it,
\* only with an operator's edit: no start, trigger, recovery, restart or failed write does it.
THEOREM FileOnlyAdvances == Spec => FileAdvances
<1>1. IndInv /\ IndInv' /\ [Next]_vars => [CursorMonotone /\ ClearedStaysCleared]_vars
  <2> SUFFICES ASSUME IndInv, IndInv', Next
               PROVE  CursorMonotone /\ ClearedStaysCleared
    OBVIOUS
  <2>1. Shape /\ SlotRests /\ WorkerRests /\ CopyRests /\ ClearedRests /\ ClearedRests'
    BY DEF IndInv
  <2> QED
    BY <2>1, StepAdvances, StepClears
<1> QED
  BY <1>1, RecurringInvariant, PTL DEF Spec, FileAdvances

=============================================================================
