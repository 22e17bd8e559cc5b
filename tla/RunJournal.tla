------------------------------ MODULE RunJournal ------------------------------
(***************************************************************************)
(* The durable life of a fuzz run: its row in the `runs` table, its events *)
(* in the run journal (crates/hf-service/src/recovery.rs), the drop guard  *)
(* that repairs an abandoned run (container/guards.rs), the three code     *)
(* paths that own a run (campaign and kernel runs in container/run.rs,     *)
(* smoke runs in container/harness.rs) and the reconciliation at startup.  *)
(*                                                                         *)
(* The row and the journal are two stores written one after the other, so  *)
(* a crash, an aborted future, a failed write or a second process can fall *)
(* between any two writes.  Everything between two awaits of the code is   *)
(* one action here: a returning function drops its guard in the same step. *)
(***************************************************************************)
EXTENDS Naturals, Sequences, FiniteSets

CONSTANTS
  Runs,       \* run ids; every id is used for one run (Uuid::new_v4)
  Kind,       \* the code path of each run: "campaign", "smoke" or "kernel"
  Rank,       \* the order of the ids in the journal's BTreeMap
  OpenBytes,  \* size of an open event
  LineBytes,  \* size of every other line
  MaxBytes,   \* MAX_WAL_BYTES
  MaxEvents,  \* MAX_WAL_EVENTS
  Budget      \* how many times each fault, and each unforced step, may happen

Faults == {"crash", "abort", "store", "append", "note", "delete", "peer"}

JournalAssumption ==
  /\ Kind \in [Runs -> {"campaign", "smoke", "kernel"}]
  /\ Rank \in [Runs -> Nat]
  /\ \A r, s \in Runs : Rank[r] = Rank[s] => r = s
  /\ OpenBytes \in Nat /\ LineBytes \in Nat /\ MaxBytes \in Nat /\ MaxEvents \in Nat
  /\ Budget \in [Faults -> Nat]

VARIABLES
  row,          \* durable: the status column of each run, "none" without a row
  wal,          \* durable: the lines of run_journal.jsonl
  up,           \* the service process is running
  degraded,     \* RunJournal::durability_error is set
  interrupted,  \* RunJournal::interrupted
  boot,         \* interrupted runs the startup reconciliation has still to visit
  abandoned,    \* the reconciliation ended with an error (logged, not retried)
  pc,           \* where the future that owns the run is
  guard,        \* PersistedRunGuard exists and is armed
  repair,       \* a dropped guard's spawned status repair has not run yet
  started,      \* on_started was called
  told,         \* the terminal lifecycle event of the run
  peer,         \* what a second process has read as open, and has still to reconcile
  overwrites,   \* that process has not yet replaced the journal it has read
  lost,         \* history: runs whose lines a second process's rename replaced
  excused,      \* history: runs whose recovery evidence was lost
  left          \* remaining fault budget

vars == << row, wal, up, degraded, interrupted, boot, abandoned, pc, guard,
           repair, started, told, peer, overwrites, lost, excused, left >>

Active == {"pending", "running"}
Terminal == {"done", "failed", "cancelled"}
Statuses == Active \cup Terminal \cup {"none"}
PCs == {"idle", "admitted", "inserted", "refusing", "prepared", "executing",
        "failing", "closing", "downgrading", "notifyOk", "notifyErr", "ended"}

Ev(k, r) == [event |-> k, run |-> r]
\* A line cut short by a crash or a failed write; replay cannot decode it.
IsTorn(e) == e.event = "torn"
Torn(r) == Ev("torn", r)
Events == [event : {"open", "close", "dismiss", "note", "torn"}, run : Runs]

Size(e) == IF e.event = "open" THEN OpenBytes ELSE LineBytes

Opens(w) == Cardinality({i \in DOMAIN w : w[i].event = "open"})
Bytes(w) == Opens(w) * OpenBytes + (Len(w) - Opens(w)) * LineBytes

\* Replay: the runs with an open event and no later close or dismiss.
OpenRuns(w) ==
  {r \in Runs : \E i \in DOMAIN w :
     /\ w[i] = Ev("open", r)
     /\ \A j \in i+1..Len(w) : w[j] \notin {Ev("close", r), Ev("dismiss", r)}}

\* A log the replay reads without an issue.
Replayable(w) == Len(w) <= MaxEvents /\ \A i \in DOMAIN w : ~IsTorn(w[i])

\* Mutant: compaction keeps nothing.
CompactToNothing(w) == << >>

\* compact_wal: the open events of the runs it is given, by id.
Listed(S) ==
  LET keep == {Ev("open", r) : r \in S}
  IN  CHOOSE s \in [1..Cardinality(keep) -> keep] :
        \A i, j \in DOMAIN s : i < j => Rank[s[i].run] < Rank[s[j].run]

\* A log replaced by what its own replay shows open.
Compact(w) == Listed(OpenRuns(w))

Fits(w, e) == Bytes(w) + Size(e) + 1 <= MaxBytes

\* ensure_append_capacity: the log an append finds once room has been made.
WithRoom(w, e) == IF Fits(w, e) \/ ~Replayable(w) THEN w ELSE Compact(w)
HasRoom(w, e) == Fits(w, e) \/ (Replayable(w) /\ Fits(Compact(w), e))

AppendFaults == {"none", "lost", "torn", "unsynced"}

\* Mutant: a failed append is not remembered.
ForgetfulAppend(j, e, f) ==
  LET w == WithRoom(j.wal, e)
  IN  [wal |-> IF f = "torn" THEN Append(w, Torn(e.run))
               ELSE IF f = "lost" \/ ~HasRoom(j.wal, e) THEN w ELSE Append(w, e),
       bad |-> j.bad]

\* append_locked: the log and the sticky error after appending e.  A write can
\* be lost, cut short, or complete but not confirmed by fsync.
AppendLocked(j, e, f) ==
  LET w == WithRoom(j.wal, e)
  IN  IF ~HasRoom(j.wal, e) THEN [wal |-> w, bad |-> TRUE]
      ELSE [wal |-> CASE f = "lost" -> w
                      [] f = "torn" -> Append(w, Torn(e.run))
                      [] OTHER -> Append(w, e),
            bad |-> j.bad \/ f # "none"]

Journal == [wal |-> wal, bad |-> degraded]

SetJournal(j) == wal' = j.wal /\ degraded' = j.bad

\* The budget after spending the named faults.
Spend(S) == /\ \A f \in S : left[f] > 0
            /\ left' = [f \in Faults |-> IF f \in S THEN left[f] - 1 ELSE left[f]]

\* The faults a step spends: an append that went wrong, a store write that failed.
Spent(appendFault, storeOk) ==
  (IF appendFault = "none" THEN {} ELSE {"append"})
    \cup (IF storeOk THEN {} ELSE {"store"})

\* Set the run's status if the write succeeds.
SetRunStatus(r, s, ok) == row' = IF ok THEN [row EXCEPT ![r] = s] ELSE row

Goto(r, l) == pc' = [pc EXCEPT ![r] = l]

\* Where an owning future goes when it returns an error.
ErrReturn(r) == IF Kind[r] = "campaign" /\ r \in started THEN "notifyErr" ELSE "ended"

Init ==
  /\ row = [r \in Runs |-> "none"]
  /\ wal = << >>
  /\ up = TRUE
  /\ degraded = FALSE
  /\ interrupted = {}
  /\ boot = {}
  /\ abandoned = FALSE
  /\ pc = [r \in Runs |-> "idle"]
  /\ guard = {}
  /\ repair = {}
  /\ started = {}
  /\ told = [r \in Runs |-> "none"]
  /\ peer = {}
  /\ overwrites = FALSE
  /\ lost = {}
  /\ excused = {}
  /\ left = Budget

-------------------------------------------------------------------------------
(* The owning future                                                         *)

\* What a second process leaves behind, and the rest of a process's state.
second == << peer, overwrites, lost >>
proc == << up, interrupted, boot, abandoned, second >>

\* A campaign checks the journal before it stages anything; smoke and kernel
\* runs check it only after their open event.
Admit(r) ==
  /\ up /\ boot = {} /\ pc[r] = "idle"
  /\ Kind[r] = "campaign" => ~degraded
  /\ Goto(r, "admitted")
  /\ UNCHANGED << row, wal, degraded, guard, repair, started, told, excused, left, proc >>

\* Mutant: the row is inserted with a status the code cannot decode.
InsertUndecodable(r, ok) ==
  /\ pc[r] = "admitted"
  /\ SetRunStatus(r, "starting", ok)
  /\ Goto(r, IF ok THEN "inserted" ELSE "ended")
  /\ Spend(Spent("none", ok))
  /\ UNCHANGED << wal, degraded, guard, repair, started, told, excused, proc >>

\* insert_run: the row exists before the journal knows the run.
InsertRun(r, ok) ==
  /\ pc[r] = "admitted"
  /\ SetRunStatus(r, IF Kind[r] = "kernel" THEN "pending" ELSE "running", ok)
  /\ Goto(r, IF ok THEN "inserted" ELSE "ended")
  /\ Spend(Spent("none", ok))
  /\ UNCHANGED << wal, degraded, guard, repair, started, told, excused, proc >>

\* open_run and the durability check that follows it.  A kernel run has its
\* guard by then, so it leaves through the guard's drop.
OpenRun(r, f) ==
  LET j == AppendLocked(Journal, Ev("open", r), f)
      kernelExit == j.bad /\ Kind[r] = "kernel"
  IN  /\ pc[r] = "inserted"
      /\ Spend(Spent(f, TRUE))
      /\ SetJournal(IF kernelExit THEN AppendLocked(j, Ev("close", r), "none") ELSE j)
      /\ repair' = IF kernelExit THEN repair \cup {r} ELSE repair
      /\ guard' = IF j.bad THEN guard ELSE guard \cup {r}
      /\ Goto(r, IF ~j.bad THEN "prepared"
                 ELSE IF kernelExit THEN "ended" ELSE "refusing")
      /\ UNCHANGED << row, started, told, excused, proc >>

\* Mutant: the row is failed but the run goes on.
RefuseButContinue(r, ok) ==
  /\ pc[r] = "refusing"
  /\ SetRunStatus(r, "failed", ok)
  /\ Goto(r, "prepared")
  /\ Spend(Spent("none", ok))
  /\ UNCHANGED << wal, degraded, guard, repair, started, told, excused, proc >>

\* The journal could not be confirmed: the row is failed and the run refused.
RefuseRun(r, ok) ==
  /\ pc[r] = "refusing"
  /\ SetRunStatus(r, "failed", ok)
  /\ Goto(r, "ended")
  /\ excused' = IF ok THEN excused ELSE excused \cup {r}
  /\ Spend(Spent("none", ok))
  /\ UNCHANGED << wal, degraded, guard, repair, started, told, proc >>

\* Mutant: the dropped guard closes the journal but spawns no repair.
DropWithoutRepair(r, j, f) ==
  /\ SetJournal(IF r \in guard THEN AppendLocked(j, Ev("close", r), f) ELSE j)
  /\ guard' = guard \ {r}
  /\ repair' = repair

\* PersistedRunGuard::drop: close the journal now, repair the row in a task.
\* j is the journal as the returning function left it.
DropGuard(r, j, f) ==
  /\ SetJournal(IF r \in guard THEN AppendLocked(j, Ev("close", r), f) ELSE j)
  /\ guard' = guard \ {r}
  /\ repair' = IF r \in guard THEN repair \cup {r} ELSE repair

\* disarm, then return.
Disarm(r, j) ==
  /\ SetJournal(j)
  /\ guard' = guard \ {r}
  /\ UNCHANGED repair

\* set_run_harness_source (campaign, smoke) or the Running update (kernel); the
\* kernel path returns at once when it fails.
Prepare(r, ok, f) ==
  /\ pc[r] = "prepared"
  /\ Spend(Spent(f, ok))
  /\ row' = IF ok /\ Kind[r] = "kernel" THEN [row EXCEPT ![r] = "running"] ELSE row
  /\ IF ~ok /\ Kind[r] = "kernel"
     THEN DropGuard(r, Journal, f) /\ Goto(r, "ended")
     ELSE /\ Goto(r, IF ok THEN "executing" ELSE "failing")
          /\ f = "none" /\ UNCHANGED << wal, degraded, guard, repair >>
  /\ started' = IF ok THEN started \cup {r} ELSE started
  /\ UNCHANGED << told, excused, proc >>

\* RunJournal::note: a line that replay ignores.
Note(r) ==
  /\ pc[r] = "executing"
  /\ SetJournal(AppendLocked(Journal, Ev("note", r), "none"))
  /\ Spend({"note"})
  /\ UNCHANGED << row, pc, guard, repair, started, told, excused, proc >>

\* The engine, the corpus merge or the metrics failed.
ExecutionFails(r) ==
  /\ pc[r] = "executing"
  /\ Goto(r, "failing")
  /\ UNCHANGED << row, wal, degraded, guard, repair, started, told, excused, left, proc >>

\* An error leaves the function through `?` without a status write.
EarlyReturn(r, f) ==
  /\ pc[r] = "executing"
  /\ Spend(Spent(f, TRUE))
  /\ DropGuard(r, Journal, f)
  /\ Goto(r, ErrReturn(r))
  /\ UNCHANGED << row, started, told, excused, proc >>

\* The terminal status of a run whose evidence is complete.
Settle(r, s, ok, f) ==
  /\ pc[r] = "executing"
  /\ Spend(Spent(f, ok))
  /\ Kind[r] = "smoke" => s = "done"
  /\ SetRunStatus(r, s, ok)
  /\ IF ok
     THEN Goto(r, "closing") /\ f = "none" /\ UNCHANGED << wal, degraded, guard, repair >>
     ELSE DropGuard(r, Journal, f) /\ Goto(r, ErrReturn(r))
  /\ UNCHANGED << started, told, excused, proc >>

\* The journal close after the terminal status.  A smoke run first stores its
\* harness (which may fail) and does not look at the outcome of the close; a
\* campaign downgrades its row; a kernel run leaves through its guard.
CloseRun(r, ok, f) ==
  LET j == AppendLocked(Journal, Ev("close", r), f)
  IN  /\ pc[r] = "closing"
      /\ Spend(Spent(f, ok))
      /\ ~ok => Kind[r] = "smoke"
      /\ CASE ~ok -> DropGuard(r, Journal, f) /\ Goto(r, "ended")
           [] ok /\ (Kind[r] = "smoke" \/ ~j.bad) ->
                /\ Disarm(r, j)
                /\ Goto(r, IF Kind[r] = "campaign" THEN "notifyOk" ELSE "ended")
           [] ok /\ j.bad /\ Kind[r] = "campaign" ->
                /\ SetJournal(j) /\ Goto(r, "downgrading")
                /\ UNCHANGED << guard, repair >>
           [] ok /\ j.bad /\ Kind[r] = "kernel" ->
                DropGuard(r, j, "none") /\ Goto(r, "ended")
      /\ UNCHANGED << row, started, told, excused, proc >>

\* teardown_failed_run with close_journal = false, then disarm.
Downgrade(r, ok) ==
  /\ pc[r] = "downgrading"
  /\ SetRunStatus(r, "failed", ok)
  /\ Disarm(r, Journal)
  /\ Goto(r, "notifyErr")
  /\ Spend(Spent("none", ok))
  /\ UNCHANGED << started, told, excused, proc >>

\* teardown_failed_run (campaign), the failure exits of a smoke run and of a
\* kernel run: fail the row, close the journal as each path does, return.
FailRun(r, ok, f) ==
  LET closes == ok /\ Kind[r] # "smoke"
      j == IF closes THEN AppendLocked(Journal, Ev("close", r), f) ELSE Journal
  IN  /\ pc[r] = "failing"
      /\ Spend(Spent(f, ok))
      /\ SetRunStatus(r, "failed", ok)
      /\ IF closes /\ Kind[r] = "kernel" /\ ~j.bad
         THEN Disarm(r, j)
         ELSE DropGuard(r, j, IF closes THEN "none" ELSE f)
      /\ Goto(r, ErrReturn(r))
      /\ UNCHANGED << started, told, excused, proc >>

\* run_fuzzer_with_started: the event the schedules see.
Notify(r) ==
  /\ pc[r] \in {"notifyOk", "notifyErr"}
  /\ told' = [told EXCEPT ![r] = IF pc[r] = "notifyOk" THEN "completed" ELSE "failed"]
  /\ Goto(r, "ended")
  /\ UNCHANGED << row, wal, degraded, guard, repair, started, excused, left, proc >>

\* Mutant: the guard is dropped but the future it belonged to goes on.
AbortDetached(r, f) ==
  /\ pc[r] \notin {"idle", "ended"}
  /\ DropGuard(r, Journal, f)
  /\ Spend({"abort"} \cup Spent(f, TRUE))
  /\ UNCHANGED << row, pc, started, told, excused, proc >>

\* The caller drops the future at one of its awaits.
Abort(r, f) ==
  /\ pc[r] \notin {"idle", "ended"}
  /\ Spend({"abort"} \cup Spent(f, TRUE))
  /\ DropGuard(r, Journal, f)
  /\ Goto(r, "ended")
  /\ excused' = IF pc[r] \in {"inserted", "refusing"} THEN excused \cup {r} ELSE excused
  /\ UNCHANGED << row, started, told, proc >>

\* The spawned repair of a dropped guard.  A missing row is an error too.
Repair(r, ok) ==
  /\ r \in repair
  /\ repair' = repair \ {r}
  /\ SetRunStatus(r, "failed", ok /\ row[r] # "none")
  /\ excused' = IF ok THEN excused ELSE excused \cup {r}
  /\ Spend(Spent("none", ok))
  /\ UNCHANGED << wal, degraded, pc, guard, started, told, proc >>

-------------------------------------------------------------------------------
(* Process loss, startup, and the operator                                   *)

\* The process ends; an append in flight may leave a torn line.
Crash ==
  /\ up
  /\ \E w \in {wal} \cup {Append(wal, Torn(r)) : r \in {x \in Runs : pc[x] \in {"inserted", "closing", "failing"}}} :
       wal' = w
  /\ up' = FALSE
  /\ degraded' = FALSE
  /\ interrupted' = {} /\ boot' = {} /\ abandoned' = FALSE
  /\ pc' = [r \in Runs |-> IF pc[r] = "idle" THEN "idle" ELSE "ended"]
  /\ guard' = {} /\ repair' = {}
  /\ excused' = excused \cup repair \cup {r \in Runs : pc[r] \in {"inserted", "refusing"}}
  /\ Spend({"crash"})
  /\ UNCHANGED << row, started, told, second >>

\* RunJournal::open in bootstrap.  compacted is FALSE when the rewrite fails.
Restart(compacted) ==
  /\ ~up
  /\ up' = TRUE
  /\ interrupted' = OpenRuns(wal)
  /\ boot' = OpenRuns(wal)
  /\ abandoned' = FALSE
  /\ degraded' = (~Replayable(wal) \/ ~compacted)
  /\ wal' = IF Replayable(wal) /\ compacted THEN Compact(wal) ELSE wal
  /\ Spend(IF compacted THEN {} ELSE {"append"})
  /\ UNCHANGED << row, pc, guard, repair, started, told, second, excused >>

First(S) == CHOOSE r \in S : \A s \in S : Rank[r] <= Rank[s]

\* Mutant: reconciliation only looks at rows that still claim to run.
ReconcileActiveOnly(ok) ==
  LET r == First(boot)
  IN  /\ up /\ boot # {}
      /\ IF row[r] = "none" \/ ~ok
         THEN boot' = {} /\ abandoned' = TRUE /\ row' = row
         ELSE /\ boot' = boot \ {r} /\ abandoned' = abandoned
              /\ row' = IF row[r] \in Active THEN [row EXCEPT ![r] = "failed"] ELSE row
      /\ Spend(Spent("none", ok))
      /\ UNCHANGED << wal, up, degraded, interrupted, pc, guard, repair, started,
                      told, second, excused >>

\* One iteration of reconcile_interrupted_run_statuses.  An error, a missing
\* row among them, ends the loop and is only logged.
Reconcile(ok) ==
  LET r == First(boot)
  IN  /\ up /\ boot # {}
      /\ IF row[r] = "none" \/ ~ok
         THEN boot' = {} /\ abandoned' = TRUE /\ row' = row
         ELSE boot' = boot \ {r} /\ abandoned' = abandoned /\ row' = [row EXCEPT ![r] = "failed"]
      /\ Spend(Spent("none", ok))
      /\ UNCHANGED << wal, up, degraded, interrupted, pc, guard, repair, started,
                      told, second, excused >>

\* Another process of the same user (every CLI command bootstraps) opens the
\* same journal, whatever this one is doing: wal_lock is local to a process.
\* First it reads the log; one started later takes the place of one that died.
PeerStart ==
  /\ peer' = OpenRuns(wal)
  /\ overwrites' = Replayable(wal)
  /\ Spend({"peer"})
  /\ UNCHANGED << row, wal, up, degraded, interrupted, boot, abandoned, pc, guard,
                  repair, started, told, lost, excused >>

\* Then it renames a file with what it has read over the log.  A line that was
\* appended meanwhile is gone: an open run is missing, or a closed one is back.
PeerCompact(ok) ==
  /\ overwrites
  /\ overwrites' = FALSE
  /\ wal' = IF ok THEN Listed(peer) ELSE wal
  /\ lost' = IF ok THEN lost \cup {r \in Runs : (r \in OpenRuns(wal)) # (r \in peer)}
             ELSE lost
  /\ Spend(Spent(IF ok THEN "none" ELSE "lost", TRUE))
  /\ UNCHANGED << row, up, degraded, interrupted, boot, abandoned, pc, guard,
                  repair, started, told, peer, excused >>

\* Only then does it go through the runs it has read as open.
PeerReconcile ==
  /\ peer # {} /\ ~overwrites
  /\ LET r == First(peer)
     IN  IF row[r] = "none"
         THEN peer' = {} /\ row' = row
         ELSE peer' = peer \ {r} /\ row' = [row EXCEPT ![r] = "failed"]
  /\ UNCHANGED << wal, up, degraded, interrupted, boot, abandoned, pc, guard,
                  repair, started, told, overwrites, lost, excused, left >>

\* dismiss_interrupted_run, offered for the interrupted runs.  It does not look
\* at the row, which an abandoned reconciliation may have left active.
Dismiss(r, f) ==
  LET j == AppendLocked(Journal, Ev("dismiss", r), f)
  IN  /\ up /\ boot = {} /\ r \in interrupted /\ ~degraded
      /\ Spend(Spent(f, TRUE))
      /\ SetJournal(j)
      /\ interrupted' = IF f = "none" /\ ~j.bad THEN interrupted \ {r} ELSE interrupted
      /\ excused' = IF row[r] \in Active THEN excused \cup {r} ELSE excused
      /\ UNCHANGED << row, up, boot, abandoned, pc, guard, repair, started, told, second >>

Idle(r) == pc[r] \in {"idle", "ended"}

\* delete_run: a terminal, inactive run loses its row; the journal is untouched.
DeleteRun(r) ==
  /\ up /\ boot = {} /\ row[r] \in Terminal /\ Idle(r)
  /\ row' = [row EXCEPT ![r] = "none"]
  /\ Spend({"delete"})
  /\ UNCHANGED << wal, up, degraded, interrupted, boot, abandoned, pc, guard,
                  repair, started, told, second, excused >>

\* clear_all_runs: refused while any row is active.
ClearAllRuns ==
  /\ up /\ boot = {}
  /\ \E r \in Runs : row[r] # "none"
  /\ \A r \in Runs : row[r] \in Terminal \cup {"none"} /\ (row[r] # "none" => Idle(r))
  /\ row' = [r \in Runs |-> "none"]
  /\ Spend({"delete"})
  /\ UNCHANGED << wal, up, degraded, interrupted, boot, abandoned, pc, guard,
                  repair, started, told, second, excused >>

-------------------------------------------------------------------------------
Step(r) ==
  \/ Admit(r) \/ ExecutionFails(r) \/ Notify(r)
  \/ \E ok \in BOOLEAN : InsertRun(r, ok) \/ RefuseRun(r, ok) \/ Downgrade(r, ok)
  \/ \E f \in AppendFaults : OpenRun(r, f) \/ EarlyReturn(r, f)
  \/ \E ok \in BOOLEAN, f \in AppendFaults :
       Prepare(r, ok, f) \/ CloseRun(r, ok, f) \/ FailRun(r, ok, f)
  \/ \E s \in Terminal, ok \in BOOLEAN, f \in AppendFaults : Settle(r, s, ok, f)

Next ==
  \/ \E r \in Runs :
       \/ Step(r) \/ Note(r)
       \/ \E f \in AppendFaults : Abort(r, f) \/ Dismiss(r, f)
       \/ \E ok \in BOOLEAN : Repair(r, ok)
       \/ DeleteRun(r)
  \/ Crash \/ ClearAllRuns \/ PeerStart \/ PeerReconcile
  \/ \E ok \in BOOLEAN : Restart(ok) \/ Reconcile(ok) \/ PeerCompact(ok)

Spec == Init /\ [][Next]_vars

-------------------------------------------------------------------------------
(* Properties                                                                *)

\* The variables keep their types.
TypeOK ==
  /\ row \in [Runs -> Statuses]
  /\ wal \in Seq(Events)
  /\ up \in BOOLEAN /\ degraded \in BOOLEAN /\ abandoned \in BOOLEAN
  /\ interrupted \subseteq Runs /\ boot \subseteq Runs
  /\ pc \in [Runs -> PCs]
  /\ guard \subseteq Runs /\ repair \subseteq Runs /\ started \subseteq Runs
  /\ told \in [Runs -> {"none", "completed", "failed"}]
  /\ peer \subseteq Runs /\ overwrites \in BOOLEAN
  /\ lost \subseteq Runs /\ excused \subseteq Runs
  /\ left \in [Faults -> Nat]

\* No sandbox is launched for a run the journal could not find again: while a
\* run executes, the journal on disk shows it open (run.rs:1241), compaction and
\* the other runs' failed appends included, unless a second process's rename
\* replaced its line.
LaunchedIsJournaled ==
  \A r \in Runs : pc[r] = "executing" => r \in OpenRuns(wal) \cup lost

\* A run that counts as done or cancelled although the journal still shows it
\* open blocks further campaigns (the journal is degraded), is about to be
\* repaired, or belongs to a reconciliation that reported an error
\* (service-orchestration-design.md:281-284), unless a second process's rename
\* brought it back.
UnconfirmedIsBlocked ==
  \A r \in Runs :
    (/\ up /\ boot = {} /\ pc[r] = "ended"
     /\ row[r] \in {"done", "cancelled"} /\ r \in OpenRuns(wal))
    => degraded \/ r \in repair \/ abandoned \/ r \in lost

\* A run that no future owns and that still claims to run is found by the next
\* startup, is about to be repaired, or lost its evidence in one of the known
\* ways: between the row and the open event, with its pending repair, by a
\* dismissal after a reconciliation that was abandoned, or to the rename of a
\* second process.
StuckRowsAreExplained ==
  \A r \in Runs :
    row[r] \in Active /\ pc[r] = "ended"
    => r \in OpenRuns(wal) \cup repair \cup excused \cup lost

\* Failed is final: neither a late future, nor a spawned repair, nor a second
\* reconciliation turns a failed run into anything else (recovery.rs:248-250).
FailedStays ==
  \A r \in Runs : row[r] = "failed" => row'[r] \in {"failed", "none"}

\* Unless the reconciliation reported an error, every interrupted run that still
\* has a row is failed, a terminal row whose close was never confirmed included.
ReconciledAtStartup ==
  up /\ boot = {} /\ ~abandoned => \A r \in interrupted : row[r] \in {"failed", "none"}

\* A run that executes is never recorded as failed (recovery.rs:3-5: an open
\* event identifies an interrupted run).
LiveRunsAreNotFailed ==
  \A r \in Runs : pc[r] = "executing" => row[r] # "failed"

\* What the row, the journal and the future of a run promise together.  A second
\* process fails runs that execute here and drops lines they rely on, so that
\* without one the promises hold to the letter.
RunsHold ==
  /\ TypeOK /\ LaunchedIsJournaled /\ UnconfirmedIsBlocked /\ StuckRowsAreExplained
  /\ ReconciledAtStartup
  /\ Budget["peer"] = 0 => LiveRunsAreNotFailed /\ lost = {}

-------------------------------------------------------------------------------
(* The inductive invariant.                                                  *)

Guarded == {"prepared", "executing", "failing", "closing", "downgrading"}
Returned == {"notifyOk", "notifyErr", "ended"}

\* The journal: a run is in it from its open event on, and until its future has
\* stopped launching and failing.
WalRests ==
  \A r \in Runs :
    /\ pc[r] \in {"idle", "admitted", "inserted"} => r \notin OpenRuns(wal)
    /\ pc[r] \in {"prepared", "executing", "failing"} => r \in OpenRuns(wal) \cup lost

\* The row: where it stands at each step of the future, and why a run that
\* nobody runs any more has the row it has.
RowRests ==
  \A r \in Runs :
    /\ pc[r] \in {"idle", "admitted"} => row[r] = "none"
    /\ pc[r] \in {"inserted", "refusing"} => row[r] \in Active \cup {"failed"}
    /\ pc[r] \in {"closing", "downgrading", "notifyOk"} => row[r] \notin Active
    /\ pc[r] \in {"notifyErr", "ended"} /\ row[r] \in Active =>
         r \in OpenRuns(wal) \cup repair \cup excused \cup lost
    /\ pc[r] \in Returned /\ row[r] \in {"done", "cancelled"} /\ r \in OpenRuns(wal) /\ up =>
         degraded \/ abandoned \/ r \in boot \cup lost

\* The guard lives from the open event to the return; what it left to repair has
\* been closed in the journal or the journal is degraded.
GuardRests ==
  \A r \in Runs :
    /\ r \in guard <=> pc[r] \in Guarded
    /\ r \in repair => pc[r] \in {"notifyErr", "ended"} /\ (r \notin OpenRuns(wal) \/ degraded \/ r \in lost)
    /\ pc[r] = "downgrading" => degraded

\* Nothing runs in a process that is down, and no future in one that starts.
StartRests ==
  /\ ~up \/ boot # {} => \A r \in Runs : Idle(r)
  /\ ~up => repair = {} /\ interrupted = {} /\ boot = {}
  /\ \A r \in interrupted : pc[r] = "ended"
  /\ up /\ ~abandoned => \A r \in interrupted \ boot : row[r] \in {"failed", "none"}

\* What a second process has read as open had its open event by then, and a log
\* of finitely many lines shows finitely many runs.
PeerRests ==
  /\ IsFiniteSet(peer)
  /\ \A r \in peer : pc[r] \notin {"idle", "admitted", "inserted"}

\* Without a second process nothing fails a run that executes, and no line goes.
AloneRests ==
  Budget["peer"] = 0 =>
    /\ left["peer"] = 0 /\ peer = {} /\ ~overwrites /\ lost = {}
    /\ \A r \in Runs : pc[r] \in {"inserted", "prepared", "executing"} => row[r] # "failed"

IndInv ==
  /\ TypeOK /\ WalRests /\ RowRests /\ GuardRests /\ StartRests
  /\ PeerRests /\ AloneRests
===============================================================================
