-------------------------- MODULE HourlyAdmission --------------------------
(***************************************************************************)
(* max_executions_per_hour: the rolling admission limit of one recurring   *)
(* schedule (hf-scheduler manager.rs admit_hourly_execution, executor.rs,  *)
(* and the execution rows of hf-storage store.rs).                         *)
(*                                                                         *)
(* An admission adds what is queued in memory to the larger of two counts  *)
(* of starts: the ones this process remembers and the ones SQLite holds.   *)
(* The start of an execution reaches memory first and its row later, or    *)
(* never; a restart keeps the rows and forgets the memory.                 *)
(***************************************************************************)
EXTENDS Integers, FiniteSets

CONSTANTS
    MaxPerHour,  \* max_executions_per_hour
    Hour,        \* the length of the window
    MaxTime,     \* where the clock stops
    Execs,       \* executions that may be admitted
    MaxFaults,   \* store calls that fail
    MaxDeaths    \* restarts

HourlyAssumption ==
    /\ MaxPerHour \in Nat \ {0}
    /\ Hour \in Nat /\ MaxTime \in Nat
    /\ MaxFaults \in Nat /\ MaxDeaths \in Nat
    /\ IsFiniteSet(Execs)

VARIABLES
    now,
    ex,       \* executions as memory has them
    row,      \* their rows in SQLite
    adm,      \* the admission in progress; the schedule admits one at a time
    gone,     \* executions of processes that have died
    loose,    \* a start was missing in SQLite when the next process or admission looked
    faults,
    deaths

vars == <<now, ex, row, adm, gone, loose, faults, deaths>>

Never == -1

Fresh == [st |-> "none", at |-> Never]

NoRow == [st |-> "none", at |-> Never]

Idle == [pc |-> "idle", live |-> 0, pending |-> 0, e |-> 0]

Recent(t) == t # Never /\ t >= now - Hour

Init ==
    /\ now = 0
    /\ ex = [e \in Execs |-> Fresh]
    /\ row = [e \in Execs |-> NoRow]
    /\ adm = Idle
    /\ gone = {}
    /\ loose = FALSE
    /\ faults = 0
    /\ deaths = 0

----------------------------------------------------------------------------
(* Counting. *)

\* Mutant: starts are counted in the retained history, which finished
\* executions may have left.
LiveUnfinished == Cardinality({e \in Execs \ gone : ex[e].st = "working" /\ Recent(ex[e].at)})

\* started_since: remembered apart from the history, so retention does not
\* forget a start; a skip reported later does not take it back.
LiveStarted == Cardinality({e \in Execs \ gone : Recent(ex[e].at)})

PendingCount == Cardinality({e \in Execs \ gone : ex[e].st = "pending"})

PersistedStarted ==
    Cardinality({e \in Execs : row[e].st \notin {"none", "pending", "skipped"} /\ Recent(row[e].at)})

Larger(a, b) == IF a < b THEN b ELSE a

Admitted(live, persisted, pending) == Larger(live, persisted) + pending

----------------------------------------------------------------------------
(* Admission. *)

\* A trigger takes the admission lock and reads both counts of memory at once;
\* that an execution is left to admit is the model's bound.
ReadMemory ==
    /\ adm = Idle
    /\ \E e \in Execs : ex[e] = Fresh /\ e \notin gone
    /\ adm' = [pc |-> "rows", live |-> LiveStarted, pending |-> PendingCount, e |-> 0]
    /\ UNCHANGED <<now, ex, row, gone, loose, faults, deaths>>

\* Some start of this process is not in SQLite.
Missing == \E e \in Execs \ gone : ex[e].at # Never /\ row[e].at = Never /\ ex[e].st \notin {"declined", "skipped"}

\* The count of rows decides; without it the trigger is skipped.
ReadRows ==
    /\ adm.pc = "rows"
    /\ IF Admitted(adm.live, PersistedStarted, adm.pending) >= MaxPerHour
       THEN adm' = Idle
       ELSE adm' = [adm EXCEPT !.pc = "record"]
    /\ loose' = (loose \/ Missing)
    /\ UNCHANGED <<now, ex, row, gone, faults, deaths>>

\* Mutant: history that cannot be read counts as no history.
RowsAssumedEmpty ==
    /\ adm.pc = "rows"
    /\ faults < MaxFaults
    /\ faults' = faults + 1
    /\ adm' = [adm EXCEPT !.pc = "record"]
    /\ UNCHANGED <<now, ex, row, gone, loose, deaths>>

RowsUnreadable ==
    /\ adm.pc = "rows"
    /\ faults < MaxFaults
    /\ faults' = faults + 1
    /\ adm' = Idle
    /\ UNCHANGED <<now, ex, row, gone, loose, deaths>>

Record ==
    /\ adm.pc = "record"
    /\ \E e \in Execs :
          /\ ex[e] = Fresh /\ e \notin gone
          /\ \A f \in Execs : ex[f] = Fresh /\ f \notin gone => e <= f
          /\ ex' = [ex EXCEPT ![e].st = "pending"]
          /\ adm' = [adm EXCEPT !.pc = "row", !.e = e]
    /\ UNCHANGED <<now, row, gone, loose, faults, deaths>>

----------------------------------------------------------------------------
(* Rows. *)

Terminal == {"done", "skipped"}

\* Rows retention may remove: finished, and not started within the hour.
Prunable(r) == {e \in Execs : r[e].st \in Terminal /\ ~Recent(r[e].at)}

\* upsert: one execution's row is written and then, depending on the history
\* limit, older rows are removed; a failure is only logged.
Write(e, r) ==
    \/ \E old \in {{}, Prunable([row EXCEPT ![e] = r])} :
          /\ row' = [f \in Execs |-> IF f \in old THEN NoRow ELSE [row EXCEPT ![e] = r][f]]
          /\ UNCHANGED faults
    \/ /\ faults < MaxFaults
       /\ faults' = faults + 1
       /\ row' \in {row, [row EXCEPT ![e] = r]}

\* The pending row is written and the task spawned.
Spawn ==
    /\ adm.pc = "row"
    /\ Write(adm.e, [st |-> "pending", at |-> Never])
    /\ adm' = Idle
    /\ UNCHANGED <<now, ex, gone, loose, deaths>>

Spawned(e) == ~(adm.pc = "row" /\ adm.e = e)

----------------------------------------------------------------------------
(* The task of one execution. *)

\* It has its place in the queue and an execution slot.
Starts(e) ==
    /\ e \notin gone /\ ex[e].st = "pending" /\ Spawned(e)
    /\ ex' = [ex EXCEPT ![e] = [st |-> "started", at |-> now]]
    /\ UNCHANGED <<now, row, adm, gone, loose, faults, deaths>>

\* The row is written, then the workflow is dispatched in any case.
Dispatch(e) ==
    /\ e \notin gone /\ ex[e].st = "started"
    /\ Write(e, [st |-> "running", at |-> ex[e].at])
    /\ ex' = [ex EXCEPT ![e].st = "working"]
    /\ UNCHANGED <<now, adm, gone, loose, deaths>>

\* The workflow ran, or declined to.
Return(e) ==
    /\ e \notin gone /\ ex[e].st = "working"
    /\ \E st \in {"ran", "declined"} : ex' = [ex EXCEPT ![e].st = st]
    /\ UNCHANGED <<now, row, adm, gone, loose, faults, deaths>>

Report(e) ==
    /\ e \notin gone /\ ex[e].st \in {"ran", "declined"}
    /\ LET end == [st |-> IF ex[e].st = "ran" THEN "done" ELSE "skipped", at |-> ex[e].at]
       IN  Write(e, end) /\ ex' = [ex EXCEPT ![e] = end]
    /\ UNCHANGED <<now, adm, gone, loose, deaths>>

Clock ==
    /\ now < MaxTime
    /\ now' = now + 1
    /\ UNCHANGED <<ex, row, adm, gone, loose, faults, deaths>>

\* The process ends and another starts on the same database.
Die ==
    /\ deaths < MaxDeaths
    /\ deaths' = deaths + 1
    /\ gone' = gone \cup {e \in Execs : ex[e].st # "none"}
    /\ loose' = (loose \/ \E e \in Execs \ gone : ex[e].st \in {"working", "ran", "done"} /\ row[e].at = Never)
    /\ adm' = Idle
    /\ UNCHANGED <<now, ex, row, faults>>

Next ==
    \/ ReadMemory \/ ReadRows \/ RowsUnreadable \/ Record \/ Spawn
    \/ \E e \in Execs : Starts(e) \/ Dispatch(e) \/ Return(e) \/ Report(e)
    \/ Clock \/ Die

Spec == Init /\ [][Next]_vars

----------------------------------------------------------------------------
(* Properties. *)

\* Executions, rows and the admission have their types; no start lies ahead.
TypeOK ==
    /\ now \in 0..MaxTime
    /\ \A e \in Execs :
          /\ ex[e].st \in {"none", "pending", "started", "working", "ran", "declined", "done", "skipped"}
          /\ ex[e].at \in Never..now
          /\ row[e].st \in {"none", "pending", "running", "done", "skipped"}
          /\ row[e].at \in Never..now
    /\ adm.live \in 0..Cardinality(Execs) /\ adm.pending \in 0..Cardinality(Execs)

\* Workflows dispatched within the last hour, without those that declined.
Dispatched == {e \in Execs : ex[e].st \in {"working", "ran", "done"} /\ Recent(ex[e].at)}

\* The executions of the running process keep to the limit by themselves,
\* however long they were queued and whatever happened to their rows.
LimitPerProcess == Cardinality(Dispatched \ gone) <= MaxPerHour

\* The limit also holds across restarts, as long as every start was in SQLite
\* before the next admission or the next process looked for it.
WrittenLimit == ~loose => Cardinality(Dispatched) <= MaxPerHour

\* Both limits.
HourlyLimitHolds == TypeOK /\ LimitPerProcess /\ WrittenLimit

----------------------------------------------------------------------------
(* The inductive invariant. *)

States == {"none", "pending", "started", "working", "ran", "declined", "done", "skipped"}

RowStates == {"none", "pending", "running", "done", "skipped"}

Shape ==
    /\ TypeOK
    /\ ex \in [Execs -> [st : States, at : Int]]
    /\ row \in [Execs -> [st : RowStates, at : Int]]
    /\ adm \in [pc : {"idle", "rows", "record", "row"}, live : Int, pending : Int, e : Execs \cup {0}]
    /\ gone \subseteq Execs

\* The execution of an admission that is being recorded is queued and its task not spawned.
AdmissionRests ==
    adm.pc = "row" => adm.e \in Execs \ gone /\ ex[adm.e].st = "pending"

\* What counts against the limit in this process: queued, or started within the hour.
Load == {e \in Execs \ gone : ex[e].st = "pending" \/ Recent(ex[e].at)}

\* An admission has counted no less than that, and goes on only below the limit.
LoadRests ==
    /\ Cardinality(Load) <= MaxPerHour
    /\ adm.pc = "rows" => Cardinality(Load) <= adm.live + adm.pending
    /\ adm.pc = "record" => Cardinality(Load) < MaxPerHour

\* A row says when its execution started, or nothing yet; while nothing is loose, what the
\* dead processes dispatched within the hour is in SQLite.
RowsRest ==
    \A e \in Execs :
        /\ ex[e].st \in {"none", "pending"} => ex[e].at = Never
        /\ row[e].at \in {Never, ex[e].at}
        /\ row[e].at # Never => row[e].st \notin {"none", "pending"}
        /\ row[e].st = "skipped" => ex[e].st = "skipped"
        /\ ~loose /\ e \in gone /\ e \in Dispatched => row[e].at # Never

\* What counts across restarts: queued or about to be dispatched by this process, or
\* dispatched by any.
Spent ==
    Dispatched \cup {e \in Execs \ gone :
                       ex[e].st = "pending" \/ (ex[e].st = "started" /\ Recent(ex[e].at))}

SpentRests ==
    /\ adm.pc = "rows" => PendingCount <= adm.pending
    /\ ~loose => Cardinality(Spent) <= MaxPerHour
    /\ ~loose /\ adm.pc = "record" => Cardinality(Spent) < MaxPerHour

IndInv == Shape /\ AdmissionRests /\ LoadRests /\ RowsRest /\ SpentRests

=============================================================================
