--------------------------- MODULE SemgrepJournal ---------------------------
(***************************************************************************)
(* One Semgrep enrichment keeps its state in three places: a row in SQLite,  *)
(* an append-only journal file of its own, and a staging directory.  The row *)
(* is published in one transaction, the directory is removed, and only then  *)
(* is the journal closed; a failed operation ends its row, removes its       *)
(* directory and aborts its journal.  A crash may fall between any two of    *)
(* these steps, so a process recovers what it finds when it starts, under a  *)
(* lease no running operation may hold.  Any journal error is remembered     *)
(* for the life of the process and refuses all new work.                     *)
(*                                                                           *)
(* Several processes share the disk; a process runs several operations.      *)
(***************************************************************************)
EXTENDS Naturals, FiniteSets

CONSTANTS
    Procs,       \* processes sharing the store and the workspace
    Ops,         \* operation UUIDs, each used once
    ProjectOf,   \* the project each operation is started for
    MaxFaults,   \* bound: storage, cleanup and journal errors
    MaxCrashes,  \* bound: process deaths
    TornWrites   \* whether a death or an error may leave half a journal line

SemgrepAssumption ==
    /\ IsFiniteSet(Procs) /\ IsFiniteSet(Ops)
    /\ DOMAIN ProjectOf = Ops
    /\ MaxFaults \in Nat /\ MaxCrashes \in Nat /\ TornWrites \in BOOLEAN
    /\ "none" \notin Procs \cup Ops

Nothing == "none"

ActiveRow == {"staging", "scanning", "validating", "persisting"}

Rows == ActiveRow \cup {Nothing, "done", "failed", "cancelled"}

\* OperationLifecycle; the three aborted forms keep their terminal kind, and a
\* torn file is one that replay rejects (empty, or a truncated last record).
Aborted == {"failed", "cancelled", "recovered"}

Lifecycles == Aborted \cup {Nothing, "open", "ready", "closed", "torn"}

\* Where an operation's task stands, by the step it takes next.
Cancellable == {"insert", "begin", "stage", "set_scanning", "run", "claim", "claim_failure"}

Finalizing == {"set_validating", "set_persisting", "ready", "publish", "cleanup",
               "close", "compensate", "fail_row", "fail_cleanup", "abort", "release"}

Working == Cancellable \cup Finalizing

VARIABLES
    row,        \* semgrep_enrichment_runs: the status of each operation
    journal,    \* the lifecycle each operation's journal file replays to
    staging,    \* whether workspace/semgrep/<uuid> exists
    at,         \* the step each operation takes next, Nothing when nobody runs it
    owner,      \* the process that runs it and holds its leases
    cancelled,  \* its cancellation token
    up,         \* the processes whose service is built or being built
    poisoned,   \* the processes whose journal recorded a durability error
    degraded,   \* the processes whose coordinator recorded a recovery error
    rec,        \* startup recovery of each process, holder of the exclusive lease
    faults, crashes

disk == <<row, journal, staging>>
task == <<at, owner, cancelled>>
health == <<poisoned, degraded>>
bounds == <<faults, crashes>>
vars == <<disk, task, up, health, rec, bounds>>

RecSteps == {"off", "list", "row", "cleanup", "abort", "residual", "residual_row", "settled"}

TypeOK ==
    /\ row \in [Ops -> Rows]
    /\ journal \in [Ops -> Lifecycles]
    /\ staging \in [Ops -> BOOLEAN]
    /\ at \in [Ops -> Working \cup {Nothing}]
    /\ owner \in [Ops -> Procs \cup {Nothing}]
    /\ cancelled \in [Ops -> BOOLEAN]
    /\ up \subseteq Procs /\ poisoned \subseteq Procs /\ degraded \subseteq Procs
    /\ rec \in [Procs -> [step : RecSteps, todo : SUBSET Ops, op : Ops \cup {Nothing}]]
    /\ faults \in 0..MaxFaults /\ crashes \in 0..MaxCrashes

RecOff == [step |-> "off", todo |-> {}, op |-> Nothing]

Init ==
    /\ row = [o \in Ops |-> Nothing]
    /\ journal = [o \in Ops |-> Nothing]
    /\ staging = [o \in Ops |-> FALSE]
    /\ at = [o \in Ops |-> Nothing]
    /\ owner = [o \in Ops |-> Nothing]
    /\ cancelled = [o \in Ops |-> FALSE]
    /\ up = {} /\ poisoned = {} /\ degraded = {}
    /\ rec = [p \in Procs |-> RecOff]
    /\ faults = 0 /\ crashes = 0

-----------------------------------------------------------------------------
(* Leases, and the journal's transactions.                                   *)

Live(o) == owner[o] /= Nothing

Recovering(p) == rec[p].step /= "off"

\* The workspace lease is shared among operations and exclusive for recovery
\* and deletion.
ExclusiveHeld == \E p \in Procs : Recovering(p)

SharedHeld == \E o \in Ops : Live(o)

\* begin_transaction validates every journal file before it serves one.
JournalUsable(p) == p \notin poisoned /\ \A o \in Ops : journal[o] /= "torn"

Fault == faults < MaxFaults /\ faults' = faults + 1

\* The transitions the journal accepts from the state it replays.
Accepts(state, next) ==
    CASE next = "open"   -> state = Nothing
      [] next = "ready"  -> state = "open"
      [] next = "closed" -> state = "ready"
      [] OTHER           -> state \in {"open", "ready"}

AppendSucceeds(p, o, next) ==
    /\ JournalUsable(p) /\ Accepts(journal[o], next)
    /\ journal' = [journal EXCEPT ![o] = next]
    /\ UNCHANGED <<poisoned, faults>>

\* An error in a transaction is sticky.  The record may be missing, complete
\* (the error came after the file was synced) or half written.
AppendFails(p, o, next) ==
    \/ /\ JournalUsable(p) /\ ~Accepts(journal[o], next)
       /\ UNCHANGED <<journal, poisoned, faults>>
    \/ /\ ~JournalUsable(p)
       /\ poisoned' = poisoned \cup {p}
       /\ UNCHANGED <<journal, faults>>
    \/ /\ JournalUsable(p) /\ Accepts(journal[o], next) /\ Fault
       /\ \E left \in {journal[o], next} \cup (IF TornWrites THEN {"torn"} ELSE {}) :
              journal' = [journal EXCEPT ![o] = left]
       /\ poisoned' = poisoned \cup {p}

-----------------------------------------------------------------------------
(* Admission and the scan.                                                   *)

Goto(o, step) == at' = [at EXCEPT ![o] = step]

Degrade(p) == degraded' = degraded \cup {p}

\* admit_semgrep_enrichment up to the reservation: both leases, then health.
Admit(p, o) ==
    /\ p \in up /\ ~ExclusiveHeld
    /\ at[o] = Nothing /\ row[o] = Nothing /\ journal[o] = Nothing
    /\ \A x \in Ops : ProjectOf[x] = ProjectOf[o] => ~Live(x)
    /\ p \notin poisoned \cup degraded
    /\ owner' = [owner EXCEPT ![o] = p]
    /\ Goto(o, "insert")
    /\ UNCHANGED <<disk, cancelled, up, health, rec, bounds>>

\* The unique index allows one active row for a project.
RowFree(o) == \A x \in Ops : ProjectOf[x] = ProjectOf[o] => row[x] \notin ActiveRow

Insert(o) ==
    /\ at[o] = "insert"
    /\ \/ /\ RowFree(o)
          /\ row' = [row EXCEPT ![o] = "staging"] /\ Goto(o, "begin")
          /\ UNCHANGED faults
       \/ /\ ~RowFree(o) /\ Goto(o, "release") /\ UNCHANGED <<row, faults>>
       \/ /\ Fault /\ Goto(o, "release") /\ UNCHANGED row
    /\ UNCHANGED <<journal, staging, owner, cancelled, up, health, rec, crashes>>

Begin(o) ==
    /\ at[o] = "begin"
    /\ \/ AppendSucceeds(owner[o], o, "open") /\ Goto(o, "stage")
       \/ AppendFails(owner[o], o, "open") /\ Goto(o, "claim_failure")
    /\ UNCHANGED <<row, staging, owner, cancelled, up, degraded, rec, crashes>>

\* The token, the inventory and the snapshot; a failed snapshot may leave
\* part of the directory behind.
Stage(o) ==
    /\ at[o] = "stage"
    /\ \/ /\ ~cancelled[o]
          /\ staging' = [staging EXCEPT ![o] = TRUE] /\ Goto(o, "set_scanning")
       \/ /\ \E left \in BOOLEAN : staging' = [staging EXCEPT ![o] = left]
          /\ Goto(o, "claim_failure")
    /\ UNCHANGED <<row, journal, owner, cancelled, up, health, rec, bounds>>

\* set_semgrep_phase updates a row that is in the expected phase.
Phase(o, from, to, ok, failed) ==
    \/ /\ row[o] = from
       /\ row' = [row EXCEPT ![o] = to] /\ Goto(o, ok)
       /\ UNCHANGED faults
    \/ /\ row[o] /= from /\ Goto(o, failed) /\ UNCHANGED <<row, faults>>
    \/ /\ Fault /\ Goto(o, failed) /\ UNCHANGED row

SetScanning(o) ==
    /\ at[o] = "set_scanning"
    /\ \/ cancelled[o] /\ Goto(o, "claim_failure") /\ UNCHANGED <<row, faults>>
       \/ ~cancelled[o] /\ Phase(o, "staging", "scanning", "run", "claim_failure")
    /\ UNCHANGED <<journal, staging, owner, cancelled, up, health, rec, crashes>>

\* Mutant: the command is not stopped for a cancelled operation.
RunUnstoppable(o) ==
    /\ at[o] = "run" /\ ~cancelled[o]
    /\ Goto(o, "claim") \/ Goto(o, "claim_failure")
    /\ UNCHANGED <<disk, owner, cancelled, up, health, rec, bounds>>

\* The sandboxed command and its output: it may fail, time out or be stopped.
Run(o) ==
    /\ at[o] = "run"
    /\ \/ ~cancelled[o] /\ Goto(o, "claim")
       \/ Goto(o, "claim_failure")
    /\ UNCHANGED <<disk, owner, cancelled, up, health, rec, bounds>>

\* Mutant: the token is not read when completion is claimed.
ClaimBlindly(o) ==
    /\ at[o] = "claim"
    /\ Goto(o, "set_validating")
    /\ UNCHANGED <<disk, owner, cancelled, up, health, rec, bounds>>

\* claim_completion: from here on a cancellation is refused.
Claim(o) ==
    /\ at[o] = "claim"
    /\ Goto(o, IF cancelled[o] THEN "fail_row" ELSE "set_validating")
    /\ UNCHANGED <<disk, owner, cancelled, up, health, rec, bounds>>

\* finish_semgrep_failure claims too.
ClaimFailure(o) ==
    /\ at[o] = "claim_failure"
    /\ Goto(o, "fail_row")
    /\ UNCHANGED <<disk, owner, cancelled, up, health, rec, bounds>>

\* request_semgrep_cancel: accepted while the operation is cancellable and its
\* row can be found.
Cancel(p, o) ==
    /\ p \in up /\ owner[o] = p
    /\ row[o] /= Nothing /\ at[o] \in Cancellable /\ ~cancelled[o]
    /\ cancelled' = [cancelled EXCEPT ![o] = TRUE]
    /\ UNCHANGED <<disk, at, owner, up, health, rec, bounds>>

SetValidating(o) ==
    /\ at[o] = "set_validating"
    /\ Phase(o, "scanning", "validating", "set_persisting", "fail_row")
    /\ UNCHANGED <<journal, staging, owner, cancelled, up, health, rec, crashes>>

\* Parsing, mapping and the source digest come before the phase.
SetPersisting(o) ==
    /\ at[o] = "set_persisting"
    /\ \/ Phase(o, "validating", "persisting", "ready", "fail_row")
       \/ Goto(o, "fail_row") /\ UNCHANGED <<row, faults>>
    /\ UNCHANGED <<journal, staging, owner, cancelled, up, health, rec, crashes>>

-----------------------------------------------------------------------------
(* Publication.                                                              *)

\* The row is read again for the image digest; when it cannot be, the
\* operation is left as it is.
Ready(o) ==
    /\ at[o] = "ready"
    /\ \/ /\ row[o] /= Nothing /\ AppendSucceeds(owner[o], o, "ready")
          /\ Goto(o, "publish") /\ UNCHANGED degraded
       \/ /\ row[o] /= Nothing /\ AppendFails(owner[o], o, "ready")
          /\ Goto(o, "fail_row") /\ Degrade(owner[o])
       \/ /\ \/ row[o] = Nothing /\ UNCHANGED faults
             \/ Fault
          /\ Goto(o, "release") /\ Degrade(owner[o])
          /\ UNCHANGED <<journal, poisoned>>
    /\ UNCHANGED <<row, staging, owner, cancelled, up, rec, crashes>>

\* publish_semgrep_run: the findings, the scores and the row, or nothing.
Publish(o) ==
    /\ at[o] = "publish"
    /\ Phase(o, "persisting", "done", "cleanup", "fail_row")
    /\ UNCHANGED <<journal, staging, owner, cancelled, up, health, rec, crashes>>

\* Mutant: an error while removing the directory is only logged.
CleanupIgnored(o) ==
    /\ at[o] = "cleanup" /\ Goto(o, "close")
    /\ \/ staging' = [staging EXCEPT ![o] = FALSE] /\ UNCHANGED faults
       \/ Fault /\ UNCHANGED staging
    /\ UNCHANGED <<row, journal, owner, cancelled, up, health, rec, crashes>>

Cleanup(o) ==
    /\ at[o] = "cleanup"
    /\ \/ /\ staging' = [staging EXCEPT ![o] = FALSE]
          /\ Goto(o, "close") /\ UNCHANGED <<degraded, faults>>
       \/ /\ Fault /\ Goto(o, "compensate") /\ Degrade(owner[o])
          /\ UNCHANGED staging
    /\ UNCHANGED <<row, journal, owner, cancelled, up, poisoned, rec, crashes>>

\* compensate_semgrep_publication takes a published row only.
Compensate(o) ==
    /\ at[o] = "compensate"
    /\ Phase(o, "done", "failed", "release", "release")
    /\ UNCHANGED <<journal, staging, owner, cancelled, up, health, rec, crashes>>

Close(o) ==
    /\ at[o] = "close" /\ Goto(o, "release")
    /\ \/ AppendSucceeds(owner[o], o, "closed") /\ UNCHANGED degraded
       \/ AppendFails(owner[o], o, "closed") /\ Degrade(owner[o])
    /\ UNCHANGED <<row, staging, owner, cancelled, up, rec, crashes>>

-----------------------------------------------------------------------------
(* Failure: fail_semgrep_operation.                                          *)

Outcome(o) == IF cancelled[o] THEN "cancelled" ELSE "failed"

FailRow(o) ==
    /\ at[o] = "fail_row"
    /\ \/ /\ row[o] \in ActiveRow
          /\ row' = [row EXCEPT ![o] = Outcome(o)] /\ Goto(o, "fail_cleanup")
          /\ UNCHANGED <<degraded, faults>>
       \/ /\ \/ row[o] \notin ActiveRow /\ UNCHANGED faults
             \/ Fault
          /\ Goto(o, "release") /\ Degrade(owner[o]) /\ UNCHANGED row
    /\ UNCHANGED <<journal, staging, owner, cancelled, up, poisoned, rec, crashes>>

FailCleanup(o) ==
    /\ at[o] = "fail_cleanup"
    /\ \/ /\ staging' = [staging EXCEPT ![o] = FALSE]
          /\ Goto(o, "abort") /\ UNCHANGED <<degraded, faults>>
       \/ /\ Fault /\ Goto(o, "release") /\ Degrade(owner[o]) /\ UNCHANGED staging
    /\ UNCHANGED <<row, journal, owner, cancelled, up, poisoned, rec, crashes>>

Abort(o) ==
    /\ at[o] = "abort" /\ Goto(o, "release")
    /\ \/ AppendSucceeds(owner[o], o, Outcome(o)) /\ UNCHANGED degraded
       \/ AppendFails(owner[o], o, Outcome(o)) /\ Degrade(owner[o])
    /\ UNCHANGED <<row, staging, owner, cancelled, up, rec, crashes>>

\* The reservation and the two leases are dropped with the task.
Release(o) ==
    /\ at[o] = "release"
    /\ Goto(o, Nothing) /\ owner' = [owner EXCEPT ![o] = Nothing]
    /\ UNCHANGED <<disk, cancelled, up, health, rec, bounds>>

-----------------------------------------------------------------------------
(* Death, and recovery at bootstrap.                                         *)

Writing(o) == at[o] \in {"begin", "ready", "close", "abort"}

\* The operations whose journal a dying process may leave half written: the
\* one it is appending to, for a task or for its recovery.
MayTear(p) ==
    IF ~TornWrites \/ ~JournalUsable(p) THEN {}
    ELSE {o \in Ops : owner[o] = p /\ Writing(o)}
         \cup {o \in Ops : rec[p].step = "abort" /\ rec[p].op = o}

Crash(p) ==
    /\ p \in up /\ crashes < MaxCrashes /\ crashes' = crashes + 1
    /\ \E torn \in {{}} \cup {{o} : o \in MayTear(p)} :
           journal' = [o \in Ops |-> IF o \in torn THEN "torn" ELSE journal[o]]
    /\ at' = [o \in Ops |-> IF owner[o] = p THEN Nothing ELSE at[o]]
    /\ owner' = [o \in Ops |-> IF owner[o] = p THEN Nothing ELSE owner[o]]
    /\ up' = up \ {p}
    /\ poisoned' = poisoned \ {p} /\ degraded' = degraded \ {p}
    /\ rec' = [rec EXCEPT ![p] = RecOff]
    /\ UNCHANGED <<row, staging, cancelled, faults>>

\* Mutant: recovery starts although operations hold the shared lease.
BootBesideTasks(p) ==
    /\ p \notin up /\ up' = up \cup {p}
    /\ IF ExclusiveHeld
       THEN Degrade(p) /\ UNCHANGED rec
       ELSE /\ rec' = [rec EXCEPT ![p] = [RecOff EXCEPT !.step = "list"]]
            /\ UNCHANGED degraded
    /\ UNCHANGED <<disk, task, poisoned, bounds>>

\* recover_semgrep_at_bootstrap: without the exclusive lease the new process
\* neither reads nor repairs anything, and starts nothing.
Boot(p) ==
    /\ p \notin up /\ up' = up \cup {p}
    /\ IF ExclusiveHeld \/ SharedHeld
       THEN Degrade(p) /\ UNCHANGED rec
       ELSE /\ rec' = [rec EXCEPT ![p] = [RecOff EXCEPT !.step = "list"]]
            /\ UNCHANGED degraded
    /\ UNCHANGED <<disk, task, poisoned, bounds>>

RecGoto(p, step, todo, o) ==
    rec' = [rec EXCEPT ![p] = [step |-> step, todo |-> todo, op |-> o]]

\* The first error ends recovery and is remembered.
RecFails(p) == rec' = [rec EXCEPT ![p] = RecOff] /\ Degrade(p)

\* Mutant: an operation that was ready to commit counts as finished.
InterruptedOpenOnly == {o \in Ops : journal[o] = "open"}

\* interrupted(): every journal that began and has no terminal record.
Interrupted == {o \in Ops : journal[o] \in {"open", "ready"}}

RecList(p) ==
    /\ rec[p].step = "list"
    /\ \/ /\ JournalUsable(p) /\ RecGoto(p, "row", Interrupted, Nothing)
          /\ UNCHANGED <<poisoned, degraded, faults>>
       \/ /\ \/ ~JournalUsable(p) /\ UNCHANGED faults
             \/ Fault
          /\ poisoned' = poisoned \cup {p} /\ RecFails(p)
    /\ UNCHANGED <<disk, task, up, crashes>>

\* Mutant: only the journals are reconciled, residual rows are forgotten.
RecRowsOnly(p) ==
    /\ rec[p].step = "row"
    /\ \/ /\ rec[p].todo = {} /\ RecGoto(p, "settled", {}, Nothing)
          /\ UNCHANGED <<row, degraded, faults>>
       \/ \E o \in rec[p].todo :
              /\ RecGoto(p, "cleanup", rec[p].todo \ {o}, o)
              /\ row' = [row EXCEPT ![o] = IF @ \in ActiveRow \cup {"done"} THEN "failed" ELSE @]
              /\ UNCHANGED <<degraded, faults>>
       \/ Fault /\ RecFails(p) /\ UNCHANGED row
    /\ UNCHANGED <<journal, staging, task, up, poisoned, crashes>>

\* recover_one: an active row fails, a published one is taken back, a terminal
\* or missing one stays.  After the last journal come the residual rows.
RecRow(p) ==
    /\ rec[p].step = "row"
    /\ \/ /\ rec[p].todo = {}
          /\ RecGoto(p, "residual", {o \in Ops : row[o] \in ActiveRow}, Nothing)
          /\ UNCHANGED <<row, degraded, faults>>
       \/ \E o \in rec[p].todo :
              /\ RecGoto(p, "cleanup", rec[p].todo \ {o}, o)
              /\ row' = [row EXCEPT ![o] = IF @ \in ActiveRow \cup {"done"} THEN "failed" ELSE @]
              /\ UNCHANGED <<degraded, faults>>
       \/ Fault /\ RecFails(p) /\ UNCHANGED row
    /\ UNCHANGED <<journal, staging, task, up, poisoned, crashes>>

\* Mutant: recovery aborts the journal before it removes the directory.
RecCleanupAborts(p) ==
    /\ rec[p].step = "cleanup"
    /\ \/ /\ AppendSucceeds(p, rec[p].op, "recovered")
          /\ RecGoto(p, "row", rec[p].todo, Nothing) /\ UNCHANGED degraded
       \/ AppendFails(p, rec[p].op, "recovered") /\ RecFails(p)
    /\ UNCHANGED <<row, staging, task, up, crashes>>

RecCleanup(p) ==
    /\ rec[p].step = "cleanup"
    /\ \/ /\ staging' = [staging EXCEPT ![rec[p].op] = FALSE]
          /\ RecGoto(p, "abort", rec[p].todo, rec[p].op)
          /\ UNCHANGED <<degraded, faults>>
       \/ Fault /\ RecFails(p) /\ UNCHANGED staging
    /\ UNCHANGED <<row, journal, task, up, poisoned, crashes>>

RecAbort(p) ==
    /\ rec[p].step = "abort"
    /\ \/ /\ AppendSucceeds(p, rec[p].op, "recovered")
          /\ RecGoto(p, "row", rec[p].todo, Nothing) /\ UNCHANGED degraded
       \/ AppendFails(p, rec[p].op, "recovered") /\ RecFails(p)
    /\ UNCHANGED <<row, staging, task, up, crashes>>

\* recover_active_without_journal: the directory first, the row last.
RecResidual(p) ==
    /\ rec[p].step = "residual"
    /\ \/ /\ rec[p].todo = {} /\ RecGoto(p, "settled", {}, Nothing)
          /\ UNCHANGED <<staging, degraded, faults>>
       \/ \E o \in rec[p].todo :
              /\ RecGoto(p, "residual_row", rec[p].todo \ {o}, o)
              /\ staging' = [staging EXCEPT ![o] = FALSE]
              /\ UNCHANGED <<degraded, faults>>
       \/ Fault /\ RecFails(p) /\ UNCHANGED staging
    /\ UNCHANGED <<row, journal, task, up, poisoned, crashes>>

RecResidualRow(p) ==
    /\ rec[p].step = "residual_row"
    /\ \/ /\ row[rec[p].op] \in ActiveRow
          /\ row' = [row EXCEPT ![rec[p].op] = "failed"]
          /\ RecGoto(p, "residual", rec[p].todo, Nothing)
          /\ UNCHANGED <<degraded, faults>>
       \/ /\ \/ row[rec[p].op] \notin ActiveRow /\ UNCHANGED faults
             \/ Fault
          /\ RecFails(p) /\ UNCHANGED row
    /\ UNCHANGED <<journal, staging, task, up, poisoned, crashes>>

RecDone(p) ==
    /\ rec[p].step = "settled" /\ rec' = [rec EXCEPT ![p] = RecOff]
    /\ UNCHANGED <<disk, task, up, health, bounds>>

-----------------------------------------------------------------------------
(* Readers and deletion.                                                     *)

\* Mutant: a published row is reported done before its close.
ViewEager(p, o) ==
    CASE row[o] \in {"failed", "cancelled"} ->
             IF owner[o] = p THEN "persisting" ELSE row[o]
      [] OTHER -> row[o]

\* semgrep_operation: what a caller of process p is told of an operation.
View(p, o) ==
    CASE row[o] = "done" ->
             IF JournalUsable(p) /\ journal[o] = "closed" THEN "done" ELSE "persisting"
      [] row[o] \in {"failed", "cancelled"} ->
             IF owner[o] = p THEN "persisting" ELSE row[o]
      [] OTHER -> row[o]

\* A read of a published operation replays every journal and remembers an
\* unreadable one like any other transaction.
Read(p) ==
    /\ p \in up /\ ~Recovering(p) /\ p \notin poisoned /\ ~JournalUsable(p)
    /\ \E o \in Ops : row[o] = "done"
    /\ poisoned' = poisoned \cup {p}
    /\ UNCHANGED <<disk, task, up, degraded, rec, bounds>>

\* delete_project: the exclusive workspace lease, then the rows; journals stay.
DeleteProject(p, project) ==
    /\ p \in up /\ ~ExclusiveHeld /\ ~SharedHeld
    /\ \E o \in Ops : ProjectOf[o] = project /\ row[o] /= Nothing
    /\ row' = [o \in Ops |-> IF ProjectOf[o] = project THEN Nothing ELSE row[o]]
    /\ UNCHANGED <<journal, staging, task, up, health, rec, bounds>>

-----------------------------------------------------------------------------

Step(o) ==
    \/ Insert(o) \/ Begin(o) \/ Stage(o) \/ SetScanning(o) \/ Run(o)
    \/ Claim(o) \/ ClaimFailure(o) \/ SetValidating(o) \/ SetPersisting(o)
    \/ Ready(o) \/ Publish(o) \/ Cleanup(o) \/ Compensate(o) \/ Close(o)
    \/ FailRow(o) \/ FailCleanup(o) \/ Abort(o) \/ Release(o)

Recover(p) ==
    \/ RecList(p) \/ RecRow(p) \/ RecCleanup(p) \/ RecAbort(p)
    \/ RecResidual(p) \/ RecResidualRow(p) \/ RecDone(p)

Next ==
    \/ \E o \in Ops : Step(o)
    \/ \E p \in Procs, o \in Ops : Admit(p, o) \/ Cancel(p, o)
    \/ \E p \in Procs : Boot(p) \/ Crash(p) \/ Recover(p) \/ Read(p)
    \/ \E p \in Procs, o \in Ops : DeleteProject(p, ProjectOf[o])

Spec == Init /\ [][Next]_vars

-----------------------------------------------------------------------------
(* What the protocol promises.                                               *)

Settled(o) ==
    /\ row[o] \notin ActiveRow /\ journal[o] \notin {"open", "ready", "torn"}
    /\ row[o] = "done" => journal[o] = "closed"
    /\ ~staging[o]

\* A durable close is the evidence of a publication: whatever died, failed or
\* was recovered, in any process, a closed operation still has its published
\* row unless its project was deleted (semgrep.rs publication, close and
\* recover_one).
ClosedIsPublished ==
    \A o \in Ops : journal[o] = "closed" => row[o] \in {"done", Nothing} /\ ~staging[o]

\* An abort is written last: once it can be replayed the operation has no
\* active or published row and no staging directory, so skipping it at the
\* next start loses nothing (fail_semgrep_operation, recover_one).
AbortedIsClean ==
    \A o \in Ops : journal[o] \in Aborted =>
        row[o] \notin ActiveRow \cup {"done"} /\ ~staging[o]

\* Nobody repairs, deletes or aborts under a running operation: at each step
\* its row, journal and directory are as its own steps left them
\* (acquire_workspace_operation, recover_semgrep_at_bootstrap).
Undisturbed ==
    \A o \in Ops :
        /\ at[o] \in {"begin", "stage", "set_scanning"} => row[o] = "staging"
        /\ at[o] \in {"run", "claim", "set_validating"} => row[o] = "scanning"
        /\ at[o] = "set_persisting" => row[o] = "validating"
        /\ at[o] \in {"ready", "publish"} => row[o] = "persisting"
        /\ at[o] \in {"cleanup", "close"} => row[o] = "done"
        /\ at[o] \in {"set_scanning", "run", "claim", "set_validating", "set_persisting",
                      "ready", "publish", "cleanup"} => staging[o]
        /\ at[o] \in {"stage", "set_scanning", "run", "claim", "set_validating",
                      "set_persisting", "ready"} => journal[o] = "open"
        /\ at[o] \in {"publish", "cleanup", "compensate", "close"} => journal[o] = "ready"
        /\ owner[o] /= Nothing <=> at[o] /= Nothing

\* An accepted cancellation is never overtaken: the operation publishes
\* nothing, and when its own process settles it, it settles as cancelled
\* (cancel and claim_completion).
CancelHonoured ==
    \A o \in Ops : cancelled[o] =>
        /\ row[o] /= "done" /\ journal[o] \notin {"closed", "failed"}
        /\ journal[o] = "cancelled" => row[o] \in {"cancelled", Nothing}

\* A recovery that reports success has reconciled both stores: no operation is
\* active, published without a close, interrupted or staged
\* (recover_interrupted).
RecoveryComplete ==
    \A p \in Procs : rec[p].step = "settled" => \A o \in Ops : Settled(o)

\* The promises together.
ScansHold ==
    TypeOK /\ ClosedIsPublished /\ AbortedIsClean /\ Undisturbed /\ CancelHonoured /\ RecoveryComplete

\* What a caller was told of a terminal operation stays true for it: the answer
\* changes only by deletion, or because the journal can no longer be read
\* (semgrep_operation).
TerminalViewStays ==
    \A p \in Procs, o \in Ops :
        /\ p \in up \cap up' /\ View(p, o) \in {"done", "failed", "cancelled"}
        /\ JournalUsable(p)'
        => View(p, o)' \in {View(p, o), Nothing}

-----------------------------------------------------------------------------
(* The inductive invariant.                                                  *)

\* The exclusive lease has one holder, and no operation runs beside it.
LeaseRests ==
    /\ \A p \in Procs : Recovering(p) => p \in up /\ ~SharedHeld
    /\ \A p, q \in Procs : Recovering(p) /\ Recovering(q) => p = q

\* The three places of an operation, with nobody's step in between: r its row,
\* j its journal, s its directory and c its cancellation.
DiskFits(r, j, s, c) ==
    /\ s => j \in {"open", "ready", "torn"}
    /\ r = "done" => j \in {"ready", "closed", "torn"}
    /\ j = "closed" => r \in {"done", Nothing}
    /\ j \in Aborted => r \notin ActiveRow \cup {"done"}
    /\ c => r /= "done" /\ j \notin {"closed", "failed"}
    /\ c /\ j = "cancelled" => r \in {"cancelled", Nothing}

\* What they are at each step of a task.
TaskFits(r, j, s, c, step) ==
    /\ step = "insert" => r = Nothing
    /\ step \in {"insert", "begin"} => j = Nothing
    /\ step \in {"begin", "stage", "set_scanning"} => r = "staging"
    /\ step \in {"run", "claim", "set_validating"} => r = "scanning"
    /\ step = "set_persisting" => r = "validating"
    /\ step \in {"ready", "publish"} => r = "persisting"
    /\ step \in {"cleanup", "close", "compensate"} => r = "done"
    /\ step \in {"set_scanning", "run", "claim", "set_validating", "set_persisting", "ready",
                 "publish", "cleanup"} => s
    /\ step \in {"close", "abort"} => ~s
    /\ step \in {"stage", "set_scanning", "run", "claim", "set_validating", "set_persisting",
                 "ready"} => j = "open"
    /\ step \in {"publish", "cleanup", "compensate", "close"} => j = "ready"
    /\ step = "claim_failure" => r \in {"staging", "scanning"}
    /\ step = "fail_row" => r \in ActiveRow
    /\ step \in {"fail_cleanup", "abort"} => r = IF c THEN "cancelled" ELSE "failed"
    /\ step \in {"claim_failure", "fail_row", "fail_cleanup", "abort"} =>
           j \in {Nothing, "open", "ready", "torn"}
    /\ step \in {"set_validating", "set_persisting", "ready", "publish", "cleanup",
                 "compensate", "close"} => ~c

OperationRests ==
    \A o \in Ops :
        /\ DiskFits(row[o], journal[o], staging[o], cancelled[o])
        /\ TaskFits(row[o], journal[o], staging[o], cancelled[o], at[o])
        /\ owner[o] /= Nothing <=> at[o] /= Nothing

StillActive == {o \in Ops : row[o] \in ActiveRow}

\* What a recovery has done of both stores at each of its steps.
RecoveryRests ==
    \A p \in Procs : rec[p].step \notin {"off", "list"} =>
        /\ \A o \in Ops : journal[o] /= "torn"
        /\ rec[p].step = "row" => Interrupted = rec[p].todo
        /\ rec[p].step \in {"cleanup", "abort", "residual_row"} => rec[p].op \in Ops \ rec[p].todo
        /\ rec[p].step \in {"cleanup", "abort"} =>
               /\ Interrupted = rec[p].todo \cup {rec[p].op}
               /\ row[rec[p].op] \notin ActiveRow \cup {"done"}
        /\ rec[p].step = "abort" => ~staging[rec[p].op]
        /\ rec[p].step \in {"residual", "residual_row", "settled"} => Interrupted = {}
        /\ rec[p].step = "residual" => StillActive = rec[p].todo
        /\ rec[p].step = "residual_row" => StillActive = rec[p].todo \cup {rec[p].op}
        /\ rec[p].step = "settled" => StillActive = {}

IndInv == TypeOK /\ LeaseRests /\ OperationRests /\ RecoveryRests
=============================================================================
