------------------------------ MODULE MCRecords ------------------------------
(***************************************************************************)
(* What a restart finds: the records of fuzz runs (RunJournal), of a run's *)
(* closeout (RunCloseout) and of source scans (SemgrepJournal).            *)
(*                                                                         *)
(* The components share no state, so a safety property of one does not     *)
(* depend on the steps of the others.  A behaviour therefore picks one     *)
(* scene, a component with its instance, and the others keep their         *)
(* initial state: the scenes add up instead of multiplying.                *)
(***************************************************************************)
EXTENDS RunCloseout, TLC

CONSTANTS p1, p2   \* two processes, alike

VARIABLES scene
VARIABLES row, wal, up, degraded, interrupted, boot, abandoned, phase, guard,
          repair, started, told, peer, overwrites, lost, excused, journalLeft
VARIABLES scanRow, journal, staging, at, owner, cancelled, scanUp, poisoned,
          scanDegraded, rec, faults, crashes

journalVars == <<row, wal, up, degraded, interrupted, boot, abandoned, phase, guard,
                 repair, started, told, peer, overwrites, lost, excused,
                 journalLeft>>
scanVars == <<scanRow, journal, staging, at, owner, cancelled, scanUp, poisoned,
              scanDegraded, rec, faults, crashes>>
allVars == <<scene, journalVars, vars, scanVars>>

-----------------------------------------------------------------------------
(* The instances.                                                            *)

JournalFaults(crash, abort, store, append, note, delete, second) ==
    "crash" :> crash @@ "abort" :> abort @@ "store" :> store @@ "append" :> append
      @@ "note" :> note @@ "delete" :> delete @@ "peer" :> second

EveryFault == JournalFaults(1, 1, 1, 1, 1, 1, 0)
WithPeer == JournalFaults(1, 0, 0, 1, 0, 1, 1)
TwoRuns == {"a", "b"}
Ranks == [a |-> 1, b |-> 2]
CampaignAndKernel == [a |-> "campaign", b |-> "kernel"]
SmokeAndCampaign == [a |-> "smoke", b |-> "campaign"]

\* Every fault once, except a second process, under a journal that two open
\* events and two further lines fill.
J == INSTANCE RunJournal WITH
        Runs <- TwoRuns, Kind <- CampaignAndKernel,
        Rank <- Ranks, OpenBytes <- 3, LineBytes <- 1,
        MaxBytes <- 8, MaxEvents <- 20,
        Budget <- EveryFault, pc <- phase, left <- journalLeft

\* A second process reads and replaces the journal between any two steps of the
\* first, which has a crash, a failed append and a deletion.
P == INSTANCE RunJournal WITH
        Runs <- TwoRuns, Kind <- SmokeAndCampaign,
        Rank <- Ranks, OpenBytes <- 3, LineBytes <- 1,
        MaxBytes <- 8, MaxEvents <- 20,
        Budget <- WithPeer, pc <- phase, left <- journalLeft

\* A run without rows; one closed out by the version without the edge-set step,
\* whose triage failed and whose dependents were recorded as skipped; and one
\* with a row of a later version.
FreshRows == [s \in {"Triage", "Minimize", "CorpusAbsorb", "EdgeSet", "Disposition",
                     "TrustReport"} |-> "none"]

UpgradedRows ==
    [FreshRows EXCEPT !["Triage"] = "failed", !["Minimize"] = "legacy",
                      !["CorpusAbsorb"] = "legacy", !["Disposition"] = "legacy",
                      !["TrustReport"] = "completed"]

ForeignRows == [FreshRows EXCEPT !["Triage"] = "completed", !["EdgeSet"] = "unknown"]

Tables == {FreshRows, UpgradedRows, ForeignRows}
TwoClosers == {p1, p2}
CloseoutFaults == "fail" :> 1 @@ "store" :> 1 @@ "lose" :> 1 @@ "delete" :> 1

TwoProcs == {p1, p2}
ProcsAlike == Permutations(TwoProcs)
TwoScans == {"o1", "o2"}
OneProject == [o1 |-> "a", o2 |-> "a"]
OwnProjects == [o1 |-> "a", o2 |-> "b"]

\* Two processes and two scans of one project, two errors and two deaths.
S == INSTANCE SemgrepJournal WITH
        Procs <- TwoProcs, Ops <- TwoScans,
        ProjectOf <- OneProject,
        MaxFaults <- 2, MaxCrashes <- 2, TornWrites <- TRUE,
        row <- scanRow, up <- scanUp, degraded <- scanDegraded

\* The same, each scan for a project of its own, with one error and one death.
T == INSTANCE SemgrepJournal WITH
        Procs <- TwoProcs, Ops <- TwoScans,
        ProjectOf <- OwnProjects,
        MaxFaults <- 1, MaxCrashes <- 1, TornWrites <- TRUE,
        row <- scanRow, up <- scanUp, degraded <- scanDegraded

ASSUME RecordsAssumption ==
    /\ J!JournalAssumption /\ P!JournalAssumption
    /\ CloseoutAssumption
    /\ S!SemgrepAssumption /\ T!SemgrepAssumption

-----------------------------------------------------------------------------
AllInit ==
    /\ scene \in {"run", "run and peer", "closeout", "scans", "projects"}
    /\ IF scene = "run and peer" THEN P!Init ELSE J!Init
    /\ Init
    /\ scene # "closeout" => rows = FreshRows
    /\ IF scene = "projects" THEN T!Init ELSE S!Init

AllNext ==
    \/ scene = "run" /\ J!Next /\ UNCHANGED <<scene, vars, scanVars>>
    \/ scene = "run and peer" /\ P!Next /\ UNCHANGED <<scene, vars, scanVars>>
    \/ scene = "closeout" /\ Next /\ UNCHANGED <<scene, journalVars, scanVars>>
    \/ scene = "scans" /\ S!Next /\ UNCHANGED <<scene, journalVars, vars>>
    \/ scene = "projects" /\ T!Next /\ UNCHANGED <<scene, journalVars, vars>>

AllSpec == AllInit /\ [][AllNext]_allVars

-----------------------------------------------------------------------------
Scans == scene \in {"scans", "projects"}

\* RunJournal: no run is launched before its open event is in the journal; a run
\* that counts as done while the journal shows it open blocks further campaigns
\* or is about to be repaired; a run nobody owns that still claims to run is
\* found by the next startup, about to be repaired, or lost its evidence in a
\* known way; after a startup reconciliation without error every interrupted run
\* is failed.  The rename of a second process takes lines it has not read with it:
\* nothing but the runs of those lines is excepted, and without a second process
\* there are none, nor is an executing run failed.
RunsAreExplained ==
    /\ scene = "run" => J!RunsHold
    /\ scene = "run and peer" => P!RunsHold

\* SemgrepJournal: a closed operation has its published row unless its project
\* was deleted; an aborted one has neither an active or published row nor a
\* staging directory; nobody repairs, deletes or aborts under a running one; an
\* accepted cancellation is never overtaken by a publication; and a recovery that
\* reports success has reconciled both stores.
ScansReconciled ==
    Scans => S!ScansHold

\* What is final stays: a failed run (RunJournal), a step of a closeout whose
\* stored row is terminal, which no pass starts again (RunCloseout), and what a
\* caller was told of an ended scan (SemgrepJournal).
FinalStays ==
    [][/\ scene = "run" => J!FailedStays
       /\ scene = "closeout" => NoReworkStep
       /\ Scans => S!TerminalViewStays]_allVars
=============================================================================
