----------------------------- MODULE MCServices -----------------------------
(***************************************************************************)
(* Services around the fuzzing loop, for TLC: submissions to work orders   *)
(* (WorkOrderSubmissions), the hourly limit of a schedule                  *)
(* (HourlyAdmission), schedules fired by events (EventSchedules), the      *)
(* retirement of schedules (ScheduleRetirement), remediation operations    *)
(* (Remediation) and the filing of issues (IssueFiling).                   *)
(*                                                                         *)
(* The components share no state, so a safety property of one does not     *)
(* depend on the steps of the others.  A behaviour therefore picks one     *)
(* scene, a component with its instance, and the others keep their         *)
(* initial state: the scenes add up instead of multiplying.                *)
(***************************************************************************)
EXTENDS WorkOrderSubmissions, TLC

CONSTANTS c1, c2, p1, p2, a, b

VARIABLES scene
VARIABLES now, ex, row, adm, gone, loose, faults, deaths
VARIABLES clock, up, chan, queue, last, emit, task, exec, sent, events, stops
VARIABLES active, archive, receipt, cert, proof, history, ops, lease, pc, storage,
          served, generation, banned, mishaps, offline, written
VARIABLES operation, edited, corpus, work, running, left
VARIABLES ledger, expired, at, proc, fence, issue, tracker, flying, emptied, overlap,
          crashes

importVars == <<order, sub, used, txn, seen, stale>>
hourlyVars == <<now, ex, row, adm, gone, loose, faults, deaths>>
eventVars == <<clock, up, chan, queue, last, emit, task, exec, sent, events, stops>>
retirementVars == <<active, archive, receipt, cert, proof, history, ops, lease, pc, storage,
                    served, generation, banned, mishaps, offline, written>>
remediationVars == <<operation, edited, corpus, work, running, left>>
filingVars == <<ledger, expired, at, proc, fence, issue, tracker, flying, emptied, overlap,
                crashes>>
allVars == <<scene, importVars, hourlyVars, eventVars, retirementVars, remediationVars,
             filingVars>>

-----------------------------------------------------------------------------
(* The instances.                                                            *)

ThreeExecs == 1..3

\* Two executions an hour and one more, one failing store call and a restart.
H == INSTANCE HourlyAdmission WITH
        MaxPerHour <- 2, Hour <- 1, MaxTime <- 2, Execs <- ThreeExecs,
        MaxFaults <- 1, MaxDeaths <- 1

TwoSchedules == {"a", "b"}
TwoKinds == {"run", "crash"}
BothListen == [a |-> {"run"}, b |-> {"run", "crash"}]
OneDebounce == [a |-> 2, b |-> 0]
TwoOutside == {"o1", "o2"}
TwoTasks == {"t1", "t2"}

\* Both schedules are fired by finished runs, one by crashes too; two outside
\* operations emit at once into a channel of one place.
E == INSTANCE EventSchedules WITH
        Schedules <- TwoSchedules, Kinds <- TwoKinds, Listens <- BothListen,
        Debounces <- OneDebounce, Outside <- TwoOutside, Slots <- TwoTasks,
        QueueCap <- 1, Policy <- "cancel_previous", PerTask <- 1, MaxTime <- 2,
        Events <- 2, Stops <- 1, MaxDepth <- 1, now <- clock

OneService == {p1}
TwoServices == {p1, p2}
TwoIds == {"a", "b"}
ThreeIds == {"a", "b", "c"}
OldIds == {"a"}
AnyStorage == {"available", "notConfigured", "unavailable"}
Database == {"available"}

\* A service whose files an operator edits, restores or removes while it is down.
R == INSTANCE ScheduleRetirement WITH
        Procs <- OneService, Ids <- TwoIds, Storages <- AnyStorage,
        MaxFaults <- 1, MaxOffline <- 3, MaxVersion <- 1,
        seen <- generation, faults <- mishaps

\* Two services that die and report errors, with nobody at the files.
Q == INSTANCE ScheduleRetirement WITH
        Procs <- TwoServices, Ids <- ThreeIds, Storages <- Database,
        MaxFaults <- 3, MaxOffline <- 0, MaxVersion <- 2,
        seen <- generation, faults <- mishaps

TwoOps == {c1, c2}
OneOp == {c1}
Failures == {"write", "drop", "crash", "edit"}
TwoEach == [f \in Failures |-> 2]
OneDeath == [f \in Failures |-> IF f = "crash" THEN 1 ELSE 0]

\* One operation and two processes, every failure twice.
M == INSTANCE Remediation WITH
        Ops <- OneOp, Procs <- TwoServices, MaxCorpus <- 1, Faults <- Failures,
        Budget <- TwoEach, row <- operation, up <- running

\* Two operations, which the recovery of one starting process ends together.
N == INSTANCE Remediation WITH
        Ops <- TwoOps, Procs <- TwoServices, MaxCorpus <- 1, Faults <- Failures,
        Budget <- OneDeath, row <- operation, up <- running

ThreeAttempts == {"t1", "t2", "t3"}

\* Three attempts in two processes, a death, and requests that land late.
F == INSTANCE IssueFiling WITH
        Procs <- TwoServices, Attempts <- ThreeAttempts, MaxCrashes <- 1,
        LateLands <- TRUE, row <- ledger, stale <- expired

ASSUME ServicesAssumption ==
    /\ H!HourlyAssumption /\ E!EventAssumption
    /\ R!RetirementAssumption /\ Q!RetirementAssumption
    /\ M!RemediationAssumption /\ N!RemediationAssumption /\ F!FilingAssumption

\* Callers and operations, processes and orders, and sources are alike.  A scene
\* with only one of a pair reaches no two states that a swap would identify.
Symmetry ==
    Permutations({c1, c2}) \cup Permutations({p1, p2}) \cup Permutations({a, b})

-----------------------------------------------------------------------------
Scenes == {"imports", "hourly", "events", "offline", "services", "remediation", "two operations",
           "filing"}

AllInit ==
    /\ scene \in Scenes
    /\ Init /\ H!Init /\ E!Init /\ F!Init
    /\ IF scene = "two operations" THEN N!Init ELSE M!Init
    /\ IF scene = "services" THEN Q!Init ELSE R!Init

AllNext ==
    \/ /\ scene = "imports" /\ Next
       /\ UNCHANGED <<scene, hourlyVars, eventVars, retirementVars, remediationVars, filingVars>>
    \/ /\ scene = "hourly" /\ H!Next
       /\ UNCHANGED <<scene, importVars, eventVars, retirementVars, remediationVars, filingVars>>
    \/ /\ scene = "events" /\ E!Next
       /\ UNCHANGED <<scene, importVars, hourlyVars, retirementVars, remediationVars, filingVars>>
    \/ /\ scene = "offline" /\ R!Next
       /\ UNCHANGED <<scene, importVars, hourlyVars, eventVars, remediationVars, filingVars>>
    \/ /\ scene = "services" /\ Q!Next
       /\ UNCHANGED <<scene, importVars, hourlyVars, eventVars, remediationVars, filingVars>>
    \/ /\ scene = "remediation" /\ M!Next
       /\ UNCHANGED <<scene, importVars, hourlyVars, eventVars, retirementVars, filingVars>>
    \/ /\ scene = "two operations" /\ N!Next
       /\ UNCHANGED <<scene, importVars, hourlyVars, eventVars, retirementVars, filingVars>>
    \/ /\ scene = "filing" /\ F!Next
       /\ UNCHANGED <<scene, importVars, hourlyVars, eventVars, retirementVars, remediationVars>>

AllSpec == AllInit /\ [][AllNext]_allVars

-----------------------------------------------------------------------------
\* Remediation: at most one workflow runs for an operation; a verified operation
\* was approved and passed all five stages in one workflow; a stage runs only
\* after every earlier one passed.
RemediationHolds ==
    /\ scene = "remediation" => M!RemediationHolds
    /\ scene = "two operations" => N!RemediationHolds

\* HourlyAdmission: the executions of the running process keep to the hourly
\* limit by themselves, whatever happened to their rows, and so do those of all
\* its lives as long as every start was in SQLite before anyone looked for it.
HourlyLimitHolds ==
    scene = "hourly" => H!HourlyLimitHolds

\* EventSchedules: however executions fire one another, none runs with more than
\* the allowed number of executions behind it; no trigger of a schedule comes from
\* its own execution; only a trigger that was sent takes a debounce window.
EventsHold ==
    scene = "events" => E!EventsHold

\* IssueFiling: a crash has two issues only when a create landed after another
\* attempt's search had found nothing, and everyone told of an issue was told of
\* the one the ledger keeps.
FilingAgrees ==
    scene = "filing" => F!FilingAgrees

\* ScheduleRetirement: no process serves a schedule of the removed engine or one
\* that reuses a retired identity, whatever was done to the files; a retired
\* definition is always in the active file or the archive, and leaves the active
\* file only with its history archived; no process overwrites an edit it has not
\* seen.
RetirementHolds ==
    /\ scene = "offline" => R!RetirementHolds
    /\ scene = "services" => Q!RetirementHolds

\* What a step may never do: send two triggers of a debounced schedule within one
\* window (EventSchedules), certify files and rows that do not bear it out
\* (ScheduleRetirement), change the outcome of an ended operation (Remediation) or
\* replace a recorded issue (IssueFiling).
ServicesStay ==
    [][/\ scene = "events" => E!WindowsApart
       /\ scene = "offline" => R!BornOut
       /\ scene = "remediation" => M!OutcomeStays
       /\ scene = "two operations" => N!OutcomeStays
       /\ scene = "filing" => F!DoneStays]_allVars
=============================================================================
