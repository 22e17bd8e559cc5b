----------------------------- MODULE MCProgress -----------------------------
(***************************************************************************)
(* What must happen in the end, for TLC: runs are settled (RunJournal),    *)
(* closeouts finish (RunCloseout), scans end and are repaired              *)
(* (SemgrepJournal), services come up (ScheduleRetirement), attempts end   *)
(* (WorkOrders), claimed operations end (Remediation), calls return        *)
(* (ChatSession), campaigns rotate and pause (CampaignState), missed       *)
(* occurrences are recovered (RecurringSchedule) and cascades of events    *)
(* end (EventSchedules).                                                   *)
(*                                                                         *)
(* The components share no state.  A behaviour picks one scene, and the    *)
(* other components keep their initial state.  Each property and each      *)
(* fairness condition is stated once, for what plays the same part in      *)
(* every scene; as scene never changes, it means the same as one formula   *)
(* per scene.  Of subjects that are alike one is watched.                  *)
(***************************************************************************)
EXTENDS Naturals, TLC

CONSTANTS None

VARIABLES scene
VARIABLES row, wal, up, degraded, interrupted, boot, abandoned, pc, guard, repair,
          started, told, peer, overwrites, lost, excused, left
VARIABLES rows, exists, lease, closing, recorded, todo, outcome, seen, verdict,
          closeoutLeft
VARIABLES scanRow, journal, staging, at, owner, cancelled, scanUp, poisoned,
          scanDegraded, rec, faults, crashes
VARIABLES active, archive, receipt, cert, proof, history, ops, fileLease, standing,
          storage, served, generation, banned, mishaps, offline, written
VARIABLES bin, src, marker, harnessRow, review, runs, approval, built, targetLease,
          op, orderLeft, attempt, lock, kept, listed
VARIABLES operation, edited, corpus, work, procs, remediationLeft
VARIABLES session, display, context, cps, call, gen, known, fresh, turns, torn,
          early, chatLeft
VARIABLES file, mem, defs, enabled, pausing, forgetting, campaignUp, dispatching,
          running, limit, fire, setter, highest, done, charged, campaignLeft
VARIABLES policy, now, schedule, disk, manager, armed, held, failed, queue, worker,
          hd, ex, line, edit, decided, owed, finished, cleared, eventsLeft, fenced, undone
VARIABLES clock, live, chan, triggers, last, emit, task, exec, sent, events, stops

runVars == <<row, wal, up, degraded, interrupted, boot, abandoned, pc, guard,
             repair, started, told, peer, overwrites, lost, excused, left>>
closeoutVars == <<rows, exists, lease, closing, recorded, todo, outcome, seen,
                  verdict, closeoutLeft>>
scanVars == <<scanRow, journal, staging, at, owner, cancelled, scanUp, poisoned,
              scanDegraded, rec, faults, crashes>>
retirementVars == <<active, archive, receipt, cert, proof, history, ops, fileLease,
                    standing, storage, served, generation, banned, mishaps, offline,
                    written>>
orderVars == <<bin, src, marker, harnessRow, review, runs, approval, built,
               targetLease, op, orderLeft, attempt, lock, kept, listed>>
remediationVars == <<operation, edited, corpus, work, procs, remediationLeft>>
chatVars == <<session, display, context, cps, call, gen, known, fresh, turns, torn,
              early, chatLeft>>
campaignVars == <<file, mem, defs, enabled, pausing, forgetting, campaignUp,
                  dispatching, running, limit, fire, setter, highest, done, charged,
                  campaignLeft>>
recurringVars == <<policy, now, schedule, disk, manager, armed, held, failed, queue,
                   worker, hd, ex, line, edit, decided, owed, finished, cleared,
                   eventsLeft, fenced, undone>>
eventVars == <<clock, live, chan, triggers, last, emit, task, exec, sent, events, stops>>
allVars == <<scene, runVars, closeoutVars, scanVars, retirementVars, orderVars,
             remediationVars, chatVars, campaignVars, recurringVars,
             eventVars>>

-----------------------------------------------------------------------------
(* The instances.                                                            *)

TwoRuns == {"a", "b"}
SmokeAndCampaign == [a |-> "smoke", b |-> "campaign"]
Ranks == [a |-> 1, b |-> 2]
AbortAndAppend ==
    "crash" :> 0 @@ "abort" :> 1 @@ "store" :> 0 @@ "append" :> 1 @@ "note" :> 0
      @@ "delete" :> 0 @@ "peer" :> 0

\* One process, which is not lost: what it must do by itself is visible.
J == INSTANCE RunJournal WITH
        Runs <- TwoRuns, Kind <- SmokeAndCampaign, Rank <- Ranks, OpenBytes <- 3,
        LineBytes <- 1, MaxBytes <- 8, MaxEvents <- 20, Budget <- AbortAndAppend

FreshRows == [s \in {"Triage", "Minimize", "CorpusAbsorb", "EdgeSet", "Disposition",
                     "TrustReport"} |-> "none"]

UpgradedRows ==
    [FreshRows EXCEPT !["Triage"] = "failed", !["Minimize"] = "legacy",
                      !["CorpusAbsorb"] = "legacy", !["Disposition"] = "legacy",
                      !["TrustReport"] = "completed"]

Tables == {FreshRows, UpgradedRows}
TwoClosers == {"p", "q"}
FailAndLose == "fail" :> 1 @@ "store" :> 0 @@ "lose" :> 1 @@ "delete" :> 0

\* A step fails and a pass is lost; the run is not deleted.
C == INSTANCE RunCloseout WITH
        Closers <- TwoClosers, NoCloser <- "nobody", RetainedRows <- Tables,
        Budget <- FailAndLose, pc <- closing, left <- closeoutLeft

OneProc == {"p1"}
TwoProcs == {"p1", "p2"}
TwoScans == {"o1", "o2"}
OneProject == [o1 |-> "a", o2 |-> "a"]

\* A process that dies twice, without torn journal lines.
S == INSTANCE SemgrepJournal WITH
        Procs <- OneProc, Ops <- TwoScans, ProjectOf <- OneProject, MaxFaults <- 0,
        MaxCrashes <- 2, TornWrites <- FALSE,
        row <- scanRow, up <- scanUp, degraded <- scanDegraded

TwoIds == {"a", "b"}
OldIds == {"a"}
Database == {"available"}

\* Two services and four deaths or errors.
R == INSTANCE ScheduleRetirement WITH
        Procs <- TwoProcs, Ids <- TwoIds, Storages <- Database, MaxFaults <- 4,
        MaxOffline <- 0, MaxVersion <- 1,
        lease <- fileLease, pc <- standing, seen <- generation, faults <- mishaps

TwoClients == {"c1", "c2"}
OneSource == {"a"}
OneTask == {"t1"}
Clean == {"clean"}
WriteOrDrop == {"write", "drop"}
OneFault == [f \in WriteOrDrop |-> 1]

\* An attempt and another caller of its target, a failing write, a dropped call.
W == INSTANCE WorkOrders WITH
        Clients <- TwoClients, Sources <- OneSource, MaxId <- 1, MaxRun <- 1,
        Tasks <- OneTask, Results <- Clean, Faults <- WriteOrDrop, Budget <- OneFault,
        active <- marker, row <- harnessRow, run <- runs, lease <- targetLease,
        left <- orderLeft, owner <- lock

OneOp == {"o1"}
Failures == {"write", "drop", "crash", "edit"}
OneEach == [f \in Failures |-> 1]

\* One operation, two processes, every failure once.
M == INSTANCE Remediation WITH
        Ops <- OneOp, Procs <- TwoProcs, MaxCorpus <- 1, Faults <- Failures,
        Budget <- OneEach, row <- operation, up <- procs, left <- remediationLeft

OneSession == {"main"}
OneCount == {1}
WriteOrDie == {"write", "die"}
OneWrite == {[f \in WriteOrDie |-> IF f = "write" THEN 1 ELSE 0]}

\* Two callers of a session without branches, one failing statement.
H == INSTANCE ChatSession WITH
        Sessions <- OneSession, Callers <- TwoClients, Main <- "main", MaxTurns <- 1,
        ForkCounts <- OneCount, Faults <- WriteOrDie, Budgets <- OneWrite,
        row <- session, left <- chatLeft

TwoCampaigns == {"a", "b"}
OneFire == {"f1"}
TwoRunsOrTimed == [a |-> 2, b |-> 0]
TimedOnes == {"b"}
FewFaults ==
    {"crash" :> 0 @@ "abort" :> 0 @@ "cancel" :> 1 @@ "refuse" :> 1 @@ "write" :> 1
      @@ "set" :> 0 @@ "remove" :> 0 @@ "resume" :> 1}

\* One fire at a time: a lost compare-and-swap may be retried for ever.
K == INSTANCE CampaignState WITH
        Procs <- OneProc, Campaigns <- TwoCampaigns, Fires <- OneFire, Setters <- {},
        Guarded <- {}, MaxRuns <- TwoRunsOrTimed, Timed <- TimedOnes, NTargets <- 2,
        Limits <- {}, DefaultLimit <- 2, MaxU32 <- 2, CursorSpan <- 2, PerFire <- 2,
        Budgets <- FewFaults,
        up <- campaignUp, reported <- charged, left <- campaignLeft

TwoSlots == {1, 2}
Happenings == {"tick", "write", "crash", "stop", "edit", "disarm", "explicit"}
TicksAndWrite == [k \in Happenings |-> IF k = "tick" THEN 2 ELSE IF k = "write" THEN 1 ELSE 0]
Backfill == {[missed |-> "backfill", conc |-> "cancel_previous", left |-> TicksAndWrite]}

\* A schedule that backfills, with one failing write.
G == INSTANCE RecurringSchedule WITH
        Interval <- 1, MaxTime <- 2, Slots <- TwoSlots, Permits <- 2, QueueCap <- 1,
        Kinds <- Happenings, Cases <- Backfill,
        mem <- schedule, run <- manager, recorded <- finished, left <- eventsLeft

TwoSchedules == {"a", "b"}
OneKind == {"run"}
RunOnly == [s \in TwoSchedules |-> OneKind]
NoDebounce == [s \in TwoSchedules |-> 0]
Outsider == {"o1"}
TwoTasks == {"t1", "t2"}

\* Two schedules that finished runs fire, and so each other; a channel of one
\* place, two events from outside and a stop.
E == INSTANCE EventSchedules WITH
        Schedules <- TwoSchedules, Kinds <- OneKind, Listens <- RunOnly,
        Debounces <- NoDebounce, Outside <- Outsider, Slots <- TwoTasks, QueueCap <- 1,
        Policy <- "cancel_previous", PerTask <- 1, MaxTime <- 0, Events <- 2, Stops <- 1,
        MaxDepth <- 1, now <- clock, up <- live, queue <- triggers

-----------------------------------------------------------------------------
Scenes == {"run", "smoke", "closeout", "scan", "retirement", "order", "remediation",
           "chat", "campaign", "recurring", "events"}

Init ==
    /\ scene \in Scenes
    /\ J!Init /\ C!Init /\ S!Init /\ R!Init /\ W!WorkOrdersInit /\ M!Init
    /\ H!Init /\ K!Init /\ G!Init /\ E!Init
    /\ scene # "closeout" => rows = FreshRows
    /\ scene # "recurring" => schedule.last = 0

\* The components of the other scenes keep still.
OthersStay ==
    /\ UNCHANGED scene
    /\ scene \notin {"run", "smoke"} => UNCHANGED runVars
    /\ scene # "closeout" => UNCHANGED closeoutVars
    /\ scene # "scan" => UNCHANGED scanVars
    /\ scene # "retirement" => UNCHANGED retirementVars
    /\ scene # "order" => UNCHANGED orderVars
    /\ scene # "remediation" => UNCHANGED remediationVars
    /\ scene # "chat" => UNCHANGED chatVars
    /\ scene # "campaign" => UNCHANGED campaignVars
    /\ scene # "recurring" => UNCHANGED recurringVars
    /\ scene # "events" => UNCHANGED eventVars

Next ==
    /\ \/ scene \in {"run", "smoke"} /\ J!Next
       \/ scene = "closeout" /\ C!Next
       \/ scene = "scan" /\ S!Next
       \/ scene = "retirement" /\ R!Next
       \/ scene = "order" /\ W!WorkOrdersNext
       \/ scene = "remediation" /\ M!Next
       \/ scene = "chat" /\ H!Next
       \/ scene = "campaign" /\ K!Next
       \/ scene = "recurring" /\ G!Next
       \/ scene = "events" /\ E!Next
    /\ OthersStay

-----------------------------------------------------------------------------
(* Fairness.                                                                 *)

\* A running process polls its tasks: every future of a run that can step,
\* every spawned repair and the startup reconciliation eventually do.  The
\* engine is bounded by its sandbox timeout.
RunStep(k) ==
    \/ k = 1 /\ pc["a"] # "idle" /\ J!Step("a")
    \/ k = 2 /\ pc["b"] # "idle" /\ J!Step("b")
    \/ k = 3 /\ \E ok \in BOOLEAN : J!Repair("a", ok)
    \/ k = 4 /\ \E ok \in BOOLEAN : J!Repair("b", ok)
    \/ k = 5 /\ \E ok \in BOOLEAN : J!Reconcile(ok)

\* A started pass is polled, and every step it awaits returns.  The operator,
\* who is not part of the program, resumes a closeout that is not finished.
CloseoutStep(k) ==
    \/ k = 1 /\ C!Pass("p")
    \/ k = 2 /\ C!Pass("q")
    \/ k = 3 /\ C!Scope("p")
    \/ k = 4 /\ C!Scope("q")

\* A scan and a recovery keep running, and a dead process is started again.
ScanStep(k) ==
    \/ k = 1 /\ S!Step("o1")
    \/ k = 2 /\ S!Step("o2")
    \/ k = 3 /\ S!Recover("p1")
    \/ k = 4 /\ S!Boot("p1")

\* A service that is down is started again, and a start that runs goes on.
RetirementStep(k) ==
    \/ k = 1 /\ R!Acquire("p1")
    \/ k = 2 /\ R!Acquire("p2")
    \/ k = 3 /\ R!Retire("p1")
    \/ k = 4 /\ R!Retire("p2")

\* A call goes on: its awaits are a bounded sandbox command, a statement or a
\* lock.  Some process starts again and goes through its recovery pass.
OrderStep(k) ==
    \/ k = 1 /\ W!Going("c1")
    \/ k = 2 /\ W!Going("c2")
    \/ k = 3 /\ W!Recover
    \/ k = 4 /\ W!RecoverList

\* A workflow goes on: every sandbox command has a timeout.  A process that is
\* down is started again, and (strongly) one that is up exits some time.
RemediationStep(k) ==
    \/ k = 1 /\ M!Run("p1", "o1")
    \/ k = 2 /\ M!Run("p2", "o1")
    \/ k = 3 /\ M!Start("p1")
    \/ k = 4 /\ M!Start("p2")

\* A call goes on; tokio's mutex serves its waiters in order (strongly).
ChatStep(k) ==
    \/ k = 1 /\ H!Step("c1")
    \/ k = 2 /\ H!Step("c2")

\* The runtime polls every task, and a fuzz run ends with its duration.  The
\* triggers of an enabled schedule keep coming due, also when the slot of the
\* model is taken in between (strongly).
CampaignStep(k) ==
    \/ k = 1 /\ K!Step("f1")
    \/ k = 2 /\ K!PauseSelf("a")
    \/ k = 3 /\ K!PauseSelf("b")

\* Every task of the manager is polled; the admission lock serves in order
\* (strongly); workflows return, which is an assumption about them.
RecurringStep(k) ==
    \/ k = 1 /\ G!Handler("live")
    \/ k = 2 /\ G!Handler("rec")
    \/ k = 3 /\ G!Task(1)
    \/ k = 4 /\ G!Task(2)
    \/ k = 5 /\ G!Receive
    \/ k = 6 /\ G!Worker

\* The executor loop, an aborted execution and a call whose channel is closed go
\* on; the bridge's lock and the channel serve in order (strongly); workflows
\* return, which is an assumption about them.
EventStep(k) ==
    \/ k = 1 /\ E!Executor
    \/ k = 2 /\ E!Abort("t1")
    \/ k = 3 /\ E!Abort("t2")
    \/ k = 4 /\ E!SendFails("o1")
    \/ k = 5 /\ E!SendFails("t1")
    \/ k = 6 /\ E!SendFails("t2")

Weak(k) ==
    /\ \/ scene \in {"run", "smoke"} /\ RunStep(k)
       \/ scene = "closeout" /\ CloseoutStep(k)
       \/ scene = "scan" /\ ScanStep(k)
       \/ scene = "retirement" /\ RetirementStep(k)
       \/ scene = "order" /\ OrderStep(k)
       \/ scene = "remediation" /\ RemediationStep(k)
       \/ scene = "chat" /\ ChatStep(k)
       \/ scene = "campaign" /\ CampaignStep(k)
       \/ scene = "recurring" /\ RecurringStep(k)
       \/ scene = "events" /\ EventStep(k)
    /\ OthersStay

Strong(k) ==
    /\ \/ scene = "remediation" /\ M!Exit("p1") /\ k = 1
       \/ scene = "remediation" /\ M!Exit("p2") /\ k = 2
       \/ scene = "chat" /\ H!Lock("c1") /\ k = 1
       \/ scene = "chat" /\ H!Lock("c2") /\ k = 2
       \/ scene = "campaign" /\ K!Fire("f1", "p1", "a") /\ k = 1
       \/ scene = "campaign" /\ K!Fire("f1", "p1", "b") /\ k = 2
       \/ scene = "recurring" /\ G!Admit("live") /\ k = 1
       \/ scene = "recurring" /\ G!Admit("rec") /\ k = 2
       \/ scene = "events" /\ (E!Emitting("t1") \/ E!End("t1")) /\ k = 1
       \/ scene = "events" /\ (E!Emitting("t2") \/ E!End("t2")) /\ k = 2
       \/ scene = "events" /\ E!Emitting("o1") /\ k = 3
    /\ OthersStay

FairSpec ==
    /\ Init /\ [][Next]_allVars
    /\ \A k \in 1..6 : WF_allVars(Weak(k))
    /\ \A k \in 1..3 : SF_allVars(Strong(k))

-----------------------------------------------------------------------------
Begun ==
    CASE scene = "run" -> pc["b"] = "executing"
      [] scene = "smoke" -> pc["a"] = "executing"
      [] scene = "scan" -> S!Live("o1")
      [] scene = "order" -> W!Running("t1")
      [] scene = "remediation" -> M!Unfinished("o1")
      [] scene = "chat" -> call["c1"] # None
      [] scene = "campaign" -> "a" \in enabled /\ K!Spent(mem["p1"].states["a"], "a")
      [] scene = "recurring" -> worker.pc # "none"
      [] scene = "events" -> emit["o1"].pc # "idle"
      [] OTHER -> FALSE

Ended ==
    CASE scene = "run" -> row["b"] \notin J!Active
      [] scene = "smoke" -> row["a"] \notin J!Active
      [] scene = "scan" -> ~S!Live("o1")
      [] scene = "order" -> ~W!Running("t1")
      [] scene = "remediation" -> ~M!Unfinished("o1")
      [] scene = "chat" -> call["c1"] = None
      [] scene = "campaign" -> "a" \notin enabled
      [] scene = "recurring" -> G!RecoveryOver
      [] scene = "events" -> emit["o1"].pc = "idle"
      [] OTHER -> TRUE

\* What has begun ends: every executing run is settled in the table, however its
\* future ends; every admitted scan stops; every attempt and every claimed
\* operation reaches an outcome, also one whose owner is gone; every chat call
\* returns; a campaign whose budget is spent is paused; an armed recovery of
\* missed occurrences comes to its end; an event is delivered also when the
\* channel is full and its consumer is cancelling executions.
WorkEnds == Begun ~> Ended

Well ==
    CASE scene = "scan" -> S!Live("o1") \/ S!Settled("o1")
      [] scene = "retirement" -> \E p \in TwoProcs : standing[p] = "serving"
      [] scene = "campaign" -> K!Visits("b", 1)
      [] OTHER -> TRUE

\* What was disturbed comes back: a scan that nobody runs is settled again;
\* however often a start dies while it retires schedules, a later one serves; a
\* campaign without a run budget reaches its second target, and so both, again
\* and again.
WellAgain == []<>Well

\* What is finite comes to rest for good: with finitely many faults and an
\* operator who resumes, every step of a closeout becomes terminal, a blocked
\* step and a withdrawn report included (RunCloseout); and what finitely many
\* outside events set off ends, although schedules fire one another
\* (EventSchedules).
ComesToRest ==
    <>[](/\ scene = "closeout" => C!Finished
         /\ scene = "events" => E!AtRest)
=============================================================================
