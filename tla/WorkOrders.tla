----------------------------- MODULE WorkOrders -----------------------------
(***************************************************************************)
(* Qualification attempts of harness work order submissions, composed with *)
(* the harness workspace they qualify in (hf-service container/            *)
(* harness_work_order.rs, hf-storage work_order_store.rs).                 *)
(*                                                                         *)
(* An attempt compiles the submission, has it reviewed and smokes it, each *)
(* in a target revision lease of its own, and records every stage in its   *)
(* row.  A file lock named after the attempt says whether its owner is     *)
(* alive: a process that starts ends the running attempts without one.     *)
(* Other callers compile and smoke the same target meanwhile.              *)
(***************************************************************************)
EXTENDS HarnessRevision

Statuses == {"running", "smoke_passed", "compile_failed", "review_failed",
             "smoke_failed", "interrupted"}

\* The qualification a call remembers.
Kepts == [stage : {None, "compile", "review", "smoke"}, src : Sources \cup {None},
          bin : Ids \cup {None}]

Attempts == [source : Sources, status : Statuses,
             stage : {"compile", "review", "smoke", "complete"},
             harness : Ids \cup {None}, run : Runs \cup {None}, kept : Kepts]

ASSUME OrdersAssumption == None \notin Attempts

VARIABLES
    attempt,  \* harness_work_order_attempts
    owner,    \* who holds each attempt's file lock
    kept,     \* the stage and digests the qualifying call keeps in memory
    listed    \* running attempts a starting process has read, not yet visited

orders == <<attempt, owner, kept, listed>>

allVars == <<vars, orders>>

Attempt(s, status, stage, h, r, k) ==
    [source |-> s, status |-> status, stage |-> stage, harness |-> h, run |-> r,
     kept |-> k]

Nothing == [stage |-> None, src |-> None, bin |-> None]

OrdersInit ==
    /\ attempt = [a \in Tasks |-> None]
    /\ owner = [a \in Tasks |-> None]
    /\ kept = [c \in Clients |-> Nothing]
    /\ listed = {}

WorkOrdersInit == Init /\ OrdersInit

Running(a) == attempt[a] # None /\ attempt[a].status = "running"

\* The UPDATE of a transition or a completion names the stage it expects.
InStage(a, stage) == Running(a) /\ attempt[a].stage = stage

Let(c) == /\ owner' = [a \in Tasks |-> IF owner[a] = c THEN None ELSE owner[a]]
          /\ kept' = [kept EXCEPT ![c] = Nothing]

\* The call returns, and its lock with it.
Return(c) == Goto(c, Idle) /\ Let(c)

-----------------------------------------------------------------------------
(* qualify_harness_work_order_submission.                                   *)

\* The preflight only reads; the lock of a new identifier is taken before the
\* attempt exists.
Qualify(c, a, s) ==
    /\ op[c].at = "idle"
    /\ attempt[a] = None
    /\ owner[a] = None
    /\ owner' = [owner EXCEPT ![a] = c]
    /\ Goto(c, [Idle EXCEPT !.at = "insert", !.task = a, !.src = s])
    /\ UNCHANGED <<files, tables, built, lease, left, attempt, kept, listed>>

InsertAttempt(c) ==
    LET a == op[c].task IN
    /\ op[c].at = "insert"
    /\ attempt' = [attempt EXCEPT ![a] =
          Attempt(op[c].src, "running", "compile", None, None, Nothing)]
    /\ Goto(c, [op[c] EXCEPT !.at = "queued"])
    /\ UNCHANGED <<files, tables, built, lease, left, owner, kept, listed>>

InsertFails(c) ==
    /\ op[c].at = "insert"
    /\ Spend({"write"})
    /\ Return(c)
    /\ UNCHANGED <<files, tables, built, lease, attempt, listed>>

StartCompile(c) ==
    /\ op[c].at = "queued"
    /\ CompileAs(c, "queued", op[c].task, op[c].src)
    /\ kept' = [kept EXCEPT ![c].stage = "compile"]
    /\ UNCHANGED <<attempt, owner, listed>>

\* The revision lease is another process's, or the policy, the lint or the
\* staging refuses the compile before anything is built.
CompileRefused(c) ==
    /\ op[c].at = "queued"
    /\ Goto(c, [op[c] EXCEPT !.at = "failed"])
    /\ kept' = [kept EXCEPT ![c].stage = "compile"]
    /\ UNCHANGED <<files, tables, built, lease, left, attempt, owner, listed>>

\* transition_harness_work_order_attempt: the harness identifier is set once.
Advance(c, from, to, at) ==
    LET a == op[c].task IN
    /\ InStage(a, from)
    /\ attempt' = [attempt EXCEPT ![a] =
          Attempt(@.source, "running", to,
                  IF @.harness = None THEN op[c].id ELSE @.harness, None, Nothing)]
    /\ Goto(c, [op[c] EXCEPT !.at = at])
    /\ kept' = [kept EXCEPT ![c] =
          [stage |-> to, src |-> IF to = "smoke" THEN op[c].src ELSE None,
           bin |-> op[c].bin]]
    /\ UNCHANGED <<files, tables, built, lease, left, owner, listed>>

CompileDone(c) == op[c].at = "compiled" /\ Advance(c, "compile", "review", "review_only")

\* Mutant: the smoke takes whatever revision is active, not the attempt's.
ReviewDoneAny(c) ==
    /\ op[c].at = "reviewed"
    /\ \E i \in Ids :
          /\ ActiveIs(i)
          /\ Goto(c, [op[c] EXCEPT !.at = "review", !.id = i])
    /\ InStage(op[c].task, "review")
    /\ attempt' = [attempt EXCEPT ![op[c].task] =
          Attempt(@.source, "running", "smoke", @.harness, None, Nothing)]
    /\ kept' = [kept EXCEPT ![c] = [stage |-> "smoke", src |-> op[c].src, bin |-> op[c].bin]]
    /\ UNCHANGED <<files, tables, built, lease, left, owner, listed>>

\* The digests of the first review are what the attempt will record; the smoke
\* makes sure of the review once more and takes the lease again.
ReviewDone(c) == op[c].at = "reviewed" /\ Advance(c, "review", "smoke", "review")

Complete(c, a, status, r) ==
    attempt' = [attempt EXCEPT ![a] =
        Attempt(@.source, status, "complete",
                IF @.harness = None /\ kept[c].stage # "compile"
                  THEN op[c].id ELSE @.harness, r, kept[c])]

SmokeDone(c) ==
    LET a == op[c].task IN
    /\ op[c].at = "smoked"
    /\ InStage(a, "smoke")
    /\ Complete(c, a, "smoke_passed", op[c].run)
    /\ Return(c)
    /\ UNCHANGED <<files, tables, built, lease, left, listed>>

FailedStatus(stage) ==
    CASE stage = "compile" -> "compile_failed"
      [] stage = "review" -> "review_failed"
      [] OTHER -> "smoke_failed"

CompleteFailed(c) ==
    LET a == op[c].task IN
    /\ op[c].at = "failed"
    /\ InStage(a, kept[c].stage)
    /\ Complete(c, a, FailedStatus(kept[c].stage), op[c].run)
    /\ Return(c)
    /\ UNCHANGED <<files, tables, built, lease, left, listed>>

\* Mutant: the attempt of a storage error is taken for finished elsewhere, and
\* keeps its lock.
LeaveRunningOwned(c) ==
    /\ op[c].at = "storage"
    /\ Goto(c, Idle)
    /\ UNCHANGED <<files, tables, built, lease, left, orders>>

\* complete_failed_attempt gives a storage error back without completing.
LeaveRunning(c) ==
    /\ op[c].at = "storage"
    /\ Return(c)
    /\ UNCHANGED <<files, tables, built, lease, left, attempt, listed>>

\* The attempt's own statement fails, or its row is no longer as expected.
AttemptWriteFails(c) ==
    LET a == op[c].task IN
    /\ op[c].at \in {"compiled", "reviewed", "smoked", "failed"}
    /\ \/ Spend({"write"})
       \/ ~Running(a) /\ UNCHANGED left
    /\ Return(c)
    /\ UNCHANGED <<files, tables, built, lease, attempt, listed>>

-----------------------------------------------------------------------------
(* recover_harness_work_order_attempts, by any process that starts.         *)

RecoverList ==
    /\ listed = {}
    /\ listed' = {a \in Tasks : Running(a)}
    /\ listed' # {}
    /\ UNCHANGED <<vars, attempt, owner, kept>>

\* Mutant: the UPDATE does not ask for a running attempt.
InterruptAny(a) ==
    attempt' = [attempt EXCEPT ![a] =
        Attempt(@.source, "interrupted", "complete", @.harness, @.run, @.kept)]

\* The statement changes a running attempt only: it may have ended since it
\* was listed.
Interrupt(a) ==
    attempt' = [attempt EXCEPT ![a] =
        IF Running(a)
          THEN Attempt(@.source, "interrupted", "complete", @.harness, @.run, @.kept)
          ELSE @]

\* Mutant: recovery does not ask for the lock.
RecoverOneBlind(a) ==
    /\ a \in listed
    /\ Interrupt(a)
    /\ listed' = listed \ {a}
    /\ UNCHANGED <<vars, owner, kept>>

RecoverOne(a) ==
    /\ a \in listed
    /\ IF owner[a] = None THEN Interrupt(a) ELSE UNCHANGED attempt
    /\ listed' = listed \ {a}
    /\ UNCHANGED <<vars, owner, kept>>

\* A lock or a statement fails: the pass ends, and the process refuses work
\* order operations until another start.
RecoverFails ==
    /\ listed # {}
    /\ Spend({"write"})
    /\ listed' = {}
    /\ UNCHANGED <<files, tables, built, lease, op, attempt, owner, kept>>

-----------------------------------------------------------------------------
(* promote_harness_work_order_attempt: read without a lease, then promoted  *)
(* by exact digests.                                                        *)

\* Mutant: neither the attempt's verdict nor its run is looked at.
PromotionEvidenceAnyRun(a) ==
    LET t == attempt[a]
        h == t.harness IN
    /\ t.status = "smoke_passed"
    /\ row[h].smoke # None
    /\ row[h].smoke.result = "clean"
    /\ row[h].smoke.source = t.kept.src
    /\ row[h].smoke.binary = t.kept.bin

\* PromotionEvidence::from_attempt and validate_retained_promotion_harness.
PromotionEvidence(a) ==
    LET t == attempt[a]
        h == t.harness IN
    /\ t.status = "smoke_passed"
    /\ run[t.run].result # "crashes"
    /\ row[h].status \in {"smoke_passed", "promoted"}
    /\ row[h].smoke # None
    /\ row[h].smoke.result = "clean"
    /\ row[h].smoke.run = t.run
    /\ row[h].smoke.source = t.kept.src
    /\ row[h].smoke.binary = t.kept.bin
    /\ row[h].source = t.kept.src

PromoteAttempt(c, a) ==
    /\ op[c].at = "idle"
    /\ attempt[a] # None
    /\ PromotionEvidence(a)
    /\ Goto(c, [Idle EXCEPT !.at = "promote", !.id = attempt[a].harness,
                !.src = attempt[a].kept.src, !.bin = attempt[a].kept.bin])
    /\ UNCHANGED <<files, tables, built, lease, left, orders>>

-----------------------------------------------------------------------------
\* A dropped call gives back both locks and leaves its attempt running.
DropAttempt(c) == Drop(c) /\ Let(c) /\ UNCHANGED <<attempt, listed>>

\* The workspace steps: an attempt's own, and other callers' on the target.
Workspace(c) ==
    /\ Step(c) \/ Compile(c) \/ StartSmoke(c)
    /\ UNCHANGED orders

Own(c) ==
    \/ InsertAttempt(c) \/ InsertFails(c) \/ StartCompile(c) \/ CompileRefused(c)
    \/ CompileDone(c) \/ ReviewDone(c) \/ SmokeDone(c)
    \/ CompleteFailed(c) \/ LeaveRunning(c) \/ AttemptWriteFails(c)

Recover == (\E a \in Tasks : RecoverOne(a)) \/ RecoverFails

WorkOrdersNext ==
    \/ \E c \in Clients :
          \/ Workspace(c) \/ Own(c) \/ DropAttempt(c)
          \/ \E a \in Tasks : PromoteAttempt(c, a) \/ \E s \in Sources : Qualify(c, a, s)
    \/ RecoverList \/ Recover

\* A call goes on.
Going(c) == (Step(c) /\ UNCHANGED orders) \/ Own(c)

-----------------------------------------------------------------------------
WorkOrdersSpec == WorkOrdersInit /\ [][WorkOrdersNext]_allVars

\* The attempts, their locks and the memory of the calls have their shapes,
\* and a row is complete exactly when it is not running.
OrdersTypeOK ==
    /\ attempt \in [Tasks -> Attempts \cup {None}]
    /\ owner \in [Tasks -> Clients \cup {None}]
    /\ kept \in [Clients -> Kepts]
    /\ listed \subseteq Tasks
    /\ \A a \in Tasks : attempt[a] # None =>
          (attempt[a].stage = "complete" <=> attempt[a].status # "running")

\* A passed attempt is evidence about its own submission: it names a finished
\* smoke run of the revision it compiled, from the submitted source, with the
\* digests its review saw (qualify_harness_work_order_submission), although
\* other callers compile and smoke the target between its stages.
PassedIsItsOwn ==
    \A a \in Tasks : attempt[a] # None /\ attempt[a].status = "smoke_passed" =>
        LET t == attempt[a]
            r == run[t.run] IN
        /\ r.kind = "smoke" /\ r.status = "done"
        /\ r.harness = t.harness
        /\ r.source = t.source
        /\ r.source = t.kept.src /\ r.binary = t.kept.bin
        /\ built[t.harness] = t.source

\* Recovery never interrupts an attempt somebody is still working on
\* (recover_harness_work_order_attempts: "unowned" attempts).
InterruptedHasNoOwner ==
    \A a \in Tasks : attempt[a] # None /\ attempt[a].status = "interrupted" =>
        /\ owner[a] = None
        /\ \A c \in Clients : op[c].task # a

AttemptsAreEvidence == PassedIsItsOwn /\ InterruptedHasNoOwner

\* An attempt showed these bytes of the revision clean.
ShownClean(i, s, b) ==
    \E a \in Tasks :
        /\ attempt[a] # None
        /\ attempt[a].status = "smoke_passed"
        /\ attempt[a].harness = i
        /\ attempt[a].source = s
        /\ attempt[a].kept.bin = b
        /\ run[attempt[a].run].result = "clean"

\* What is approved through a work order is what one of its attempts showed
\* clean: the submitted source and the very binary, although the evidence is
\* read without a lease and promoted in a later one
\* (promote_harness_work_order_attempt).
ApprovedAsAttempted ==
    \A p \in approval : ShownClean(p.harness, p.source, p.binary)

\* An attempt that ended keeps its outcome: a late call and a recovery pass
\* that listed it earlier change nothing.
EndedStays ==
    \A a \in Tasks : attempt[a] # None /\ attempt[a].status # "running" =>
        attempt'[a] = attempt[a]

-----------------------------------------------------------------------------
(* The inductive invariant: what an attempt, and the call that works on it, *)
(* rest on, beside the records of the workspace.                            *)

\* A review speaks of the source its revision was built from.
ReviewRests(i) == review[i] # None => review[i].source = built[i]

PassedRests(a) ==
    LET t == attempt[a]
        r == run[t.run] IN
    /\ t.harness \in Ids /\ t.run \in Runs
    /\ r # None
    /\ r.kind = "smoke" /\ r.status = "done"
    /\ r.harness = t.harness
    /\ r.source = t.source /\ t.kept.src = t.source
    /\ r.binary = t.kept.bin
    /\ built[t.harness] = t.source

AttemptRests(a) ==
    attempt[a] # None =>
        /\ attempt[a].status = "smoke_passed" => PassedRests(a)
        /\ attempt[a].status = "interrupted" => owner[a] = None

\* The attempt is in a stage, about the revision the call has.
At(c, stage) ==
    LET a == op[c].task IN
    /\ attempt[a].stage = stage
    /\ op[c].id \in Ids
    /\ built[op[c].id] = attempt[a].source
    /\ attempt[a].harness = IF stage = "compile" THEN None ELSE op[c].id

\* Where only the call of an attempt comes.
Asked == {"insert", "queued", "compiled", "review_only", "reviewed", "smoked", "failed",
          "storage"}

\* What a call has established about its attempt before the step it is at.
TaskRests(c) ==
    LET o == op[c]
        a == o.task IN
    /\ o.at \in Asked => a # None
    /\ a # None =>
        /\ owner[a] = c
        /\ IF o.at = "insert" THEN attempt[a] = None /\ o.src \in Sources ELSE Running(a)
        /\ o.at \in {"queued"} \cup Building =>
              /\ attempt[a].stage = "compile"
              /\ attempt[a].harness = None
              /\ attempt[a].source = o.src
        /\ o.at = "compiled" => At(c, "compile")
        /\ o.at \in {"review_only", "reviewed"} => At(c, "review")
        /\ o.at = "reviewed" => Allows(o.id, o.src, o.bin)
        /\ o.at \in {"review", "smoke", "smoking", "save", "smoked"} =>
              At(c, "smoke") /\ Allows(o.id, kept[c].src, kept[c].bin)
        /\ o.at = "smoked" =>
              /\ o.run \in Runs
              /\ run[o.run] # None
              /\ run[o.run].kind = "smoke" /\ run[o.run].status = "done"
              /\ run[o.run].harness = o.id

PromoteRests(c) ==
    op[c].at = "promote" => ShownClean(op[c].id, op[c].src, op[c].bin)

OrdersInv ==
    /\ IndInv
    /\ OrdersTypeOK
    /\ \A i \in Ids : ReviewRests(i)
    /\ \A a \in Tasks : AttemptRests(a)
    /\ \A c \in Clients : TaskRests(c) /\ PromoteRests(c)
    /\ ApprovedAsAttempted
=============================================================================
