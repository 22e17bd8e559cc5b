-------------------------- MODULE HarnessRevision --------------------------
(***************************************************************************)
(* One target's harness workspace and the records that qualify it          *)
(* (hf-service container/harness.rs, policy.rs, run.rs, mod.rs).           *)
(*                                                                         *)
(* The workspace holds three files: the compiled binary, harness.source    *)
(* and the marker harness.active naming the revision.  The database holds  *)
(* the revisions, the reviews, the runs and the approvals.  Compile,       *)
(* review, smoke, promotion, campaign and revert each hold the target      *)
(* revision lease, but a smoke or a promotion takes it more than once and  *)
(* an operation may die between two writes: the question is which binary   *)
(* is then run, under whose review.                                        *)
(*                                                                         *)
(* A binary is identified by the revision whose build produced it: two     *)
(* builds have different digests.  A source stands for its own digest.     *)
(***************************************************************************)
EXTENDS Naturals

CONSTANTS
    Clients,     \* calls in flight, of any process
    Sources,     \* harness sources
    MaxId,       \* revisions compiled
    MaxRun,      \* runs started
    Tasks,       \* callers that take several operations as one (work order attempts)
    Results,     \* how a smoke run may come out
    Faults,      \* kinds of failure
    Budget,      \* how many of each may happen
    None

Ids == 1..MaxId

Runs == 1..MaxRun

Smokes == [result : Results, source : Sources, binary : Ids, run : Runs]

Rows == [source : Sources, status : {"compiled", "smoke_passed", "failed", "promoted"},
         smoke : Smokes \cup {None}]

\* A marked bypass allows the run as an approving opinion does.
Verdicts == {"allowed", "refused"}

Reviews == [source : Sources, binary : Ids, verdict : Verdicts]

RunRows == [kind : {"smoke", "campaign"}, status : {"running", "done", "failed"},
            harness : Ids, source : Sources, binary : Ids, result : Results \cup {None}]

Approvals == [harness : Ids, source : Sources, binary : Ids,
              kind : {"clean_smoke", "known_findings"}]

Files == [id : Ids \cup {None}, src : Sources \cup {None}, bin : Ids \cup {None}]

ASSUME RevisionAssumption ==
    /\ MaxId \in Nat
    /\ MaxRun \in Nat
    /\ Results \subseteq {"clean", "crashes", "unviable"}
    /\ Budget \in [Faults -> Nat]
    /\ None \notin Clients \cup Sources \cup Nat \cup Tasks \cup Results
    /\ None \notin Smokes \cup Rows \cup Reviews \cup RunRows \cup Files

VARIABLES
    bin,       \* the compiled binary in the workspace
    src,       \* harness.source
    active,    \* harness.active
    row,       \* the harnesses table
    review,    \* harness_ai_reviews
    run,       \* the runs table
    approval,  \* harness_approvals
    built,     \* the source each revision's build was given (id allocation)
    lease,     \* the target revision lease
    op,        \* the operation each client is in
    left       \* failures left

files == <<bin, src, active>>

tables == <<row, review, run, approval>>

vars == <<bin, src, active, row, review, run, approval, built, lease, op, left>>

Smoke(result, s, b, r) == [result |-> result, source |-> s, binary |-> b, run |-> r]

Row(s, status, smoke) == [source |-> s, status |-> status, smoke |-> smoke]

Run(kind, status, i, s, b, result) ==
    [kind |-> kind, status |-> status, harness |-> i, source |-> s,
     binary |-> b, result |-> result]

Idle ==
    [at |-> "idle", task |-> None, id |-> None, src |-> None, bin |-> None,
     run |-> None, back |-> None]

Init ==
    /\ bin = None
    /\ src = None
    /\ active = None
    /\ row = [i \in Ids |-> None]
    /\ review = [i \in Ids |-> None]
    /\ run = [r \in Runs |-> None]
    /\ approval = {}
    /\ built = [i \in Ids |-> None]
    /\ lease = None
    /\ op = [c \in Clients |-> Idle]
    /\ left = Budget

Spend(S) ==
    \E f \in S \cap Faults :
        /\ left[f] > 0
        /\ left' = [left EXCEPT ![f] = @ - 1]

NextId(i) ==
    /\ built[i] = None
    /\ \A j \in 1..(i - 1) : built[j] # None

NextRun(r) ==
    /\ run[r] = None
    /\ \A q \in 1..(r - 1) : run[q] # None

-----------------------------------------------------------------------------
(* Which revision is active, and what is checked before it is used.        *)

Rank(status) ==
    CASE status = "promoted" -> 4
      [] status = "smoke_passed" -> 3
      [] status = "compiled" -> 2
      [] OTHER -> 0

\* active_harness_for_target_locked: the marker decides; a workspace without
\* one is resolved by its source, best status first.
ActiveIs(i) ==
    /\ src # None
    /\ row[i] # None
    /\ row[i].source = src
    /\ \/ active = i
       \/ /\ active = None
          /\ \A j \in Ids : row[j] # None /\ row[j].source = src =>
                Rank(row[j].status) <= Rank(row[i].status)

Runnable(i) ==
    /\ ActiveIs(i)
    /\ row[i].status \in {"compiled", "smoke_passed", "promoted"}
    /\ bin # None

\* Mutant: the binary on disk is not compared with the qualified digest.
VerifiedRecord(i) ==
    /\ row[i].smoke # None
    /\ src = row[i].smoke.source
    /\ run[row[i].smoke.run].status = "done"

\* verify_harness_qualification_files_locked and _record.
Verified(i) ==
    /\ row[i].smoke # None
    /\ src = row[i].smoke.source
    /\ bin = row[i].smoke.binary
    /\ LET r == run[row[i].smoke.run] IN
          /\ r.status = "done"
          /\ r.harness = i
          /\ r.source = row[i].smoke.source
          /\ r.binary = row[i].smoke.binary

\* The review record binds the bytes about to run.
ReviewBinds(i) ==
    /\ review[i].source = row[i].source
    /\ review[i].binary = bin
    /\ review[i].verdict # "refused"

Goto(c, o) == op' = [op EXCEPT ![c] = o]

\* An operation ends; a caller with a task reads the result, another does not.
Finish(c, result) ==
    Goto(c, IF op[c].task = None THEN Idle ELSE [op[c] EXCEPT !.at = result])

Release(c, result) == Finish(c, result) /\ lease' = None

-----------------------------------------------------------------------------
(* harness_compile: one leased section, five effects.                       *)

CompileAs(c, from, t, s) ==
    /\ op[c].at = from
    /\ lease = None
    /\ \E i \in Ids :
          /\ NextId(i)
          /\ built' = [built EXCEPT ![i] = s]
          /\ Goto(c, [Idle EXCEPT !.at = "build", !.task = t, !.id = i, !.src = s])
    /\ lease' = c
    /\ UNCHANGED <<files, tables, left>>

Compile(c) == \E s \in Sources : CompileAs(c, "idle", None, s)

\* The sandbox copies the binary into the workspace.
Build(c) ==
    /\ op[c].at = "build"
    /\ bin' = op[c].id
    /\ Goto(c, [op[c] EXCEPT !.at = "upsert"])
    /\ UNCHANGED <<src, active, tables, built, lease, left>>

\* Mutant: the compiler writes its output in place and fails after it.
BuildFailsInPlace(c) ==
    /\ op[c].at = "build"
    /\ bin' = op[c].id
    /\ Release(c, "failed")
    /\ UNCHANGED <<src, active, tables, built, left>>

\* The compiler refuses the source: the workspace keeps its binary.
BuildFails(c) ==
    /\ op[c].at = "build"
    /\ Release(c, "failed")
    /\ UNCHANGED <<files, tables, built, left>>

\* compile_source_with_repair_locked: the model rewrites the refused source and
\* the next round, in the same lease, builds it as another revision.
BuildRepaired(c) ==
    /\ op[c].at = "build"
    /\ op[c].task = None
    /\ \E i \in Ids, s \in Sources :
          /\ NextId(i)
          /\ built' = [built EXCEPT ![i] = s]
          /\ Goto(c, [op[c] EXCEPT !.id = i, !.src = s])
    /\ UNCHANGED <<files, tables, lease, left>>

\* The main binary is built, then the CmpLog companion or the managed mutator
\* is not: the operation fails and the new binary stays.
CompanionFails(c) ==
    /\ op[c].at = "build"
    /\ Spend({"companion"})
    /\ bin' = op[c].id
    /\ Release(c, "failed")
    /\ UNCHANGED <<src, active, tables, built>>

UpsertCompiled(c) ==
    /\ op[c].at = "upsert"
    /\ row' = [row EXCEPT ![op[c].id] = Row(op[c].src, "compiled", None)]
    /\ Goto(c, [op[c] EXCEPT !.at = "source"])
    /\ UNCHANGED <<files, review, run, approval, built, lease, left>>

WriteSource(c) ==
    /\ op[c].at = "source"
    /\ src' = op[c].src
    /\ Goto(c, [op[c] EXCEPT !.at = "marker"])
    /\ UNCHANGED <<bin, active, tables, built, lease, left>>

WriteMarker(c) ==
    /\ op[c].at = "marker"
    /\ active' = op[c].id
    /\ Release(c, "compiled")
    /\ UNCHANGED <<bin, src, tables, built, left>>

\* A statement or a file write of the section fails: the error returns as is.
CompileWriteFails(c) ==
    /\ op[c].at \in {"upsert", "source", "marker"}
    /\ Spend({"write"})
    /\ Release(c, IF op[c].at = "upsert" THEN "storage" ELSE "failed")
    /\ UNCHANGED <<files, tables, built>>

-----------------------------------------------------------------------------
(* harness_review_exact, then harness_smoke_locked in a lease of its own.   *)

\* harness_smoke: the active revision is read in a lease that is given back.
StartSmoke(c) ==
    /\ op[c].at = "idle"
    /\ lease = None
    /\ \E i \in Ids :
          /\ ActiveIs(i)
          /\ Goto(c, [Idle EXCEPT !.at = "review", !.id = i])
    /\ UNCHANGED <<files, tables, built, lease, left>>

\* The outcome of a review carries the digests it was made for; a smoke goes
\* on with them, a caller that asked for the review alone gets them back.
Reviewed(c) ==
    LET o == [op[c] EXCEPT !.src = row[op[c].id].source, !.bin = bin] IN
    Goto(c, [o EXCEPT !.at = IF op[c].at = "review" THEN "smoke" ELSE "reviewed"])

InReview(c) ==
    /\ op[c].at \in {"review", "review_only"}
    /\ lease = None

ReviewReused(c) ==
    LET i == op[c].id IN
    /\ InReview(c)
    /\ Runnable(i)
    /\ review[i] # None
    /\ ReviewBinds(i)
    /\ Reviewed(c)
    /\ UNCHANGED <<files, tables, built, lease, left>>

\* The model's opinion, or the operator's marked bypass, is recorded and then
\* enforced.
ReviewMade(c, verdict) ==
    LET i == op[c].id IN
    /\ InReview(c)
    /\ Runnable(i)
    /\ review[i] = None
    /\ review' = [review EXCEPT ![i] =
          [source |-> row[i].source, binary |-> bin, verdict |-> verdict]]
    /\ IF verdict = "refused" THEN Finish(c, "failed") ELSE Reviewed(c)
    /\ UNCHANGED <<files, row, run, approval, built, lease, left>>

\* The revision is no longer the active one, its record does not bind, no
\* provider answers, or the record cannot be written.
ReviewFails(c) ==
    LET i == op[c].id IN
    /\ InReview(c)
    /\ Runnable(i) /\ review[i] # None => ~ReviewBinds(i)
    /\ Finish(c, "failed")
    /\ UNCHANGED <<files, tables, built, lease, left>>

\* Mutant: the revision is compared, the binary is not hashed again.
SmokeAdmitsById(c) == Runnable(op[c].id) /\ src = op[c].src

\* The leased section re-reads the active revision and both files.
SmokeAdmits(c) ==
    LET i == op[c].id IN
    /\ Runnable(i)
    /\ src = op[c].src
    /\ bin = op[c].bin

SmokeStarts(c) ==
    LET i == op[c].id IN
    /\ op[c].at = "smoke"
    /\ lease = None
    /\ SmokeAdmits(c)
    /\ \E r \in Runs :
          /\ NextRun(r)
          /\ run' = [run EXCEPT ![r] = Run("smoke", "running", i, src, bin, None)]
          /\ Goto(c, [op[c] EXCEPT !.at = "smoking", !.run = r])
    /\ lease' = c
    /\ UNCHANGED <<files, row, review, approval, built, left>>

\* Also the policy, the build profile or the insert of the run may refuse.
SmokeRefused(c) ==
    /\ op[c].at = "smoke"
    /\ lease = None
    /\ Finish(c, "failed")
    /\ UNCHANGED <<files, tables, built, lease, left>>

SetRun(r, status, result) ==
    run' = [run EXCEPT ![r] =
        Run(@.kind, status, @.harness, @.source, @.binary, result)]

\* The run ends before the revision records it.
SmokeRan(c, result) ==
    /\ op[c].at = "smoking"
    /\ SetRun(op[c].run, "done", result)
    /\ Goto(c, [op[c] EXCEPT !.at = "save"])
    /\ UNCHANGED <<files, row, review, approval, built, lease, left>>

\* No activity, an output overflow or a storage failure: the run is failed.
SmokeFails(c) ==
    /\ op[c].at = "smoking"
    /\ SetRun(op[c].run, "failed", None)
    /\ Release(c, "failed")
    /\ UNCHANGED <<files, row, review, approval, built, left>>

\* Mutant: a smoke of a promoted revision keeps it promoted.
SmokeSavedKeeps(c) ==
    LET i == op[c].id
        r == run[op[c].run] IN
    /\ op[c].at = "save"
    /\ row' = [row EXCEPT ![i] =
          Row(@.source, IF @.status = "promoted" THEN "promoted" ELSE "smoke_passed",
              Smoke(r.result, r.source, r.binary, op[c].run))]
    /\ Release(c, "smoked")
    /\ UNCHANGED <<files, review, run, approval, built, left>>

\* A crash during smoke does not make the harness failed; a custom mutator
\* that was not exercised does.
SmokeSaved(c) ==
    LET i == op[c].id
        r == run[op[c].run] IN
    /\ op[c].at = "save"
    /\ row' = [row EXCEPT ![i] =
          Row(@.source, IF r.result = "unviable" THEN "failed" ELSE "smoke_passed",
              Smoke(r.result, r.source, r.binary, op[c].run))]
    /\ Release(c, "smoked")
    /\ UNCHANGED <<files, review, run, approval, built, left>>

SmokeSaveFails(c) ==
    /\ op[c].at = "save"
    /\ Spend({"write"})
    /\ Release(c, "storage")
    /\ UNCHANGED <<files, tables, built>>

-----------------------------------------------------------------------------
(* Promotion: the evidence is read in one lease and promoted in another.    *)

StartPromote(c) ==
    /\ op[c].at = "idle"
    /\ lease = None
    /\ \E i \in Ids :
          /\ ActiveIs(i)
          /\ row[i].smoke # None
          /\ Goto(c, [Idle EXCEPT !.at = "promote", !.id = i,
                      !.src = row[i].smoke.source, !.bin = row[i].smoke.binary])
    /\ UNCHANGED <<files, tables, built, lease, left>>

Approve(i, kind) ==
    /\ row' = [row EXCEPT ![i] = Row(@.source, "promoted", @.smoke)]
    /\ approval' = approval \cup
          {[harness |-> i, source |-> row[i].smoke.source,
            binary |-> row[i].smoke.binary, kind |-> kind]}

\* Mutant: a smoke with crashes is promoted as clean.
PromoteAdmitsCrashes(c) ==
    LET i == op[c].id IN
    /\ ActiveIs(i)
    /\ row[i].status = "smoke_passed"
    /\ Verified(i)

\* require_expected_promotion, the clean smoke and the qualified files.
PromoteAdmits(c) ==
    LET i == op[c].id IN
    /\ ActiveIs(i)
    /\ row[i].smoke # None
    /\ row[i].smoke.source = op[c].src
    /\ row[i].smoke.binary = op[c].bin
    /\ row[i].status = "smoke_passed"
    /\ row[i].smoke.result = "clean"
    /\ Verified(i)

Promote(c) ==
    /\ op[c].at = "promote"
    /\ lease = None
    /\ PromoteAdmits(c)
    /\ Approve(op[c].id, "clean_smoke")
    /\ Finish(c, "promoted")
    /\ UNCHANGED <<files, review, run, built, lease, left>>

\* Also the approval, behaviour and target-entry gates, which may refuse.
PromoteFails(c) ==
    /\ op[c].at = "promote"
    /\ lease = None
    /\ Finish(c, "failed")
    /\ UNCHANGED <<files, tables, built, lease, left>>

\* harness_promote_with_findings: one lease; a retry finds its own approval.
PromoteWithFindings(c) ==
    /\ op[c].at = "idle"
    /\ lease = None
    /\ \E i \in Ids :
          /\ ActiveIs(i)
          /\ Verified(i)
          /\ row[i].smoke.result = "crashes"
          /\ row[i].status \in {"smoke_passed", "promoted"}
          /\ Approve(i, "known_findings")
    /\ UNCHANGED <<files, review, run, built, lease, op, left>>

-----------------------------------------------------------------------------
(* A campaign keeps the lease while it runs; an automatic revert takes it   *)
(* again afterwards.                                                        *)

StartCampaign(c) ==
    /\ op[c].at = "idle"
    /\ lease = None
    /\ \E i \in Ids, r \in Runs :
          /\ ActiveIs(i)
          /\ row[i].status = "promoted"
          /\ Verified(i)
          /\ NextRun(r)
          /\ run' = [run EXCEPT ![r] = Run("campaign", "running", i, src, bin, None)]
          /\ Goto(c, [Idle EXCEPT !.at = "campaign", !.id = i, !.src = src,
                      !.bin = bin, !.run = r])
    /\ lease' = c
    /\ UNCHANGED <<files, row, review, approval, built, left>>

CampaignEnds(c, status) ==
    /\ op[c].at = "campaign"
    /\ SetRun(op[c].run, status, None)
    /\ Release(c, "done")
    /\ UNCHANGED <<files, row, review, approval, built, left>>

\* maybe_auto_revert: coverage fell against an earlier campaign of another
\* source.  back is the revision the campaign ran.
CampaignRegressed(c) ==
    /\ op[c].at = "campaign"
    /\ \E r \in 1..(op[c].run - 1) :
          /\ run[r] # None
          /\ run[r].kind = "campaign"
          /\ run[r].status = "done"
          /\ run[r].source # op[c].src
          /\ Goto(c, [Idle EXCEPT !.at = "revert", !.run = r,
                      !.back = [id |-> op[c].id, src |-> op[c].src, bin |-> op[c].bin]])
    /\ SetRun(op[c].run, "done", None)
    /\ lease' = None
    /\ UNCHANGED <<files, row, review, approval, built, left>>

\* The manual revert expects nothing of the active revision.
StartRevert(c) ==
    /\ op[c].at = "idle"
    /\ \E r \in Runs :
          /\ run[r] # None
          /\ Goto(c, [Idle EXCEPT !.at = "revert", !.run = r])
    /\ UNCHANGED <<files, tables, built, lease, left>>

\* The run's revision is read before the lease is taken.
RevertAdmits(c) ==
    LET r == run[op[c].run] IN
    /\ row[r.harness].status = "promoted"
    /\ row[r.harness].smoke.source = r.source
    /\ row[r.harness].smoke.binary = r.binary

RevertRead(c) ==
    LET r == run[op[c].run] IN
    /\ op[c].at = "revert"
    /\ IF RevertAdmits(c)
         THEN Goto(c, [op[c] EXCEPT !.at = "restore", !.id = r.harness,
                       !.src = r.source, !.bin = r.binary])
         ELSE Finish(c, "failed")
    /\ UNCHANGED <<files, tables, built, lease, left>>

\* Mutant: the automatic revert does not look at the active revision.
AlwaysCurrent(c) == TRUE

\* An automatic revert replaces only the revision its campaign ran.
StillCurrent(c) ==
    LET b == op[c].back IN
    b # None =>
        /\ ActiveIs(b.id)
        /\ row[b.id].smoke.source = b.src
        /\ row[b.id].smoke.binary = b.bin
        /\ Verified(b.id)

RestoreBinary(c) ==
    /\ op[c].at = "restore"
    /\ lease = None
    /\ StillCurrent(c)
    /\ bin' = op[c].bin
    /\ lease' = c
    /\ Goto(c, [op[c] EXCEPT !.at = "restore_source",
                !.back = [id |-> active, src |-> src, bin |-> bin]])
    /\ UNCHANGED <<src, active, tables, built, left>>

RestoreRefused(c) ==
    /\ op[c].at = "restore"
    /\ lease = None
    /\ Finish(c, "failed")
    /\ UNCHANGED <<files, tables, built, lease, left>>

RestoreSource(c) ==
    /\ op[c].at = "restore_source"
    /\ src' = op[c].src
    /\ Goto(c, [op[c] EXCEPT !.at = "restore_marker"])
    /\ UNCHANGED <<bin, active, tables, built, lease, left>>

RestoreMarker(c) ==
    /\ op[c].at = "restore_marker"
    /\ active' = op[c].id
    /\ Release(c, "done")
    /\ UNCHANGED <<bin, src, tables, built, left>>

\* A write fails: every file is put back as far as that works.
RestoreFails(c) ==
    LET b == op[c].back IN
    /\ op[c].at \in {"restore_source", "restore_marker"}
    /\ Spend({"write"})
    /\ bin' \in {bin, b.bin}
    /\ src' \in {src} \cup ({b.src} \ {None})
    /\ active' \in {active} \cup ({b.id} \ {None})
    /\ Release(c, "failed")
    /\ UNCHANGED <<tables, built>>

-----------------------------------------------------------------------------
(* What ends an operation from outside.                                     *)

Waiting == {"review", "review_only", "smoke", "promote", "restore"}

\* Another process holds the file lock: the call is refused, not queued.
LeaseBusy(c) ==
    /\ op[c].at \in Waiting
    /\ lease # None
    /\ Finish(c, "failed")
    /\ UNCHANGED <<files, tables, built, lease, left>>

\* The process dies or the caller drops the future.  A run it leaves running
\* is failed by the run journal, which no check here tells apart.
Drop(c) ==
    /\ op[c].at # "idle"
    /\ Spend({"drop"})
    /\ Goto(c, Idle)
    /\ lease' = IF lease = c THEN None ELSE lease
    /\ UNCHANGED <<files, tables, built>>

-----------------------------------------------------------------------------
\* The steps that carry an operation to its end.
Step(c) ==
    \/ Build(c) \/ BuildFails(c) \/ BuildRepaired(c) \/ CompanionFails(c)
    \/ UpsertCompiled(c) \/ WriteSource(c) \/ WriteMarker(c) \/ CompileWriteFails(c)
    \/ ReviewReused(c) \/ (\E v \in Verdicts : ReviewMade(c, v)) \/ ReviewFails(c)
    \/ SmokeStarts(c) \/ SmokeRefused(c)
    \/ (\E s \in Results : SmokeRan(c, s)) \/ SmokeFails(c)
    \/ SmokeSaved(c) \/ SmokeSaveFails(c)
    \/ Promote(c) \/ PromoteFails(c)
    \/ (\E s \in {"done", "failed"} : CampaignEnds(c, s)) \/ CampaignRegressed(c)
    \/ RevertRead(c) \/ RestoreBinary(c) \/ RestoreRefused(c)
    \/ RestoreSource(c) \/ RestoreMarker(c) \/ RestoreFails(c)
    \/ LeaseBusy(c)

Start(c) ==
    \/ Compile(c) \/ StartSmoke(c) \/ StartPromote(c) \/ PromoteWithFindings(c)
    \/ StartCampaign(c) \/ StartRevert(c)

Next == \E c \in Clients : Start(c) \/ Step(c) \/ Drop(c)

Spec == Init /\ [][Next]_vars

-----------------------------------------------------------------------------
Places == Waiting \cup
    {"idle", "build", "upsert", "source", "marker", "smoking", "save", "campaign",
     "revert", "restore_source", "restore_marker",
     "failed", "storage", "compiled", "reviewed", "smoked", "promoted", "done",
     "insert", "queued"}

Ops == [at : Places, task : Tasks \cup {None}, id : Ids \cup {None},
        src : Sources \cup {None}, bin : Ids \cup {None}, run : Runs \cup {None},
        back : Files \cup {None}]

\* The workspace, the tables and the operations have their shapes.
TypeOK ==
    /\ bin \in Ids \cup {None}
    /\ src \in Sources \cup {None}
    /\ active \in Ids \cup {None}
    /\ row \in [Ids -> Rows \cup {None}]
    /\ review \in [Ids -> Reviews \cup {None}]
    /\ run \in [Runs -> RunRows \cup {None}]
    /\ approval \subseteq Approvals
    /\ built \in [Ids -> Sources \cup {None}]
    /\ lease \in Clients \cup {None}
    /\ left \in [Faults -> Nat]
    /\ op \in [Clients -> Ops]

\* The runs in the table.
Started == {r \in DOMAIN run : run[r] # None}

\* No binary is smoke-run except the very bytes, under the very source, that a
\* recorded review of that revision approved or an operator bypassed
\* (require_harness_ai_review, harness_smoke_locked), although the lease is
\* given back between the review and the smoke.
SmokeRanAsReviewed ==
    \A r \in Started : run[r].kind = "smoke" =>
        LET v == review[run[r].harness] IN
        /\ v # None
        /\ v.source = run[r].source
        /\ v.binary = run[r].binary
        /\ v.verdict # "refused"

ApprovalRests(a) ==
    \E r \in Started :
        /\ run[r].kind = "smoke"
        /\ run[r].status = "done"
        /\ run[r].harness = a.harness
        /\ run[r].source = a.source
        /\ run[r].binary = a.binary
        /\ run[r].result = IF a.kind = "clean_smoke" THEN "clean" ELSE "crashes"

\* Every approval rests on a finished smoke run of the same revision and
\* digests, crash-free for a clean approval and with crashes for the other
\* (promote_harness_in_transaction).
ApprovalRestsOnSmoke == \A a \in approval : ApprovalRests(a)

\* A campaign runs only bytes a human approved for that revision
\* (campaign_harness), whatever was compiled, restored or lost in between.
CampaignRanAsApproved ==
    \A r \in Started : run[r].kind = "campaign" =>
        \E a \in approval :
            /\ a.harness = run[r].harness
            /\ a.source = run[r].source
            /\ a.binary = run[r].binary

\* A revision shown as promoted is approved for the smoke evidence it now
\* carries: a later smoke of it asks for a new promotion.
PromotedIsApproved ==
    \A i \in Ids : row[i] # None /\ row[i].status = "promoted" =>
        \E a \in approval :
            /\ a.harness = i
            /\ a.binary = row[i].smoke.binary
            /\ a.kind = IF row[i].smoke.result = "clean" THEN "clean_smoke"
                                                         ELSE "known_findings"

\* What a smoke ran was reviewed, what is approved was smoked, what a campaign
\* ran was approved, and what is shown as promoted is approved for what it carries.
RanAsApproved ==
    /\ SmokeRanAsReviewed
    /\ ApprovalRestsOnSmoke
    /\ CampaignRanAsApproved
    /\ PromotedIsApproved

\* Every run's binary was built from the source its record names, "source that
\* the active binary does not contain" is never described
\* (write_current_harness_source, harness_workspace.rs:371-377).
BinaryHoldsSource ==
    \A r \in Started : built[run[r].binary] = run[r].source

\* An automatic revert never replaces a revision other than the one whose
\* campaign asked for it, although that campaign gave its lease back first
\* (revert_harness_from_run_if_current).
NewerKept ==
    \A c \in Clients :
        op[c].at = "restore" /\ op'[c].at = "restore_source" /\ op[c].back # None =>
            active \in {op[c].back.id, None}

-----------------------------------------------------------------------------
(* The inductive invariant: what each record and each operation rests on.   *)

\* A smoke kept with a revision is one of its finished smoke runs.
SmokeOf(i, m) ==
    LET r == run[m.run] IN
    /\ r # None
    /\ r.kind = "smoke" /\ r.status = "done"
    /\ r.harness = i
    /\ r.source = m.source /\ r.binary = m.binary /\ r.result = m.result

RowRests(i) ==
    row[i] # None =>
        /\ row[i].source = built[i]
        /\ row[i].smoke # None => SmokeOf(i, row[i].smoke)
        /\ row[i].status = "promoted" =>
              /\ row[i].smoke # None
              /\ \E a \in approval :
                    /\ a.harness = i
                    /\ a.source = row[i].smoke.source
                    /\ a.binary = row[i].smoke.binary
                    /\ a.kind = IF row[i].smoke.result = "clean" THEN "clean_smoke"
                                                               ELSE "known_findings"

\* The review binds the very bytes, and allowed them.
Allows(i, s, b) ==
    /\ review[i] # None
    /\ review[i].source = s
    /\ review[i].binary = b
    /\ review[i].verdict # "refused"

RunRests(r) ==
    run[r] # None =>
        /\ row[run[r].harness] # None
        /\ run[r].kind = "smoke" => Allows(run[r].harness, run[r].source, run[r].binary)
        /\ run[r].kind = "campaign" =>
              \E a \in approval :
                  /\ a.harness = run[r].harness
                  /\ a.source = run[r].source
                  /\ a.binary = run[r].binary

Building == {"build", "upsert", "source", "marker"}

Holding == Building \cup
    {"smoking", "save", "campaign", "restore_source", "restore_marker"}

\* What an operation has established before the step it is at.
OpRests(c) ==
    LET o == op[c] IN
    /\ o.at \in Holding => lease = c
    /\ o.at \in Building =>
          o.id \in Ids /\ o.src \in Sources /\ built[o.id] = o.src
    /\ o.at \in {"compiled", "review", "review_only", "reviewed", "smoke", "promote"} =>
          o.id \in Ids
    /\ o.at = "smoke" => Allows(o.id, o.src, o.bin)
    /\ o.at \in {"smoking", "save"} =>
          /\ o.id \in Ids
          /\ o.run \in Runs
          /\ run[o.run] # None
          /\ run[o.run].kind = "smoke"
          /\ run[o.run].harness = o.id
          /\ run[o.run].status = IF o.at = "save" THEN "done" ELSE "running"
          /\ o.at = "save" => run[o.run].result # None
    /\ o.at = "campaign" =>
          o.run \in Runs /\ run[o.run] # None /\ run[o.run].status = "running"
    /\ o.at = "revert" => o.run \in Runs /\ run[o.run] # None
    /\ o.at \in {"restore", "restore_source", "restore_marker"} =>
          o.id \in Ids /\ o.src \in Sources /\ o.bin \in Ids
    /\ o.at \in {"restore_source", "restore_marker"} => o.back # None

IndInv ==
    /\ TypeOK
    /\ \A i \in Ids : RowRests(i)
    /\ \A r \in Runs : RunRests(r)
    /\ ApprovalRestsOnSmoke
    /\ \A c \in Clients : OpRests(c)
=============================================================================
