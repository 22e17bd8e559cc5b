---------------------------- MODULE Remediation ----------------------------
(***************************************************************************)
(* Patch-to-Proof remediation operations (hf-service                       *)
(* remediation_workflow.rs, hf-storage remediation_store.rs, hf-crash      *)
(* remediation.rs): a draft is approved by a person, claimed by one caller *)
(* and verified by a spawned workflow of five sandbox stages, whose result *)
(* becomes the operation's outcome.  Every process that starts ends all    *)
(* operations it finds running.                                            *)
(*                                                                         *)
(* All operations are about findings of one run: they share its retained   *)
(* corpus and its source revision.                                         *)
(***************************************************************************)
EXTENDS Naturals, Sequences

CONSTANTS
    Ops,        \* remediation operations
    Procs,      \* processes that share the database
    MaxCorpus,  \* how often the retained corpus may grow
    Faults,     \* kinds of failure
    Budget,     \* how many of each may happen
    None

VARIABLES
    row,     \* remediation_operations
    edited,  \* the project source differs from the run's revision
    corpus,  \* version of the run's retained corpus directory
    work,    \* the call or the workflow a process runs for an operation
    up,      \* running processes
    left     \* failures left

vars == <<row, edited, corpus, work, up, left>>

Review == 0
FollowUp == 5
Complete == 6

Statuses == {"draft", "approved", "running", "verified", "rejected", "inconclusive",
             "interrupted"}
Results == {"passed", "failed", "inconclusive"}
Places == {"claim", "preflight", "stage", "finish", "inconclusive", "fail_closed"}
Corpora == (0..MaxCorpus) \cup {None}

Operations == [status : Statuses, stage : Review..Complete, corpus : 0..MaxCorpus,
               approved : BOOLEAN, evidence : Seq(Results), ran : Corpora]

Workflows == [at : Places, done : Seq(Results), ran : Corpora]

RemediationAssumption ==
    /\ MaxCorpus \in Nat
    /\ Budget \in [Faults -> Nat]
    /\ None \notin Operations \cup Workflows \cup (0..MaxCorpus)

\* Status "interrupted" is inconclusive with failure code
\* interrupted_after_restart.
\* corpus is the digest in the binding, ran the corpus the regression replayed.
Row(status, stage, bound, approved, evidence, ran) ==
    [status |-> status, stage |-> stage, corpus |-> bound, approved |-> approved,
     evidence |-> evidence, ran |-> ran]

Work(at, done, ran) == [at |-> at, done |-> done, ran |-> ran]

Init ==
    /\ row = [o \in Ops |-> None]
    /\ edited = FALSE
    /\ corpus = 0
    /\ work = [p \in Procs |-> [o \in Ops |-> None]]
    /\ up = Procs
    /\ left = Budget

Spend(f) ==
    /\ f \in Faults
    /\ left[f] > 0
    /\ left' = [left EXCEPT ![f] = @ - 1]

Do(p, o, w) == work' = [work EXCEPT ![p][o] = w]

At(p, o, place) == work[p][o] # None /\ work[p][o].at = place

-----------------------------------------------------------------------------
(* Operator calls.                                                          *)

\* create_remediation_operation binds the digests of the retained evidence.
Draft(o) ==
    /\ row[o] = None
    /\ row' = [row EXCEPT ![o] = Row("draft", Review, corpus, FALSE, <<>>, None)]
    /\ UNCHANGED <<edited, corpus, work, up, left>>

Approve(o) ==
    /\ row[o] # None
    /\ row[o].status = "draft"
    /\ row' = [row EXCEPT ![o] = Row("approved", Review, @.corpus, TRUE, <<>>, None)]
    /\ UNCHANGED <<edited, corpus, work, up, left>>

\* start_remediation_verification reads the row and asks the guardrails; any
\* number of callers may do so before one claims.
AskStart(p, o) ==
    /\ p \in up
    /\ row[o] # None
    /\ work[p][o] = None
    /\ Do(p, o, Work("claim", <<>>, None))
    /\ UNCHANGED <<row, edited, corpus, up, left>>

Claimable(o) == row[o].status = "approved" /\ row[o].stage = Review

Claimed(o) ==
    row' = [row EXCEPT ![o] = Row("running", 1, @.corpus, @.approved, <<>>, None)]

\* Mutant: the status is read before the update instead of inside it.
ClaimStale(p, o) ==
    /\ At(p, o, "claim")
    /\ row[o].status \in {"approved", "running"}
    /\ Claimed(o)
    /\ Do(p, o, Work("preflight", <<>>, None))
    /\ UNCHANGED <<edited, corpus, up, left>>

\* The claim is one conditional statement; the workflow is spawned after it.
Claim(p, o) ==
    /\ At(p, o, "claim")
    /\ Claimable(o)
    /\ Claimed(o)
    /\ Do(p, o, Work("preflight", <<>>, None))
    /\ UNCHANGED <<edited, corpus, up, left>>

ClaimRefused(p, o) ==
    /\ At(p, o, "claim")
    /\ ~Claimable(o)
    /\ Do(p, o, None)
    /\ UNCHANGED <<row, edited, corpus, up, left>>

\* The caller is dropped while the statement runs: it may be committed, and
\* nothing is spawned.
ClaimDropped(p, o) ==
    /\ At(p, o, "claim")
    /\ Spend("drop")
    /\ \/ Claimable(o) /\ Claimed(o)
       \/ UNCHANGED row
    /\ Do(p, o, None)
    /\ UNCHANGED <<edited, corpus, up>>

-----------------------------------------------------------------------------
(* run_remediation_workflow.                                                *)

\* stage_build_tree copies the current source and compares its digest, the
\* harness's, the binary's and the reproducer's with the binding.
Preflight(p, o) ==
    /\ At(p, o, "preflight")
    /\ Do(p, o, Work(IF edited THEN "inconclusive" ELSE "stage", <<>>, None))
    /\ UNCHANGED <<row, edited, corpus, up, left>>

\* A missing record, a digest that cannot be read, a cancelled lease.
PreflightFails(p, o) ==
    /\ At(p, o, "preflight")
    /\ \E next \in {"inconclusive", "fail_closed"} : Do(p, o, Work(next, <<>>, None))
    /\ UNCHANGED <<row, edited, corpus, up, left>>

Outcomes(stage) ==
    IF stage = 1 THEN {"passed", "inconclusive"} ELSE {"passed", "failed", "inconclusive"}

\* advance_best_effort: a statement that matches no row or fails is only logged.
Advance(o, stage) ==
    IF row[o].status = "running" /\ row[o].stage = stage
      THEN row' = [row EXCEPT ![o] =
              Row("running", stage + 1, @.corpus, @.approved, <<>>, None)]
      ELSE UNCHANGED row

\* Mutant: a stage that did not pass does not stop the ones after it.
HaltsNever(result, stage) == stage = FollowUp

\* A stage that does not pass halts the run.
Halts(result, stage) == result # "passed" \/ stage = FollowUp

\* One stage runs in the sandbox.  The regression replays the corpus directory
\* as it is; the follow-up fuzzer may save what it finds there.
Stage(p, o, result) ==
    LET w == work[p][o]
        stage == Len(w.done) + 1
        ran == IF stage = 4 THEN corpus ELSE w.ran IN
    /\ At(p, o, "stage")
    /\ result \in Outcomes(stage)
    /\ Do(p, o, Work(IF Halts(result, stage) THEN "finish" ELSE "stage",
                     Append(w.done, result), ran))
    /\ \/ result = "passed" /\ stage < FollowUp /\ Advance(o, stage) /\ UNCHANGED left
       \/ result = "passed" /\ stage < FollowUp /\ Spend("write") /\ UNCHANGED row
       \/ (result # "passed" \/ stage = FollowUp) /\ UNCHANGED <<row, left>>
    /\ \/ UNCHANGED corpus
       \/ stage = FollowUp /\ corpus < MaxCorpus /\ corpus' = corpus + 1
    /\ UNCHANGED <<edited, up>>

\* Mutant: stages that were skipped do not count against the claim.
DerivedLax(done) ==
    IF \E i \in 1..Len(done) : done[i] = "inconclusive" THEN "inconclusive"
    ELSE IF \E i \in 1..Len(done) : done[i] = "failed" /\ i > 2 THEN "rejected"
    ELSE "verified"

\* verification_status; the stages after the last one run are skipped.
Derived(done) ==
    IF \E i \in 1..Len(done) : done[i] = "inconclusive" THEN "inconclusive"
    ELSE IF \E i \in 1..Len(done) : done[i] = "failed" THEN "rejected"
    ELSE IF Len(done) = FollowUp THEN "verified"
    ELSE "inconclusive"

Outcome(p, o) ==
    IF At(p, o, "finish") THEN Derived(work[p][o].done) ELSE "inconclusive"

\* Mutant: the outcome is written whatever became of the operation.
PublishAlways(p, o) ==
    /\ row' = [row EXCEPT ![o] =
          Row(Outcome(p, o), Complete, @.corpus, @.approved, work[p][o].done, work[p][o].ran)]
    /\ Do(p, o, None)

\* finish_remediation_operation: only a running operation is completed.  A
\* result that comes too late goes to fail_closed, which changes nothing.
Publish(p, o) ==
    IF row[o].status = "running"
      THEN /\ row' = [row EXCEPT ![o] =
                Row(Outcome(p, o), Complete, @.corpus, @.approved, work[p][o].done,
                    work[p][o].ran)]
           /\ Do(p, o, None)
      ELSE /\ UNCHANGED row
           /\ Do(p, o, IF At(p, o, "fail_closed") THEN None
                       ELSE Work("fail_closed", <<>>, None))

Finish(p, o) ==
    /\ \E place \in {"finish", "inconclusive", "fail_closed"} : At(p, o, place)
    /\ Publish(p, o)
    /\ UNCHANGED <<edited, corpus, up, left>>

\* The statement fails: the workflow tries once more with no evidence, and the
\* second failure is ignored.
FinishFails(p, o) ==
    /\ \E place \in {"finish", "inconclusive", "fail_closed"} : At(p, o, place)
    /\ Spend("write")
    /\ Do(p, o, IF At(p, o, "fail_closed") THEN None ELSE Work("fail_closed", <<>>, None))
    /\ UNCHANGED <<row, edited, corpus, up>>

-----------------------------------------------------------------------------
(* Processes and the project.                                               *)

Crash(p) ==
    /\ p \in up
    /\ Spend("crash")
    /\ up' = up \ {p}
    /\ work' = [work EXCEPT ![p] = [o \in Ops |-> None]]
    /\ UNCHANGED <<row, edited, corpus>>

\* recover_interrupted_remediations, in every process that starts.
Recovered ==
    [o \in Ops |->
        IF row[o] # None /\ row[o].status = "running"
          THEN Row("interrupted", Complete, row[o].corpus, row[o].approved, <<>>, None)
          ELSE row[o]]

\* Mutant: a process starts without ending what it finds running.
StartIdle(p) ==
    /\ p \notin up
    /\ up' = up \cup {p}
    /\ UNCHANGED <<row, edited, corpus, work, left>>

\* The recovery is best effort.
Start(p) ==
    /\ p \notin up
    /\ up' = up \cup {p}
    /\ \/ row' = Recovered /\ UNCHANGED left
       \/ UNCHANGED row /\ Spend("write")
    /\ UNCHANGED <<edited, corpus, work>>

\* A process ends in good order: with no workflow of its own under way.
Exit(p) ==
    /\ p \in up
    /\ \A o \in Ops : work[p][o] = None
    /\ up' = up \ {p}
    /\ UNCHANGED <<row, edited, corpus, work, left>>

EditSource ==
    /\ Spend("edit")
    /\ edited' = TRUE
    /\ UNCHANGED <<row, corpus, work, up>>

-----------------------------------------------------------------------------
Run(p, o) ==
    \/ Claim(p, o) \/ ClaimRefused(p, o)
    \/ Preflight(p, o) \/ PreflightFails(p, o)
    \/ \E r \in {"passed", "failed", "inconclusive"} : Stage(p, o, r)
    \/ Finish(p, o) \/ FinishFails(p, o)

Next ==
    \/ \E o \in Ops : Draft(o) \/ Approve(o)
    \/ \E p \in Procs, o \in Ops : AskStart(p, o) \/ Run(p, o) \/ ClaimDropped(p, o)
    \/ \E p \in Procs : Crash(p) \/ Start(p) \/ Exit(p)
    \/ EditSource

Spec == Init /\ [][Next]_vars

-----------------------------------------------------------------------------
\* Operations and workflows have their shapes; an operation is complete exactly
\* when it has an outcome, and a workflow runs in a running process.
TypeOK ==
    /\ row \in [Ops -> Operations \cup {None}]
    /\ work \in [Procs -> [Ops -> Workflows \cup {None}]]
    /\ edited \in BOOLEAN
    /\ corpus \in 0..MaxCorpus
    /\ up \subseteq Procs
    /\ left \in [Faults -> Nat]
    /\ \A o \in Ops : row[o] # None =>
          /\ row[o].stage = Complete <=>
                row[o].status \in {"verified", "rejected", "inconclusive", "interrupted"}
          /\ row[o].status = "running" => row[o].stage \in 1..FollowUp
    /\ \A p \in Procs, o \in Ops : work[p][o] # None =>
          Len(work[p][o].done) <= FollowUp /\ p \in up

Works(p, o) == work[p][o] # None /\ work[p][o].at # "claim"

\* However many callers ask for it, at most one workflow ever runs for an
\* operation: it owns the operation's build directory
\* (claim_remediation_operation).
OneWorker ==
    \A o \in Ops : \A p, q \in Procs : Works(p, o) /\ Works(q, o) => p = q

\* A verified claim was approved by a person and all five stages passed, in
\* one workflow: a stage that halted, was skipped or was cut off by a restart
\* never counts (verification_status, run_verification_stages).
VerifiedIsProven ==
    \A o \in Ops : row[o] # None /\ row[o].status = "verified" =>
        /\ row[o].approved
        /\ row[o].evidence = [i \in 1..FollowUp |-> "passed"]
        /\ row[o].ran # None

\* A stage runs only after every earlier one passed.
StagesInOrder ==
    \A p \in Procs, o \in Ops : work[p][o] # None =>
        \A i \in 1..(Len(work[p][o].done) - 1) : work[p][o].done[i] = "passed"

\* What holds of every operation and workflow in every state.
RemediationHolds == TypeOK /\ OneWorker /\ VerifiedIsProven /\ StagesInOrder

\* Why it does: a workflow runs only for an operation that was claimed, a claim
\* needs an approved one, and nothing makes an operation approved again; what a
\* workflow holds is what its stages have shown so far.
ClaimedOnce ==
    \A p \in Procs, o \in Ops :
        /\ work[p][o] # None => row[o] # None
        /\ Works(p, o) => row[o].status \notin {"draft", "approved"}

ApprovedByPerson ==
    \A o \in Ops : row[o] # None /\ row[o].status \in {"approved", "running"} => row[o].approved

EvidenceSoFar ==
    \A p \in Procs, o \in Ops :
        /\ At(p, o, "stage") =>
              /\ Len(work[p][o].done) < FollowUp
              /\ \A i \in 1..Len(work[p][o].done) : work[p][o].done[i] = "passed"
        /\ At(p, o, "claim") \/ At(p, o, "preflight") => work[p][o].done = <<>>
        /\ work[p][o] # None /\ Len(work[p][o].done) >= 4 => work[p][o].ran # None

IndInv == RemediationHolds /\ ClaimedOnce /\ ApprovedByPerson /\ EvidenceSoFar

\* An outcome is final: a late workflow, a second caller and the recovery of
\* another process leave it alone (finish_remediation_operation).
OutcomeStays ==
    \A o \in Ops : row[o] # None /\ row[o].stage = Complete => row'[o] = row[o]

Unfinished(o) == row[o] # None /\ row[o].status = "running"
=============================================================================
