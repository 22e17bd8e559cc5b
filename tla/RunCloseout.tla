------------------------------ MODULE RunCloseout ------------------------------
(***************************************************************************)
(* The closeout of one finished campaign run: six analysis steps whose     *)
(* outcomes are rows of run_closeout_steps, executed by a pass that holds  *)
(* a per-run file lease (crates/hf-service/src/run_closeout.rs and         *)
(* container/run_closeout.rs).  Passes may be started by several service   *)
(* processes; a pass can be lost at any await, a row write can fail, and   *)
(* the run can be deleted under a pass.  The last step, the trust report,  *)
(* audits the rows of the others, so a pass that is about to change one of *)
(* them first withdraws the retained report.                               *)
(***************************************************************************)
EXTENDS Naturals

CONSTANTS
  Closers,     \* callers of close_out_run
  NoCloser,    \* the lease is free
  RetainedRows,\* row tables an earlier version of the program may have left
  Budget       \* how many times each fault may happen

Faults == {"fail", "store", "lose", "delete"}

Steps == {"Triage", "Minimize", "CorpusAbsorb", "EdgeSet", "Disposition", "TrustReport"}

\* closeout_ladder: declaration order is execution order.
Ladder == [Triage |-> 1, Minimize |-> 2, CorpusAbsorb |-> 3, EdgeSet |-> 4,
           Disposition |-> 5, TrustReport |-> 6]

Trust == "TrustReport"
Audited == Steps \ {Trust}

Outcomes == {"none", "completed", "skipped", "blocked", "failed"}
\* What a row can say: "legacy" is a skip whose reason is a failed dependency,
\* "unknown" an outcome this version cannot decode.
Labels == Outcomes \cup {"legacy", "unknown"}

VARIABLES
  rows,      \* durable: the label of each step's row, "none" without a row
  exists,    \* durable: the run and its crashes are still stored
  lease,     \* who holds run-closeout-<id>.lock
  pc,        \* where each caller is
  recorded,  \* the caller's decoded copy of the rows
  todo,      \* the caller's remaining pending steps, taken in ladder order
  outcome,   \* the outcome the caller is about to record
  seen,      \* what the caller's trust report read
  verdict,   \* history: what the recorded trust report had read
  left       \* remaining fault budget

vars == << rows, exists, lease, pc, recorded, todo, outcome, seen, verdict, left >>

PCs == {"idle", "scoped", "leased", "withdraw", "ready", "working", "record"}

IsTerminal(o) == o \in {"completed", "skipped"}

\* decode_outcome, for a row whose label is known.
DecodeOutcome(l) == IF l = "legacy" THEN "blocked" ELSE l

Decoded == [s \in Steps |-> DecodeOutcome(rows[s])]

Undecodable == \E s \in Steps : rows[s] = "unknown"

\* consumes: what a step reads from an earlier one.
Consumes(s) ==
  IF s \in {"Minimize", "CorpusAbsorb", "Disposition"} THEN {"Triage"} ELSE {}

\* Mutant: a blocked step counts as done.
PendingStepsUnblocked(rec) == {s \in Steps : ~IsTerminal(rec[s]) /\ rec[s] # "blocked"}

\* pending_steps: every step without a terminal outcome.
PendingSteps(rec) == {s \in Steps : ~IsTerminal(rec[s])}

\* The first of the pending steps in ladder order.
FirstOf(S) == CHOOSE s \in S : \A t \in S : Ladder[s] <= Ladder[t]

\* Mutant: a step runs whatever became of what it consumes.
NeverBlocked(s, rec) == FALSE

\* blocked_by: a dependency that has not run yet does not block.
BlockedBy(s, rec) == \E d \in Consumes(s) : rec[d] \in {"failed", "blocked"}

\* The rows of an earlier version: it too recorded a dependent as done only when
\* what it consumes was, and as a legacy skip when that had failed.
CloseoutAssumption ==
  /\ NoCloser \notin Closers
  /\ RetainedRows \subseteq [Steps -> Labels]
  /\ \A r \in RetainedRows, s \in Steps :
       IsTerminal(DecodeOutcome(r[s])) =>
         \A d \in Consumes(s) : IsTerminal(DecodeOutcome(r[d]))
  /\ Budget \in [Faults -> Nat]

\* run_step: what a step can return while the run is stored, and once it is
\* gone: its crashes are then gone too, and every read of the run fails.
StepOutcomes(s) ==
  LET skippable == {"Minimize", "EdgeSet", "Disposition"}
  IN  IF exists
      THEN {"completed", "failed"} \cup (IF s \in skippable THEN {"skipped"} ELSE {})
      ELSE {"failed"} \cup (IF s \in {"Minimize", "Disposition"} THEN {"skipped"} ELSE {})

Spend(S) == /\ \A f \in S : left[f] > 0
            /\ left' = [f \in Faults |-> IF f \in S THEN left[f] - 1 ELSE left[f]]

Goto(c, l) == pc' = [pc EXCEPT ![c] = l]

NoRows == [s \in Steps |-> "none"]

\* The pass returns: its lease is dropped, and so are its locals.
Leave(c) ==
  /\ Goto(c, "idle")
  /\ lease' = IF lease = c THEN NoCloser ELSE lease
  /\ recorded' = [recorded EXCEPT ![c] = NoRows]
  /\ todo' = [todo EXCEPT ![c] = {}]
  /\ outcome' = [outcome EXCEPT ![c] = "none"]
  /\ seen' = [seen EXCEPT ![c] = NoRows]

Init ==
  /\ rows \in RetainedRows
  /\ exists = TRUE
  /\ lease = NoCloser
  /\ pc = [c \in Closers |-> "idle"]
  /\ recorded = [c \in Closers |-> NoRows]
  /\ todo = [c \in Closers |-> {}]
  /\ outcome = [c \in Closers |-> "none"]
  /\ seen = [c \in Closers |-> NoRows]
  /\ verdict = Decoded
  /\ left = Budget

-------------------------------------------------------------------------------
\* run_scope: only a stored, finished campaign run is admitted.
Scope(c) ==
  /\ pc[c] = "idle" /\ exists
  /\ Goto(c, "scoped")
  /\ UNCHANGED << rows, exists, lease, recorded, todo, outcome, seen, verdict, left >>

\* Mutant: the lease is taken even when another pass holds it.
AcquireLeaseAlways(c) ==
  /\ pc[c] = "scoped"
  /\ lease' = c /\ Goto(c, "leased")
  /\ UNCHANGED << rows, exists, recorded, todo, outcome, seen, verdict, left >>

\* acquire_run_closeout_lease: refused at once while another pass is active.
AcquireLease(c) ==
  /\ pc[c] = "scoped"
  /\ IF lease = NoCloser
     THEN lease' = c /\ Goto(c, "leased")
     ELSE lease' = lease /\ Goto(c, "idle")
  /\ UNCHANGED << rows, exists, recorded, todo, outcome, seen, verdict, left >>

\* Mutant: a row that cannot be decoded is left out instead of refused.
RecordedStepsLenient(c) ==
  LET rec == [s \in Steps |-> IF rows[s] = "unknown" THEN "none" ELSE DecodeOutcome(rows[s])]
  IN  /\ recorded' = [recorded EXCEPT ![c] = rec]
      /\ todo' = [todo EXCEPT ![c] = PendingSteps(rec)]
      /\ Goto(c, IF IsTerminal(rec[Trust]) /\ PendingSteps(rec) \notin {{}, {Trust}}
                 THEN "withdraw" ELSE "ready")
      /\ UNCHANGED << lease, outcome, seen >>

\* Mutant: the retained trust report stays when an earlier step is retried.
RecordedStepsKeepTrust(c) ==
  IF Undecodable
  THEN Leave(c)
  ELSE /\ recorded' = [recorded EXCEPT ![c] = Decoded]
       /\ todo' = [todo EXCEPT ![c] = PendingSteps(Decoded)]
       /\ Goto(c, "ready")
       /\ UNCHANGED << lease, outcome, seen >>

\* recorded_steps, and whether the retained trust report has to be withdrawn.
RecordedSteps(c) ==
  IF Undecodable
  THEN Leave(c)
  ELSE /\ recorded' = [recorded EXCEPT ![c] = Decoded]
       /\ todo' = [todo EXCEPT ![c] = PendingSteps(Decoded)]
       /\ Goto(c, IF /\ IsTerminal(Decoded[Trust])
                     /\ \E s \in Audited : ~IsTerminal(Decoded[s])
                  THEN "withdraw" ELSE "ready")
       /\ UNCHANGED << lease, outcome, seen >>

ReadRecorded(c) ==
  /\ pc[c] = "leased"
  /\ RecordedSteps(c)
  /\ UNCHANGED << rows, exists, verdict, left >>

\* Record the trust report as blocked by the step that is about to change, and
\* plan the pass again: the report is pending now.
WithdrawTrust(c, ok) ==
  /\ pc[c] = "withdraw"
  /\ IF ok
     THEN LET rec == [recorded[c] EXCEPT ![Trust] = "blocked"]
          IN  /\ rows' = [rows EXCEPT ![Trust] = "blocked"]
              /\ recorded' = [recorded EXCEPT ![c] = rec]
              /\ todo' = [todo EXCEPT ![c] = PendingSteps(rec)]
              /\ Goto(c, "ready") /\ UNCHANGED << lease, outcome, seen >>
     ELSE Leave(c) /\ UNCHANGED rows
  /\ Spend(IF ok THEN {} ELSE {"store"})
  /\ UNCHANGED << exists, verdict >>

\* The next pending step is blocked by a failed dependency, or starts.
StartStep(c) ==
  /\ pc[c] = "ready" /\ todo[c] # {}
  /\ IF BlockedBy(FirstOf(todo[c]), recorded[c])
     THEN outcome' = [outcome EXCEPT ![c] = "blocked"] /\ Goto(c, "record")
     ELSE outcome' = outcome /\ Goto(c, "working")
  /\ UNCHANGED << rows, exists, lease, recorded, todo, seen, verdict, left >>

\* The step returns.  campaign_trust_report reads the rows as they are.
FinishStep(c, o) ==
  LET s == FirstOf(todo[c])
  IN  /\ pc[c] = "working"
      /\ o \in StepOutcomes(s)
      /\ outcome' = [outcome EXCEPT ![c] = o]
      /\ seen' = IF s = Trust THEN [seen EXCEPT ![c] = Decoded] ELSE seen
      /\ Goto(c, "record")
      /\ Spend(IF o = "failed" /\ exists THEN {"fail"} ELSE {})
      /\ UNCHANGED << rows, exists, lease, recorded, todo, verdict >>

\* Mutant: the outcome of a failed step is not written.
RecordStepUnlessFailed(c, ok) ==
  /\ pc[c] = "record"
  /\ IF ok
     THEN LET s == FirstOf(todo[c])
          IN  /\ rows' = IF outcome[c] # "failed" THEN [rows EXCEPT ![s] = outcome[c]] ELSE rows
              /\ recorded' = [recorded EXCEPT ![c][s] = outcome[c]]
              /\ todo' = [todo EXCEPT ![c] = todo[c] \ {s}]
              /\ verdict' = IF s = Trust THEN seen[c] ELSE verdict
              /\ Goto(c, "ready") /\ UNCHANGED << lease, outcome, seen >>
     ELSE Leave(c) /\ UNCHANGED << rows, verdict >>
  /\ Spend(IF ok THEN {} ELSE {"store"})
  /\ UNCHANGED exists

\* record_closeout_step and replace_recorded.  The table has no reference to
\* the run, so the row of a deleted run is written as any other.
RecordStep(c, ok) ==
  /\ pc[c] = "record"
  /\ IF ok
     THEN LET s == FirstOf(todo[c])
          IN  /\ rows' = [rows EXCEPT ![s] = outcome[c]]
              /\ recorded' = [recorded EXCEPT ![c][s] = outcome[c]]
              /\ todo' = [todo EXCEPT ![c] = todo[c] \ {s}]
              /\ verdict' = IF s = Trust THEN seen[c] ELSE verdict
              /\ Goto(c, "ready") /\ UNCHANGED << lease, outcome, seen >>
     ELSE Leave(c) /\ UNCHANGED << rows, verdict >>
  /\ Spend(IF ok THEN {} ELSE {"store"})
  /\ UNCHANGED exists

\* Every pending step is recorded: the report is returned.
Return(c) ==
  /\ pc[c] = "ready" /\ todo[c] = {}
  /\ Leave(c)
  /\ UNCHANGED << rows, exists, verdict, left >>

\* The caller's process ends, or its future is dropped, at one of its awaits.
Lose(c) ==
  /\ pc[c] \notin {"idle", "scoped"}
  /\ Leave(c)
  /\ Spend({"lose"})
  /\ UNCHANGED << rows, exists, verdict >>

\* Store::delete_run: the run, its crashes and its closeout rows in one
\* transaction.  It does not look at the closeout lease.
DeleteRun ==
  /\ exists
  /\ exists' = FALSE
  /\ rows' = NoRows
  /\ Spend({"delete"})
  /\ UNCHANGED << lease, pc, recorded, todo, outcome, seen, verdict >>

-------------------------------------------------------------------------------
Pass(c) ==
  \/ AcquireLease(c) \/ ReadRecorded(c) \/ StartStep(c) \/ Return(c)
  \/ \E ok \in BOOLEAN : WithdrawTrust(c, ok) \/ RecordStep(c, ok)
  \/ \E o \in Outcomes : FinishStep(c, o)

Next ==
  \/ \E c \in Closers : Scope(c) \/ Pass(c) \/ Lose(c)
  \/ DeleteRun

Spec == Init /\ [][Next]_vars

-------------------------------------------------------------------------------
(* Properties                                                                *)

\* The variables keep their types.
TypeOK ==
  /\ rows \in [Steps -> Labels]
  /\ exists \in BOOLEAN
  /\ lease \in Closers \cup {NoCloser}
  /\ pc \in [Closers -> PCs]
  /\ recorded \in [Closers -> [Steps -> Outcomes]]
  /\ todo \in [Closers -> SUBSET Steps]
  /\ outcome \in [Closers -> Outcomes]
  /\ seen \in [Closers -> [Steps -> Outcomes]]
  /\ verdict \in [Steps -> Labels]
  /\ left \in [Faults -> Nat]

\* A retained trust report is never stale: what it audited is what the rows of
\* the other steps say now, through retries, lost passes and failed writes
\* (run-closeout-design.md: "Retrying a changed earlier outcome refreshes the
\* trust report").
TrustIsCurrent ==
  exists /\ IsTerminal(Decoded[Trust])
    => \A s \in Audited : verdict[s] = Decoded[s]

\* No step concludes on the output of a failed one: while the run is stored, a
\* dependent step is terminal only if what it consumes is.
DependentsRestOnSuccess ==
  exists => \A s \in Steps : IsTerminal(Decoded[s])
              => \A d \in Consumes(s) : IsTerminal(Decoded[d])

\* A recorded result is not recomputed: no pass starts a step whose row, as
\* stored at that moment, is terminal (a second pass and a resumed one included).
NoReworkStep ==
  \A c \in Closers : pc[c] = "ready" /\ pc'[c] = "working"
    => ~IsTerminal(Decoded[FirstOf(todo[c])])

\* A row this version cannot decode never triggers work, in any pass
\* (run-closeout-design.md: "fail as durable-data errors and never trigger work").
UndecodableStopsWork ==
  Undecodable => \A c \in Closers : pc[c] \in {"idle", "scoped", "leased"}

\* A pass that ends leaves an outcome for every step: a failure shows as a row
\* and not as a missing one (container/run_closeout.rs:9).
ReturnedPassIsComplete ==
  \A c \in Closers : exists /\ pc[c] = "ready" /\ todo[c] = {}
    => \A s \in Steps : rows[s] # "none"

\* A retained trust report audited what the rows say now; no step concludes on
\* the output of a failed one; a row this version cannot decode never triggers
\* work; and a pass that ends leaves an outcome for every step (close_out_run).
CloseoutHolds ==
  /\ TypeOK
  /\ TrustIsCurrent
  /\ DependentsRestOnSuccess
  /\ UndecodableStopsWork
  /\ ReturnedPassIsComplete

\* Every step of a stored, decodable closeout has its final outcome.
Finished == Undecodable \/ ~exists \/ \A s \in Steps : IsTerminal(Decoded[s])

-------------------------------------------------------------------------------
(* The inductive invariant                                                   *)

Working == {"withdraw", "ready", "working", "record"}

\* A pass holds the lease from the moment it took it until it returns.
LeaseRests == \A c \in Closers : pc[c] \in Working \cup {"leased"} <=> lease = c

\* A pass has the rows as they are, unless the run was deleted under it; even
\* then no row is further on than it thinks.
CopyRests(c) ==
  /\ ~Undecodable
  /\ exists => recorded[c] = Decoded
  /\ \A s \in Steps : IsTerminal(Decoded[s]) => IsTerminal(recorded[c][s])

\* What is left to do is not done, what is not left has an outcome, and the
\* trust report comes last.
PlanRests(c) ==
  /\ \A s \in todo[c] : ~IsTerminal(recorded[c][s])
  /\ \A s \in Steps \ todo[c] : recorded[c][s] # "none"
  /\ todo[c] # {} => Trust \in todo[c]

\* The step at hand is not blocked unless it is recorded so, and a trust report
\* that is about to be recorded read the rows as they are.
StepRests(c) ==
  LET s == FirstOf(todo[c])
  IN  /\ pc[c] \in {"working", "record"} => todo[c] # {}
      /\ pc[c] = "working" => ~BlockedBy(s, recorded[c])
      /\ pc[c] = "record" =>
           /\ outcome[c] # "none"
           /\ IsTerminal(outcome[c]) => ~BlockedBy(s, recorded[c])
           /\ s = Trust /\ exists => seen[c] = Decoded

PassRests(c) ==
  pc[c] \in Working =>
    CopyRests(c) /\ (pc[c] # "withdraw" => PlanRests(c) /\ StepRests(c))

IndInv ==
  /\ TypeOK
  /\ LeaseRests
  /\ \A c \in Closers : PassRests(c)
  /\ TrustIsCurrent
  /\ DependentsRestOnSuccess
===============================================================================
