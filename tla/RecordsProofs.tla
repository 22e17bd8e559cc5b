---------------------------- MODULE RecordsProofs ----------------------------
(***************************************************************************)
(* Three protocols over several stores, and what a restart finds of them:  *)
(* what the scenes of MCRecords check, for every value of the constants.   *)
(*                                                                         *)
(* Closeout, for any callers, retained rows and faults: a retained trust   *)
(* report has audited what the rows say, no step concludes on a failed one, *)
(* a row that cannot be decoded triggers no work, a pass that ends leaves an *)
(* outcome for every step, and no pass does again what is done.             *)
(*                                                                         *)
(* Source scans, for any processes, scans, errors and deaths: the row, the  *)
(* journal and the directory of a scan agree once it has ended, nobody      *)
(* works under a running one, and what a caller was told stays true.        *)
(*                                                                         *)
(* Fuzz runs, for any runs, paths, journal limits and faults: the journal   *)
(* on disk explains every run that executes, that finished, or that was     *)
(* left behind.                                                             *)
(*                                                                         *)
(* One lemma per part of the closeout's IndInv, and per kind of step of the  *)
(* scans' and of the runs', with one step per action.                       *)
(***************************************************************************)
EXTENDS RunCloseout, Integers, FiniteSets, Sequences, SequenceTheorems,
        FiniteSetTheorems, TLAPS

-------------------------------------------------------------------------------
(* What the operators compute.                                               *)

\* The first pending step is pending; triage comes before every other step, and
\* the trust report after every other.
LEMMA FirstFacts ==
  ASSUME NEW S \in SUBSET Steps, S # {}
  PROVE  /\ FirstOf(S) \in S /\ FirstOf(S) \in Steps
         /\ "Triage" \in S => FirstOf(S) = "Triage"
         /\ FirstOf(S) = Trust => S = {Trust}
<1>1. /\ Ladder["Triage"] = 1 /\ Ladder["Minimize"] = 2 /\ Ladder["CorpusAbsorb"] = 3
      /\ Ladder["EdgeSet"] = 4 /\ Ladder["Disposition"] = 5 /\ Ladder["TrustReport"] = 6
  BY DEF Ladder
<1>2. \E s \in S : \A t \in S : Ladder[s] <= Ladder[t]
  <2>1. CASE "Triage" \in S
    BY <1>1, <2>1 DEF Steps
  <2>2. CASE "Triage" \notin S /\ "Minimize" \in S
    BY <1>1, <2>2 DEF Steps
  <2>3. CASE S \cap {"Triage", "Minimize"} = {} /\ "CorpusAbsorb" \in S
    BY <1>1, <2>3 DEF Steps
  <2>4. CASE S \cap {"Triage", "Minimize", "CorpusAbsorb"} = {} /\ "EdgeSet" \in S
    BY <1>1, <2>4 DEF Steps
  <2>5. CASE S \subseteq {"Disposition", "TrustReport"}
    <3>1. CASE "Disposition" \in S
      BY <1>1, <2>5, <3>1
    <3>2. CASE "Disposition" \notin S
      <4>1. S = {"TrustReport"}
        BY <2>5, <3>2
      <4> QED
        BY <1>1, <4>1
    <3> QED
      BY <3>1, <3>2
  <2> QED
    BY <2>1, <2>2, <2>3, <2>4, <2>5 DEF Steps
<1>3. FirstOf(S) \in S /\ \A t \in S : Ladder[FirstOf(S)] <= Ladder[t]
  BY <1>2 DEF FirstOf
<1>4. PICK s \in S : s = FirstOf(S) /\ \A t \in S : Ladder[s] <= Ladder[t]
  BY <1>3
<1>5. "Triage" \in S => s = "Triage"
  BY <1>1, <1>4 DEF Steps
<1>6. ASSUME s = Trust
      PROVE  S = {Trust}
  <2>1. \A t \in S : 6 <= Ladder[t]
    BY <1>1, <1>4, <1>6 DEF Trust
  <2>2. \A t \in S : t \notin Steps \ {Trust}
    BY <1>1, <2>1 DEF Steps, Trust
  <2> QED
    BY <1>4, <1>6, <2>2
<1> QED
  BY <1>4, <1>5, <1>6

\* What the rows say, decoded.
LEMMA DecodedFacts ==
  ASSUME TypeOK
  PROVE  /\ Decoded \in [Steps -> Labels]
         /\ \A s \in Steps : Decoded[s] = DecodeOutcome(rows[s])
         /\ \A s \in Steps : Decoded[s] = "none" => rows[s] = "none"
         /\ ~Undecodable => Decoded \in [Steps -> Outcomes]
<1>1. rows \in [Steps -> Labels]
  BY DEF TypeOK
<1>2. \A s \in Steps : /\ DecodeOutcome(rows[s]) \in Labels
                       /\ DecodeOutcome(rows[s]) = "none" => rows[s] = "none"
                       /\ rows[s] # "unknown" => DecodeOutcome(rows[s]) \in Outcomes
  BY <1>1 DEF DecodeOutcome, Labels, Outcomes
<1> QED
  BY <1>2 DEF Decoded, Undecodable

\* Two tables that agree on the rows agree on what they say.
LEMMA DecodedKept ==
  ASSUME UNCHANGED rows
  PROVE  Decoded' = Decoded /\ (Undecodable' <=> Undecodable)
BY DEF Decoded, Undecodable

\* An outcome that is recorded is what its row says, and the others stay.
LEMMA DecodedSet ==
  ASSUME TypeOK, NEW s \in Steps, NEW o \in Outcomes, rows' = [rows EXCEPT ![s] = o]
  PROVE  /\ Decoded' = [Decoded EXCEPT ![s] = o]
         /\ ~Undecodable => ~Undecodable'
<1>1. rows \in [Steps -> Labels] /\ DecodeOutcome(o) = o /\ o # "unknown"
  BY DEF TypeOK, DecodeOutcome, Outcomes
<1>2. \A t \in Steps : rows'[t] = IF t = s THEN o ELSE rows[t]
  BY <1>1
<1>3. \A t \in Steps : DecodeOutcome(rows'[t]) = IF t = s THEN o ELSE DecodeOutcome(rows[t])
  BY <1>1, <1>2
<1>4. Decoded' = [Decoded EXCEPT ![s] = o]
  BY <1>3 DEF Decoded
<1> QED
  BY <1>1, <1>2, <1>4 DEF Undecodable

\* The steps and their outcomes.
LEMMA NoRowsType ==
  NoRows \in [Steps -> Outcomes] /\ \A s \in Steps : NoRows[s] = "none"
BY DEF NoRows, Outcomes

\* A fault that happens comes out of what is left of it.
LEMMA SpendType ==
  ASSUME TypeOK, NEW S, Spend(S)
  PROVE  left' \in [Faults -> Nat]
<1>1. left \in [Faults -> Nat]
  BY DEF TypeOK
<1>2. ASSUME NEW x \in Faults PROVE (IF x \in S THEN left[x] - 1 ELSE left[x]) \in Nat
  BY <1>1 DEF Spend
<1> QED
  BY <1>2 DEF Spend

\* A pass that returns leaves nothing behind, and the others alone.
LEMMA LeaveFacts ==
  ASSUME TypeOK, NEW c \in Closers, Leave(c)
  PROVE  /\ pc' \in [Closers -> PCs] /\ lease' \in Closers \cup {NoCloser}
         /\ recorded' \in [Closers -> [Steps -> Outcomes]]
         /\ todo' \in [Closers -> SUBSET Steps]
         /\ outcome' \in [Closers -> Outcomes]
         /\ seen' \in [Closers -> [Steps -> Outcomes]]
         /\ pc'[c] = "idle" /\ \A d \in Closers : d # c => pc'[d] = pc[d]
<1>1. "idle" \in PCs /\ "none" \in Outcomes
  BY DEF PCs, Outcomes
<1> QED
  BY <1>1, NoRowsType DEF TypeOK, Leave, Goto

\* The pass at work is the only one.
LEMMA Alone ==
  ASSUME LeaseRests, NEW c \in Closers, NEW d \in Closers, c # d,
         pc[c] \in Working \cup {"leased"}
  PROVE  pc[d] \notin Working \cup {"leased"}
BY DEF LeaseRests

-------------------------------------------------------------------------------
\* Every step keeps the shapes.
LEMMA StepType ==
  ASSUME IndInv, Next
  PROVE  TypeOK'
<1>1. ASSUME NEW c \in Closers, Scope(c)
      PROVE  TypeOK'
  <2>1. TypeOK
    BY DEF IndInv
  <2> QED
    BY <1>1, <2>1, LeaveFacts, SpendType DEF Scope, TypeOK, Goto, PCs, Outcomes
<1>2. ASSUME NEW c \in Closers, AcquireLease(c)
      PROVE  TypeOK'
  <2>1. TypeOK
    BY DEF IndInv
  <2> QED
    BY <1>2, <2>1, LeaveFacts, SpendType DEF AcquireLease, TypeOK, Goto, PCs, Outcomes
<1>3. ASSUME NEW c \in Closers, ReadRecorded(c)
      PROVE  TypeOK'
  <2>1. TypeOK
    BY DEF IndInv
  <2>2. CASE Undecodable
    BY <1>3, <2>1, <2>2, LeaveFacts DEF ReadRecorded, RecordedSteps, TypeOK
  <2>3. CASE ~Undecodable
    <3>1. Decoded \in [Steps -> Outcomes] /\ PendingSteps(Decoded) \subseteq Steps
      BY <2>1, <2>3, DecodedFacts DEF PendingSteps
    <3>2. recorded' \in [Closers -> [Steps -> Outcomes]] /\ todo' \in [Closers -> SUBSET Steps]
      BY <1>3, <2>1, <2>3, <3>1 DEF ReadRecorded, RecordedSteps, TypeOK
    <3>3. pc' \in [Closers -> PCs] /\ UNCHANGED << lease, outcome, seen >>
      BY <1>3, <2>1, <2>3 DEF ReadRecorded, RecordedSteps, Goto, PCs, TypeOK
    <3> QED
      BY <1>3, <2>1, <3>2, <3>3 DEF ReadRecorded, TypeOK
  <2> QED
    BY <2>2, <2>3
<1>4. ASSUME NEW c \in Closers, NEW ok \in BOOLEAN, WithdrawTrust(c, ok)
      PROVE  TypeOK'
  <2>1. TypeOK /\ left' \in [Faults -> Nat] /\ UNCHANGED << exists, verdict >>
    BY <1>4, SpendType DEF IndInv, WithdrawTrust
  <2>2. CASE ok = FALSE
    BY <1>4, <2>1, <2>2, LeaveFacts DEF WithdrawTrust, TypeOK
  <2>3. CASE ok = TRUE
    <3> DEFINE rec == [recorded[c] EXCEPT ![Trust] = "blocked"]
    <3>1. rec \in [Steps -> Outcomes] /\ PendingSteps(rec) \subseteq Steps
      BY <2>1 DEF PendingSteps, TypeOK, Outcomes
    <3>2. /\ recorded' = [recorded EXCEPT ![c] = rec]
          /\ todo' = [todo EXCEPT ![c] = PendingSteps(rec)]
          /\ rows' = [rows EXCEPT ![Trust] = "blocked"] /\ Goto(c, "ready")
          /\ UNCHANGED << lease, outcome, seen >>
      BY <1>4, <2>3 DEF WithdrawTrust
    <3> HIDE DEF rec
    <3>3. recorded' \in [Closers -> [Steps -> Outcomes]] /\ todo' \in [Closers -> SUBSET Steps]
      BY <2>1, <3>1, <3>2 DEF TypeOK
    <3>4. rows' \in [Steps -> Labels] /\ pc' \in [Closers -> PCs]
      BY <2>1, <3>2 DEF TypeOK, Labels, Outcomes, Goto, PCs
    <3> QED
      BY <2>1, <3>2, <3>3, <3>4 DEF TypeOK
  <2> QED
    BY <2>2, <2>3
<1>5. ASSUME NEW c \in Closers, StartStep(c)
      PROVE  TypeOK'
  <2>1. TypeOK
    BY DEF IndInv
  <2>2. outcome' \in [Closers -> Outcomes] /\ pc' \in [Closers -> PCs]
    BY <1>5, <2>1 DEF StartStep, TypeOK, Goto, PCs, Outcomes
  <2> QED
    BY <1>5, <2>1, <2>2 DEF StartStep, TypeOK
<1>6. ASSUME NEW c \in Closers, NEW o \in Outcomes, FinishStep(c, o)
      PROVE  TypeOK'
  <2>1. TypeOK /\ ~Undecodable /\ left' \in [Faults -> Nat]
    BY <1>6, SpendType DEF IndInv, FinishStep, PassRests, CopyRests, Working
  <2>2. Decoded \in [Steps -> Outcomes]
    BY <2>1, DecodedFacts
  <2>3. /\ seen' \in [Closers -> [Steps -> Outcomes]]
        /\ outcome' \in [Closers -> Outcomes] /\ pc' \in [Closers -> PCs]
    BY <1>6, <2>1, <2>2 DEF FinishStep, TypeOK, Goto, PCs
  <2> QED
    BY <1>6, <2>1, <2>3 DEF FinishStep, TypeOK
<1>7. ASSUME NEW c \in Closers, NEW ok \in BOOLEAN, RecordStep(c, ok)
      PROVE  TypeOK'
  <2>1. TypeOK /\ left' \in [Faults -> Nat] /\ UNCHANGED exists
    BY <1>7, SpendType DEF IndInv, RecordStep
  <2>2. CASE ok = FALSE
    BY <1>7, <2>1, <2>2, LeaveFacts DEF RecordStep, TypeOK
  <2>3. CASE ok = TRUE
    <3>1. todo[c] \in SUBSET Steps /\ todo[c] # {} /\ outcome[c] \in Outcomes
      BY <1>7, <2>1 DEF IndInv, TypeOK, PassRests, StepRests, RecordStep, Working
    <3>2. PICK s \in Steps : s = FirstOf(todo[c])
      BY <3>1, FirstFacts
    <3>3. /\ rows' = [rows EXCEPT ![s] = outcome[c]]
          /\ recorded' = [recorded EXCEPT ![c][s] = outcome[c]]
          /\ todo' = [todo EXCEPT ![c] = todo[c] \ {s}]
          /\ verdict' = IF s = Trust THEN seen[c] ELSE verdict
          /\ Goto(c, "ready") /\ UNCHANGED << lease, outcome, seen >>
      BY <1>7, <2>3, <3>2 DEF RecordStep
    <3>4. rows' \in [Steps -> Labels] /\ verdict' \in [Steps -> Labels]
      BY <2>1, <3>1, <3>3 DEF TypeOK, Labels
    <3>5. recorded' \in [Closers -> [Steps -> Outcomes]] /\ todo' \in [Closers -> SUBSET Steps]
      BY <2>1, <3>1, <3>3 DEF TypeOK
    <3>6. pc' \in [Closers -> PCs]
      BY <2>1, <3>3 DEF TypeOK, Goto, PCs
    <3> QED
      BY <2>1, <3>3, <3>4, <3>5, <3>6 DEF TypeOK
  <2> QED
    BY <2>2, <2>3
<1>8. ASSUME NEW c \in Closers, Return(c)
      PROVE  TypeOK'
  <2>1. TypeOK
    BY DEF IndInv
  <2> QED
    BY <1>8, <2>1, LeaveFacts, SpendType DEF Return, TypeOK, Goto, PCs, Outcomes
<1>9. ASSUME NEW c \in Closers, Lose(c)
      PROVE  TypeOK'
  <2>1. TypeOK
    BY DEF IndInv
  <2> QED
    BY <1>9, <2>1, LeaveFacts, SpendType DEF Lose, TypeOK, Goto, PCs, Outcomes
<1>10. ASSUME DeleteRun
      PROVE  TypeOK'
  <2>1. TypeOK /\ left' \in [Faults -> Nat]
    BY <1>10, SpendType DEF IndInv, DeleteRun
  <2>2. rows' \in [Steps -> Labels]
    BY <1>10, NoRowsType DEF DeleteRun, Labels
  <2> QED
    BY <1>10, <2>1, <2>2 DEF DeleteRun, TypeOK
<1> QED
  BY <1>1, <1>2, <1>3, <1>4, <1>5, <1>6, <1>7, <1>8, <1>9, <1>10 DEF Next, Pass

\* A pass that returns gives the lease back.
LEMMA LeaseLeft ==
  ASSUME TypeOK, LeaseRests, CloseoutAssumption, NEW c \in Closers, Leave(c),
         pc[c] \in Working \cup {"leased"}
  PROVE  LeaseRests'
<1>1. /\ \A d \in Closers : pc'[d] = IF d = c THEN "idle" ELSE pc[d]
      /\ lease = c /\ lease' = NoCloser
  BY DEF TypeOK, Leave, Goto, LeaseRests
<1> QED
  BY <1>1 DEF LeaseRests, Working, CloseoutAssumption

\* Every step leaves the lease with the pass that is at work, if there is one.
LEMMA StepLease ==
  ASSUME IndInv, Next, CloseoutAssumption
  PROVE  LeaseRests'
<1>1. ASSUME NEW c \in Closers, Scope(c)
      PROVE  LeaseRests'
  <2>1. TypeOK /\ LeaseRests
    BY DEF IndInv
  <2> QED
    BY <1>1, <2>1 DEF Scope, LeaseRests, Goto, LeaseRests, TypeOK, Working
<1>2. ASSUME NEW c \in Closers, AcquireLease(c)
      PROVE  LeaseRests'
  <2>1. TypeOK /\ LeaseRests /\ pc[c] \notin Working \cup {"leased"}
    BY <1>2 DEF IndInv, AcquireLease, Working
  <2>2. CASE lease = NoCloser
    BY <1>2, <2>1, <2>2 DEF AcquireLease, Goto, LeaseRests, TypeOK, Working, CloseoutAssumption
  <2>3. CASE lease # NoCloser
    BY <1>2, <2>1, <2>3 DEF AcquireLease, Goto, LeaseRests, TypeOK, Working
  <2> QED
    BY <2>2, <2>3
<1>3. ASSUME NEW c \in Closers, ReadRecorded(c)
      PROVE  LeaseRests'
  <2>1. TypeOK /\ LeaseRests /\ pc[c] \in Working \cup {"leased"}
    BY <1>3 DEF IndInv, ReadRecorded, Working
  <2>2. CASE Undecodable
    <3>1. Leave(c)
      BY <1>3, <2>2 DEF ReadRecorded, RecordedSteps
    <3> QED
      BY <2>1, <3>1, LeaseLeft
  <2>3. CASE ~Undecodable
    <3>1. pc' = [pc EXCEPT ![c] = pc'[c]] /\ pc'[c] \in Working /\ lease' = lease
      BY <1>3, <2>1, <2>3 DEF ReadRecorded, RecordedSteps, Goto, TypeOK, Working
    <3> QED
      BY <2>1, <3>1 DEF LeaseRests, TypeOK
  <2> QED
    BY <2>2, <2>3
<1>4. ASSUME NEW c \in Closers, NEW ok \in BOOLEAN, WithdrawTrust(c, ok)
      PROVE  LeaseRests'
  <2>1. TypeOK /\ LeaseRests /\ pc[c] \in Working \cup {"leased"}
    BY <1>4 DEF IndInv, WithdrawTrust, Working
  <2>2. CASE ok = FALSE
    <3>1. Leave(c)
      BY <1>4, <2>2 DEF WithdrawTrust
    <3> QED
      BY <2>1, <3>1, LeaseLeft
  <2>3. CASE ok = TRUE
    <3>1. pc' = [pc EXCEPT ![c] = pc'[c]] /\ pc'[c] \in Working /\ lease' = lease
      BY <1>4, <2>1, <2>3 DEF WithdrawTrust, Goto, TypeOK, Working
    <3> QED
      BY <2>1, <3>1 DEF LeaseRests, TypeOK
  <2> QED
    BY <2>2, <2>3
<1>5. ASSUME NEW c \in Closers, StartStep(c)
      PROVE  LeaseRests'
  <2>1. TypeOK /\ LeaseRests
    BY DEF IndInv
  <2> QED
    BY <1>5, <2>1 DEF StartStep, LeaseRests, Goto, LeaseRests, TypeOK, Working
<1>6. ASSUME NEW c \in Closers, NEW o \in Outcomes, FinishStep(c, o)
      PROVE  LeaseRests'
  <2>1. TypeOK /\ LeaseRests
    BY DEF IndInv
  <2> QED
    BY <1>6, <2>1 DEF FinishStep, LeaseRests, Goto, LeaseRests, TypeOK, Working
<1>7. ASSUME NEW c \in Closers, NEW ok \in BOOLEAN, RecordStep(c, ok)
      PROVE  LeaseRests'
  <2>1. TypeOK /\ LeaseRests /\ pc[c] \in Working \cup {"leased"}
    BY <1>7 DEF IndInv, RecordStep, Working
  <2>2. CASE ok = FALSE
    <3>1. Leave(c)
      BY <1>7, <2>2 DEF RecordStep
    <3> QED
      BY <2>1, <3>1, LeaseLeft
  <2>3. CASE ok = TRUE
    <3>1. pc' = [pc EXCEPT ![c] = pc'[c]] /\ pc'[c] \in Working /\ lease' = lease
      BY <1>7, <2>1, <2>3 DEF RecordStep, Goto, TypeOK, Working
    <3> QED
      BY <2>1, <3>1 DEF LeaseRests, TypeOK
  <2> QED
    BY <2>2, <2>3
<1>8. ASSUME NEW c \in Closers, Return(c)
      PROVE  LeaseRests'
  <2>1. TypeOK /\ LeaseRests
    BY DEF IndInv
  <2>2. Leave(c) /\ pc[c] \in Working \cup {"leased"}
    BY <1>8, <2>1 DEF Return, Working, PCs, TypeOK
  <2> QED
    BY <2>1, <2>2, LeaseLeft
<1>9. ASSUME NEW c \in Closers, Lose(c)
      PROVE  LeaseRests'
  <2>1. TypeOK /\ LeaseRests
    BY DEF IndInv
  <2>2. Leave(c) /\ pc[c] \in Working \cup {"leased"}
    BY <1>9, <2>1 DEF Lose, Working, PCs, TypeOK
  <2> QED
    BY <2>1, <2>2, LeaseLeft
<1>10. ASSUME DeleteRun
      PROVE  LeaseRests'
  <2>1. TypeOK /\ LeaseRests
    BY DEF IndInv
  <2> QED
    BY <1>10, <2>1 DEF DeleteRun, LeaseRests, Goto, LeaseRests, TypeOK, Working
<1> QED
  BY <1>1, <1>2, <1>3, <1>4, <1>5, <1>6, <1>7, <1>8, <1>9, <1>10 DEF Next, Pass

\* When the pass that holds the lease acts, no other is at work.
LEMMA OthersRest ==
  ASSUME LeaseRests, NEW c \in Closers, pc[c] \in Working \cup {"leased"},
         \A d \in Closers : d # c => pc'[d] = pc[d], PassRests(c)'
  PROVE  \A d \in Closers : PassRests(d)'
<1>1. ASSUME NEW d \in Closers, d # c PROVE PassRests(d)'
  BY <1>1, Alone DEF PassRests
<1> QED
  BY <1>1

\* A pass that returns has nothing to rest on.
LEMMA PassLeft ==
  ASSUME TypeOK, LeaseRests, NEW c \in Closers, Leave(c),
         pc[c] \in Working \cup {"leased"}
  PROVE  \A d \in Closers : PassRests(d)'
<1>1. pc'[c] = "idle" /\ \A d \in Closers : d # c => pc'[d] = pc[d]
  BY LeaveFacts
<1>2. PassRests(c)'
  BY <1>1 DEF PassRests, Working
<1> QED
  BY <1>1, <1>2, OthersRest

\* A caller who is not at work leaves the passes what they rest on.
LEMMA PassesKept ==
  ASSUME IndInv, UNCHANGED << rows, exists, recorded, todo, outcome, seen >>,
         NEW c \in Closers, \A d \in Closers : d # c => pc'[d] = pc[d], pc'[c] \notin Working
  PROVE  \A d \in Closers : PassRests(d)'
<1>1. Decoded' = Decoded /\ (Undecodable' <=> Undecodable)
  BY DecodedKept
<1>2. PassRests(c)'
  BY DEF PassRests
<1>3. ASSUME NEW d \in Closers, d # c PROVE PassRests(d)'
  <2>1. PassRests(d) /\ pc'[d] = pc[d]
    BY <1>3 DEF IndInv
  <2> QED
    BY <1>1, <2>1 DEF PassRests, CopyRests, PlanRests, StepRests, BlockedBy
<1> QED
  BY <1>2, <1>3

\* Every step leaves the pass at work what it rests on: only it changes the rows,
\* except for a deletion of the run.
LEMMA StepPass ==
  ASSUME IndInv, Next
  PROVE  \A d \in Closers : PassRests(d)'
<1>1. ASSUME NEW c \in Closers, Scope(c)
      PROVE  \A d \in Closers : PassRests(d)'
  <2>1. TypeOK /\ UNCHANGED << rows, exists, recorded, todo, outcome, seen >>
    BY <1>1 DEF IndInv, Scope
  <2>2. (\A d \in Closers : d # c => pc'[d] = pc[d]) /\ pc'[c] \notin Working
    BY <1>1, <2>1 DEF Scope, Goto, TypeOK, Working
  <2> QED
    BY <2>1, <2>2, PassesKept
<1>2. ASSUME NEW c \in Closers, AcquireLease(c)
      PROVE  \A d \in Closers : PassRests(d)'
  <2>1. TypeOK /\ UNCHANGED << rows, exists, recorded, todo, outcome, seen >>
    BY <1>2 DEF IndInv, AcquireLease
  <2>2. (\A d \in Closers : d # c => pc'[d] = pc[d]) /\ pc'[c] \notin Working
    BY <1>2, <2>1 DEF AcquireLease, Goto, TypeOK, Working
  <2> QED
    BY <2>1, <2>2, PassesKept
<1>3. ASSUME NEW c \in Closers, ReadRecorded(c)
      PROVE  \A d \in Closers : PassRests(d)'
  <2>1. TypeOK /\ LeaseRests /\ pc[c] \in Working \cup {"leased"}
    BY <1>3 DEF IndInv, ReadRecorded, Working
  <2>2. CASE Undecodable
    <3>1. Leave(c)
      BY <1>3, <2>2 DEF ReadRecorded, RecordedSteps
    <3> QED
      BY <2>1, <3>1, PassLeft
  <2>3. CASE ~Undecodable
    <3>1. /\ recorded' = [recorded EXCEPT ![c] = Decoded]
          /\ todo' = [todo EXCEPT ![c] = PendingSteps(Decoded)]
          /\ Goto(c, IF /\ IsTerminal(Decoded[Trust])
                        /\ \E s \in Audited : ~IsTerminal(Decoded[s])
                     THEN "withdraw" ELSE "ready")
          /\ UNCHANGED << rows, exists >>
      BY <1>3, <2>3 DEF ReadRecorded, RecordedSteps
    <3>2. /\ \A d \in Closers : d # c => pc'[d] = pc[d]
          /\ pc'[c] \in {"withdraw", "ready"}
          /\ pc'[c] = "ready" => \/ ~IsTerminal(Decoded[Trust])
                                 \/ \A s \in Audited : IsTerminal(Decoded[s])
      BY <2>1, <3>1 DEF Goto, TypeOK
    <3>3. recorded'[c] = Decoded /\ todo'[c] = PendingSteps(Decoded)
      BY <2>1, <3>1 DEF TypeOK
    <3>4. Decoded' = Decoded /\ ~Undecodable'
      BY <2>3, <3>1, DecodedKept
    <3>5. CopyRests(c)'
      BY <3>3, <3>4 DEF CopyRests
    <3>6. ASSUME pc'[c] # "withdraw" PROVE PlanRests(c)'
      <4>1. \A s \in todo'[c] : ~IsTerminal(recorded'[c][s])
        BY <3>3 DEF PendingSteps
      <4>2. \A s \in Steps \ todo'[c] : recorded'[c][s] # "none"
        BY <3>3 DEF PendingSteps, IsTerminal
      <4>3. todo'[c] # {} => Trust \in todo'[c]
        BY <3>2, <3>3, <3>6 DEF PendingSteps, Audited, Steps, Trust
      <4> QED
        BY <4>1, <4>2, <4>3 DEF PlanRests
    <3>7. StepRests(c)'
      BY <3>2 DEF StepRests
    <3>8. PassRests(c)'
      BY <3>5, <3>6, <3>7 DEF PassRests
    <3> QED
      BY <2>1, <3>2, <3>8, OthersRest
  <2> QED
    BY <2>2, <2>3
<1>4. ASSUME NEW c \in Closers, NEW ok \in BOOLEAN, WithdrawTrust(c, ok)
      PROVE  \A d \in Closers : PassRests(d)'
  <2>1. TypeOK /\ LeaseRests /\ pc[c] \in Working \cup {"leased"}
    BY <1>4 DEF IndInv, WithdrawTrust, Working
  <2>2. CASE ok = FALSE
    <3>1. Leave(c)
      BY <1>4, <2>2 DEF WithdrawTrust
    <3> QED
      BY <2>1, <3>1, PassLeft
  <2>3. CASE ok = TRUE
    <3>1. CopyRests(c) /\ recorded[c] \in [Steps -> Outcomes] /\ Trust \in Steps
      BY <1>4 DEF IndInv, WithdrawTrust, PassRests, Working, TypeOK, Steps, Trust
    <3> DEFINE rec == [recorded[c] EXCEPT ![Trust] = "blocked"]
    <3>2. /\ recorded' = [recorded EXCEPT ![c] = rec]
          /\ todo' = [todo EXCEPT ![c] = PendingSteps(rec)]
          /\ rows' = [rows EXCEPT ![Trust] = "blocked"] /\ Goto(c, "ready")
          /\ UNCHANGED exists
      BY <1>4, <2>3 DEF WithdrawTrust
    <3>3. /\ rec[Trust] = "blocked" /\ \A s \in Steps : s # Trust => rec[s] = recorded[c][s]
          /\ rec \in [Steps -> Outcomes]
      BY <3>1 DEF Outcomes
    <3>4. exists => rec = [Decoded EXCEPT ![Trust] = "blocked"]
      BY <3>1 DEF CopyRests
    <3> HIDE DEF rec
    <3>5. recorded'[c] = rec /\ todo'[c] = PendingSteps(rec)
      BY <2>1, <3>2 DEF TypeOK
    <3>6. /\ \A d \in Closers : d # c => pc'[d] = pc[d]
          /\ pc'[c] = "ready"
      BY <2>1, <3>2 DEF Goto, TypeOK
    <3>7. Decoded' = [Decoded EXCEPT ![Trust] = "blocked"] /\ ~Undecodable'
      <4>1. "blocked" \in Outcomes
        BY DEF Outcomes
      <4> QED
        BY <2>1, <3>1, <3>2, <4>1, DecodedSet DEF CopyRests
    <3>8. CopyRests(c)'
      <4>1. exists' => recorded'[c] = Decoded'
        BY <3>2, <3>4, <3>5, <3>7
      <4>2. ASSUME NEW s \in Steps, IsTerminal(Decoded'[s]) PROVE IsTerminal(rec[s])
        <5>1. Decoded \in [Steps -> Labels]
          BY <2>1, DecodedFacts
        <5>2. s # Trust /\ Decoded'[s] = Decoded[s]
          BY <3>1, <3>7, <4>2, <5>1 DEF IsTerminal
        <5> QED
          BY <3>1, <3>3, <4>2, <5>2 DEF CopyRests
      <4> QED
        BY <3>5, <3>7, <4>1, <4>2 DEF CopyRests
    <3>9. PlanRests(c)'
      BY <3>1, <3>3, <3>5 DEF PlanRests, PendingSteps, IsTerminal
    <3>10. StepRests(c)'
      BY <3>6 DEF StepRests
    <3>11. PassRests(c)'
      BY <3>8, <3>9, <3>10 DEF PassRests
    <3> QED
      BY <2>1, <3>6, <3>11, OthersRest
  <2> QED
    BY <2>2, <2>3
<1>5. ASSUME NEW c \in Closers, StartStep(c)
      PROVE  \A d \in Closers : PassRests(d)'
  <2>1. /\ TypeOK /\ LeaseRests /\ pc[c] = "ready" /\ pc[c] \in Working \cup {"leased"}
        /\ todo[c] # {} /\ UNCHANGED << rows, exists, recorded, todo, seen >>
    BY <1>5 DEF IndInv, StartStep, Working
  <2>2. CopyRests(c) /\ PlanRests(c)
    BY <2>1 DEF IndInv, PassRests, Working
  <2>3. /\ \A d \in Closers : d # c => pc'[d] = pc[d]
        /\ \/ /\ BlockedBy(FirstOf(todo[c]), recorded[c])
              /\ pc'[c] = "record" /\ outcome'[c] = "blocked"
           \/ /\ ~BlockedBy(FirstOf(todo[c]), recorded[c])
              /\ pc'[c] = "working"
    BY <1>5, <2>1 DEF StartStep, Goto, TypeOK
  <2>4. Decoded' = Decoded /\ (Undecodable' <=> Undecodable)
    BY <2>1, DecodedKept
  <2>5. CopyRests(c)' /\ PlanRests(c)'
    BY <2>1, <2>2, <2>4 DEF CopyRests, PlanRests
  <2>6. StepRests(c)'
    <3>1. todo[c] \in SUBSET Steps
      BY <2>1 DEF TypeOK
    <3>2. ~BlockedBy(Trust, recorded[c]) /\ ~IsTerminal("blocked")
      BY DEF BlockedBy, Consumes, Trust, IsTerminal
    <3> QED
      BY <2>1, <2>3, <2>4, <3>2 DEF StepRests, BlockedBy
  <2>7. PassRests(c)'
    BY <2>5, <2>6 DEF PassRests
  <2> QED
    BY <2>1, <2>3, <2>7, OthersRest
<1>6. ASSUME NEW c \in Closers, NEW o \in Outcomes, FinishStep(c, o)
      PROVE  \A d \in Closers : PassRests(d)'
  <2>1. /\ TypeOK /\ LeaseRests /\ pc[c] = "working" /\ pc[c] \in Working \cup {"leased"}
        /\ UNCHANGED << rows, exists, recorded, todo >>
    BY <1>6 DEF IndInv, FinishStep, Working
  <2>2. CopyRests(c) /\ PlanRests(c) /\ StepRests(c)
    BY <2>1 DEF IndInv, PassRests, Working
  <2>3. /\ \A d \in Closers : d # c => pc'[d] = pc[d]
        /\ pc'[c] = "record" /\ outcome'[c] = o
        /\ FirstOf(todo[c]) = Trust => seen'[c] = Decoded
        /\ o # "none"
    BY <1>6, <2>1 DEF FinishStep, Goto, TypeOK, StepOutcomes
  <2>4. Decoded' = Decoded /\ (Undecodable' <=> Undecodable)
    BY <2>1, DecodedKept
  <2>5. CopyRests(c)' /\ PlanRests(c)'
    BY <2>1, <2>2, <2>4 DEF CopyRests, PlanRests
  <2>6. StepRests(c)'
    BY <2>1, <2>2, <2>3, <2>4 DEF StepRests, BlockedBy
  <2>7. PassRests(c)'
    BY <2>5, <2>6 DEF PassRests
  <2> QED
    BY <2>1, <2>3, <2>7, OthersRest
<1>7. ASSUME NEW c \in Closers, NEW ok \in BOOLEAN, RecordStep(c, ok)
      PROVE  \A d \in Closers : PassRests(d)'
  <2>1. TypeOK /\ LeaseRests /\ pc[c] \in Working \cup {"leased"}
    BY <1>7 DEF IndInv, RecordStep, Working
  <2>2. CASE ok = FALSE
    <3>1. Leave(c)
      BY <1>7, <2>2 DEF RecordStep
    <3> QED
      BY <2>1, <3>1, PassLeft
  <2>3. CASE ok = TRUE
    <3>1. CopyRests(c) /\ PlanRests(c) /\ StepRests(c) /\ pc[c] = "record"
      BY <1>7 DEF IndInv, RecordStep, PassRests, Working
    <3>2. /\ todo[c] \in SUBSET Steps /\ todo[c] # {} /\ outcome[c] \in Outcomes
          /\ outcome[c] # "none" /\ recorded[c] \in [Steps -> Outcomes]
      BY <2>1, <3>1 DEF TypeOK, StepRests
    <3>3. PICK s \in todo[c] : s = FirstOf(todo[c])
      BY <3>2, FirstFacts
    <3>4. s \in Steps /\ (s = Trust => todo[c] = {Trust})
      BY <3>2, <3>3, FirstFacts
    <3>5. /\ rows' = [rows EXCEPT ![s] = outcome[c]]
          /\ recorded' = [recorded EXCEPT ![c][s] = outcome[c]]
          /\ todo' = [todo EXCEPT ![c] = todo[c] \ {s}]
          /\ Goto(c, "ready") /\ UNCHANGED exists
      BY <1>7, <2>3, <3>3 DEF RecordStep
    <3>6. /\ \A d \in Closers : d # c => pc'[d] = pc[d]
          /\ pc'[c] = "ready"
      BY <2>1, <3>5 DEF Goto, TypeOK
    <3>7. /\ recorded'[c] = [recorded[c] EXCEPT ![s] = outcome[c]]
          /\ todo'[c] = todo[c] \ {s}
      BY <2>1, <3>5 DEF TypeOK
    <3>8. Decoded' = [Decoded EXCEPT ![s] = outcome[c]] /\ ~Undecodable'
      BY <2>1, <3>1, <3>2, <3>4, <3>5, DecodedSet DEF CopyRests
    <3>9. CopyRests(c)'
      <4>1. Decoded \in [Steps -> Labels]
        BY <2>1, DecodedFacts
      <4>2. \A t \in Steps : /\ recorded'[c][t] = IF t = s THEN outcome[c] ELSE recorded[c][t]
                             /\ Decoded'[t] = IF t = s THEN outcome[c] ELSE Decoded[t]
        BY <3>2, <3>4, <3>7, <3>8, <4>1
      <4>3. exists' => recorded'[c] = Decoded'
        BY <3>1, <3>5, <3>7, <3>8 DEF CopyRests
      <4> QED
        BY <3>1, <3>8, <4>2, <4>3 DEF CopyRests
    <3>10. PlanRests(c)'
      <4>1. \A t \in Steps : recorded'[c][t] = IF t = s THEN outcome[c] ELSE recorded[c][t]
        BY <3>2, <3>4, <3>7
      <4>2. todo'[c] # {} => Trust \in todo'[c]
        BY <3>1, <3>3, <3>4, <3>7 DEF PlanRests
      <4> QED
        BY <3>1, <3>2, <3>7, <4>1, <4>2 DEF PlanRests
    <3>11. StepRests(c)'
      BY <3>6 DEF StepRests
    <3>12. PassRests(c)'
      BY <3>9, <3>10, <3>11 DEF PassRests
    <3> QED
      BY <2>1, <3>6, <3>12, OthersRest
  <2> QED
    BY <2>2, <2>3
<1>8. ASSUME NEW c \in Closers, Return(c)
      PROVE  \A d \in Closers : PassRests(d)'
  <2>1. TypeOK /\ LeaseRests /\ pc[c] \in Working \cup {"leased"}
    BY <1>8 DEF IndInv, Return, Working, PCs, TypeOK
  <2>2. Leave(c)
    BY <1>8 DEF Return
  <2> QED
    BY <2>1, <2>2, PassLeft
<1>9. ASSUME NEW c \in Closers, Lose(c)
      PROVE  \A d \in Closers : PassRests(d)'
  <2>1. TypeOK /\ LeaseRests /\ pc[c] \in Working \cup {"leased"}
    BY <1>9 DEF IndInv, Lose, Working, PCs, TypeOK
  <2>2. Leave(c)
    BY <1>9 DEF Lose
  <2> QED
    BY <2>1, <2>2, PassLeft
<1>10. ASSUME DeleteRun
      PROVE  \A d \in Closers : PassRests(d)'
  <2>1. /\ TypeOK /\ rows' = NoRows /\ exists' = FALSE
        /\ UNCHANGED << pc, recorded, todo, outcome, seen >>
    BY <1>10 DEF IndInv, DeleteRun
  <2>2. \A s \in Steps : rows'[s] = "none" /\ Decoded'[s] = "none"
    BY <2>1, NoRowsType DEF Decoded, DecodeOutcome
  <2>3. ASSUME NEW d \in Closers, pc[d] \in Working PROVE CopyRests(d)'
    BY <2>1, <2>2 DEF CopyRests, Undecodable, IsTerminal
  <2>4. ASSUME NEW d \in Closers, pc[d] \in Working, pc[d] # "withdraw"
        PROVE  PlanRests(d)' /\ StepRests(d)'
    <3>1. PlanRests(d) /\ StepRests(d)
      BY <2>4 DEF IndInv, PassRests
    <3> QED
      BY <2>1, <3>1 DEF PlanRests, StepRests, BlockedBy
  <2> QED
    BY <2>1, <2>3, <2>4 DEF PassRests
<1> QED
  BY <1>1, <1>2, <1>3, <1>4, <1>5, <1>6, <1>7, <1>8, <1>9, <1>10 DEF Next, Pass

\* Who leaves the rows alone leaves what they say alone.
LEMMA RowsKept ==
  ASSUME TrustIsCurrent, DependentsRestOnSuccess, UNCHANGED << rows, exists, verdict >>
  PROVE  TrustIsCurrent' /\ DependentsRestOnSuccess'
<1>1. Decoded' = Decoded
  BY DecodedKept
<1> QED
  BY <1>1 DEF TrustIsCurrent, DependentsRestOnSuccess

\* Every step keeps the report current and the dependents on what succeeded: a
\* row changes only while the report is withdrawn, and only if it was not final.
LEMMA StepRows ==
  ASSUME IndInv, Next
  PROVE  TrustIsCurrent' /\ DependentsRestOnSuccess'
<1>1. ASSUME NEW c \in Closers, Scope(c)
      PROVE  TrustIsCurrent' /\ DependentsRestOnSuccess'
  <2>1. UNCHANGED << rows, exists, verdict >>
    BY <1>1 DEF Scope, IndInv
  <2> QED
    BY <2>1, RowsKept DEF IndInv
<1>2. ASSUME NEW c \in Closers, AcquireLease(c)
      PROVE  TrustIsCurrent' /\ DependentsRestOnSuccess'
  <2>1. UNCHANGED << rows, exists, verdict >>
    BY <1>2 DEF AcquireLease, IndInv
  <2> QED
    BY <2>1, RowsKept DEF IndInv
<1>3. ASSUME NEW c \in Closers, ReadRecorded(c)
      PROVE  TrustIsCurrent' /\ DependentsRestOnSuccess'
  <2>1. UNCHANGED << rows, exists, verdict >>
    BY <1>3 DEF ReadRecorded, IndInv
  <2> QED
    BY <2>1, RowsKept DEF IndInv
<1>4. ASSUME NEW c \in Closers, NEW ok \in BOOLEAN, WithdrawTrust(c, ok)
      PROVE  TrustIsCurrent' /\ DependentsRestOnSuccess'
  <2>1. TypeOK /\ TrustIsCurrent /\ DependentsRestOnSuccess /\ UNCHANGED << exists, verdict >>
    BY <1>4 DEF IndInv, WithdrawTrust
  <2>2. CASE ok = FALSE
    BY <1>4, <2>1, <2>2, RowsKept DEF WithdrawTrust
  <2>3. CASE ok = TRUE
    <3>1. "blocked" \in Outcomes /\ Trust \in Steps /\ ~IsTerminal("blocked")
      BY DEF Outcomes, Steps, Trust, IsTerminal
    <3>2. rows' = [rows EXCEPT ![Trust] = "blocked"]
      BY <1>4, <2>3 DEF WithdrawTrust
    <3>3. \A t \in Steps : Decoded'[t] = IF t = Trust THEN "blocked" ELSE Decoded[t]
      BY <2>1, <3>1, <3>2, DecodedSet, DecodedFacts
    <3>4. TrustIsCurrent'
      BY <3>1, <3>3 DEF TrustIsCurrent
    <3>5. DependentsRestOnSuccess'
      BY <2>1, <3>1, <3>3 DEF DependentsRestOnSuccess, Consumes, Trust, Steps
    <3> QED
      BY <3>4, <3>5
  <2> QED
    BY <2>2, <2>3
<1>5. ASSUME NEW c \in Closers, StartStep(c)
      PROVE  TrustIsCurrent' /\ DependentsRestOnSuccess'
  <2>1. UNCHANGED << rows, exists, verdict >>
    BY <1>5 DEF StartStep, IndInv
  <2> QED
    BY <2>1, RowsKept DEF IndInv
<1>6. ASSUME NEW c \in Closers, NEW o \in Outcomes, FinishStep(c, o)
      PROVE  TrustIsCurrent' /\ DependentsRestOnSuccess'
  <2>1. UNCHANGED << rows, exists, verdict >>
    BY <1>6 DEF FinishStep, IndInv
  <2> QED
    BY <2>1, RowsKept DEF IndInv
<1>7. ASSUME NEW c \in Closers, NEW ok \in BOOLEAN, RecordStep(c, ok)
      PROVE  TrustIsCurrent' /\ DependentsRestOnSuccess'
  <2>1. TypeOK /\ TrustIsCurrent /\ DependentsRestOnSuccess /\ UNCHANGED exists
    BY <1>7 DEF IndInv, RecordStep
  <2>2. CASE ok = FALSE
    BY <1>7, <2>1, <2>2, RowsKept DEF RecordStep
  <2>3. CASE ok = TRUE /\ ~exists
    BY <2>1, <2>3 DEF TrustIsCurrent, DependentsRestOnSuccess
  <2>4. CASE ok = TRUE /\ exists
    <3>1. /\ CopyRests(c) /\ PlanRests(c) /\ StepRests(c) /\ pc[c] = "record"
          /\ recorded[c] = Decoded
      BY <1>7, <2>4 DEF IndInv, RecordStep, PassRests, Working, CopyRests
    <3>2. todo[c] \in SUBSET Steps /\ todo[c] # {} /\ outcome[c] \in Outcomes
      BY <2>1, <3>1 DEF TypeOK, StepRests
    <3>3. PICK s \in todo[c] : s = FirstOf(todo[c])
      BY <3>2, FirstFacts
    <3>4. /\ s \in Steps /\ (s = Trust => todo[c] = {Trust}) /\ Trust \in todo[c]
          /\ ("Triage" \in todo[c] => s = "Triage") /\ Decoded \in [Steps -> Outcomes]
      BY <2>1, <3>1, <3>2, <3>3, FirstFacts, DecodedFacts DEF PlanRests, CopyRests
    <3>5. rows' = [rows EXCEPT ![s] = outcome[c]] /\ verdict' = IF s = Trust THEN seen[c] ELSE verdict
      BY <1>7, <2>4, <3>3 DEF RecordStep
    <3>6. \A t \in Steps : Decoded'[t] = IF t = s THEN outcome[c] ELSE Decoded[t]
      <4>1. Decoded' = [Decoded EXCEPT ![s] = outcome[c]]
        BY <2>1, <3>2, <3>4, <3>5, DecodedSet
      <4> QED
        BY <3>4, <4>1
    <3>7. TrustIsCurrent'
      <4>1. CASE s = Trust
        <5>1. seen[c] = Decoded
          BY <2>4, <3>1, <3>3, <4>1 DEF StepRests
        <5> QED
          BY <3>5, <3>6, <4>1, <5>1 DEF TrustIsCurrent, Audited
      <4>2. CASE s # Trust
        <5>1. ~IsTerminal(Decoded'[Trust])
          BY <3>1, <3>2, <3>4, <3>6, <4>2 DEF PlanRests
        <5> QED
          BY <5>1 DEF TrustIsCurrent
      <4> QED
        BY <4>1, <4>2
    <3>8. DependentsRestOnSuccess'
      <4>1. ASSUME NEW t \in Steps, IsTerminal(Decoded'[t]), NEW d \in Consumes(t)
            PROVE  IsTerminal(Decoded'[d])
        <5>1. d = "Triage" /\ t # "Triage" /\ d \in Steps
          BY <4>1 DEF Consumes, Steps
        <5>2. CASE t = s
          <6>1. ~BlockedBy(s, recorded[c])
            BY <3>1, <3>3, <3>6, <4>1, <5>2 DEF StepRests
          <6>2. Decoded[d] \notin {"failed", "blocked"}
            BY <3>1, <4>1, <5>2, <6>1 DEF BlockedBy
          <6>3. Decoded[d] # "none"
            BY <3>1, <3>4, <5>1, <5>2 DEF PlanRests
          <6> QED
            BY <3>4, <3>6, <5>1, <5>2, <6>2, <6>3 DEF Outcomes, IsTerminal
        <5>3. CASE t # s
          <6>1. IsTerminal(Decoded[d])
            BY <2>1, <2>4, <3>6, <4>1, <5>3 DEF DependentsRestOnSuccess
          <6>2. d # s
            BY <3>1, <3>3, <6>1 DEF PlanRests
          <6> QED
            BY <3>6, <5>1, <6>1, <6>2
        <5> QED
          BY <5>2, <5>3
      <4> QED
        BY <4>1 DEF DependentsRestOnSuccess
    <3> QED
      BY <3>7, <3>8
  <2> QED
    BY <2>2, <2>3, <2>4
<1>8. ASSUME NEW c \in Closers, Return(c)
      PROVE  TrustIsCurrent' /\ DependentsRestOnSuccess'
  <2>1. UNCHANGED << rows, exists, verdict >>
    BY <1>8 DEF Return, IndInv
  <2> QED
    BY <2>1, RowsKept DEF IndInv
<1>9. ASSUME NEW c \in Closers, Lose(c)
      PROVE  TrustIsCurrent' /\ DependentsRestOnSuccess'
  <2>1. UNCHANGED << rows, exists, verdict >>
    BY <1>9 DEF Lose, IndInv
  <2> QED
    BY <2>1, RowsKept DEF IndInv
<1>10. ASSUME DeleteRun
      PROVE  TrustIsCurrent' /\ DependentsRestOnSuccess'
  BY <1>10 DEF DeleteRun, TrustIsCurrent, DependentsRestOnSuccess
<1> QED
  BY <1>1, <1>2, <1>3, <1>4, <1>5, <1>6, <1>7, <1>8, <1>9, <1>10 DEF Next, Pass

-------------------------------------------------------------------------------
(* The invariant holds at first, and in every state.                         *)

\* At first nobody is at work, and the rows are those an earlier version left.
LEMMA InitIndInv ==
  ASSUME CloseoutAssumption, Init
  PROVE  IndInv
<1>1. TypeOK
  <2>1. rows \in [Steps -> Labels] /\ left \in [Faults -> Nat]
    BY DEF Init, CloseoutAssumption
  <2>2. Decoded \in [Steps -> Labels]
    BY <2>1 DEF Decoded, DecodeOutcome, Labels, Outcomes
  <2>3. "idle" \in PCs /\ "none" \in Outcomes
    BY DEF PCs, Outcomes
  <2> QED
    BY <2>1, <2>2, <2>3, NoRowsType DEF Init, TypeOK
<1>2. LeaseRests /\ \A c \in Closers : PassRests(c)
  BY DEF Init, LeaseRests, PassRests, Working, CloseoutAssumption
<1>3. TrustIsCurrent
  BY DEF Init, TrustIsCurrent
<1>4. DependentsRestOnSuccess
  <2>1. \A s \in Steps : Decoded[s] = DecodeOutcome(rows[s])
    BY DEF Decoded
  <2>2. \A s \in Steps : Consumes(s) \subseteq Steps
    BY DEF Consumes, Steps
  <2> QED
    BY <2>1, <2>2 DEF Init, CloseoutAssumption, DependentsRestOnSuccess
<1> QED
  BY <1>1, <1>2, <1>3, <1>4 DEF IndInv

\* Whatever leaves the variables alone leaves the invariant alone.
LEMMA StutterIndInv ==
  ASSUME IndInv, UNCHANGED vars
  PROVE  IndInv'
<1>1. TypeOK' /\ LeaseRests'
  BY DEF vars, IndInv, TypeOK, LeaseRests
<1>2. Decoded' = Decoded /\ (Undecodable' <=> Undecodable)
  BY DecodedKept DEF vars
<1>3. ASSUME NEW c \in Closers PROVE PassRests(c)'
  BY <1>2 DEF vars, IndInv, PassRests, CopyRests, PlanRests, StepRests, BlockedBy
<1>4. TrustIsCurrent' /\ DependentsRestOnSuccess'
  BY RowsKept DEF vars, IndInv
<1> QED
  BY <1>1, <1>3, <1>4 DEF IndInv

\* The inductive invariant, in every behaviour of close_out_run.
THEOREM CloseoutInvariant == ASSUME CloseoutAssumption PROVE Spec => []IndInv
<1>1. ASSUME IndInv, Next PROVE IndInv'
  BY <1>1, StepType, StepLease, StepPass, StepRows DEF IndInv
<1> QED
  BY <1>1, InitIndInv, StutterIndInv, PTL DEF Spec

\* The closeout of a run (crates/hf-service/src/container/run_closeout.rs) with any
\* number of competing passes, lost passes, failed writes and a deletion: a retained
\* trust report audited what the rows say now, no dependent concludes on a failed
\* triage, undecodable rows trigger no work, a pass that ends skipped no step.
THEOREM CloseoutAlwaysHolds == ASSUME CloseoutAssumption PROVE Spec => []CloseoutHolds
<1>1. ASSUME IndInv PROVE UndecodableStopsWork
  <2>1. \A c \in Closers : pc[c] \in Working => ~Undecodable
    BY <1>1 DEF IndInv, PassRests, CopyRests
  <2>2. \A c \in Closers : pc[c] \in PCs
    BY <1>1 DEF IndInv, TypeOK
  <2> QED
    BY <2>1, <2>2 DEF UndecodableStopsWork, PCs, Working
<1>2. ASSUME IndInv PROVE ReturnedPassIsComplete
  <2>1. ASSUME NEW c \in Closers, exists, pc[c] = "ready", todo[c] = {}, NEW s \in Steps
        PROVE  rows[s] # "none"
    <3>1. recorded[c] = Decoded /\ recorded[c][s] # "none"
      BY <1>2, <2>1 DEF IndInv, PassRests, CopyRests, PlanRests, Working
    <3> QED
      BY <3>1 DEF Decoded, DecodeOutcome
  <2> QED
    BY <2>1 DEF ReturnedPassIsComplete
<1>3. IndInv => CloseoutHolds
  BY <1>1, <1>2 DEF IndInv, CloseoutHolds
<1> QED
  BY <1>3, CloseoutInvariant, PTL

\* No pass starts a step whose row is final at that moment, by whomever and whenever
\* it was recorded: the pending steps are read under the lease.
THEOREM StepsAreNotRedone == ASSUME CloseoutAssumption PROVE Spec => [][NoReworkStep]_vars
<1>1. ASSUME IndInv, [Next]_vars PROVE [NoReworkStep]_vars
  <2>1. ASSUME NEW c \in Closers, pc[c] = "ready", pc'[c] = "working"
        PROVE  ~IsTerminal(Decoded[FirstOf(todo[c])])
    <3>1. CopyRests(c) /\ PlanRests(c) /\ todo[c] \in SUBSET Steps
      BY <1>1, <2>1 DEF IndInv, PassRests, Working, TypeOK
    <3>2. todo[c] # {}
      <4>1. CASE StartStep(c)
        BY <4>1 DEF StartStep
      <4>2. CASE ~StartStep(c)
        <5>1. TypeOK /\ pc'[c] # pc[c]
          BY <1>1, <2>1 DEF IndInv
        <5>2. ASSUME NEW d \in Closers, d # c, Scope(d) \/ Pass(d) \/ Lose(d)
              PROVE  pc'[c] = pc[c]
          BY <5>1, <5>2 DEF TypeOK, Scope, Pass, Lose, AcquireLease, ReadRecorded,
               RecordedSteps, StartStep, Return, WithdrawTrust, RecordStep, FinishStep,
               Leave, Goto
        <5>3. ~(Scope(c) \/ Pass(c) \/ Lose(c))
          BY <2>1, <4>2, <5>1 DEF TypeOK, Scope, Pass, Lose, AcquireLease, ReadRecorded,
               Return, WithdrawTrust, RecordStep, FinishStep, Leave, Goto
        <5> QED
          BY <1>1, <5>1, <5>2, <5>3 DEF Next, DeleteRun, vars
      <4> QED
        BY <4>1, <4>2
    <3>3. FirstOf(todo[c]) \in todo[c] /\ FirstOf(todo[c]) \in Steps
      BY <3>1, <3>2, FirstFacts
    <3> QED
      BY <3>1, <3>3 DEF CopyRests, PlanRests
  <2> QED
    BY <2>1 DEF NoReworkStep
<1> QED
  BY <1>1, CloseoutInvariant, PTL DEF Spec

-------------------------------------------------------------------------------
(* Source scans.                                                             *)

CONSTANTS Procs, Ops, ProjectOf, MaxFaults, MaxCrashes, TornWrites

VARIABLES scan, journal, staging, at, owner, cancelled, up, poisoned, degraded,
          recovery, faults, crashes

J == INSTANCE SemgrepJournal WITH row <- scan, rec <- recovery

\* A step of operation o's own task: the three places of o, where it goes on
\* and who owns it; the rest of the disk and the recoveries stay.
Moves(o, r, j, s, a, w) ==
    /\ scan' = [scan EXCEPT ![o] = r] /\ journal' = [journal EXCEPT ![o] = j]
    /\ staging' = [staging EXCEPT ![o] = s] /\ at' = [at EXCEPT ![o] = a]
    /\ owner' = [owner EXCEPT ![o] = w]
    /\ UNCHANGED <<cancelled, up, recovery, crashes>>
    /\ poisoned' \subseteq Procs /\ degraded' \subseteq Procs /\ faults' \in 0..MaxFaults

\* What an operation's places may be for it to go on at a step.
Fits(o, r, j, s, a, w) ==
    /\ r \in J!Rows /\ j \in J!Lifecycles /\ s \in BOOLEAN
    /\ a \in J!Working \cup {"none"} /\ w \in Procs \cup {"none"}
    /\ J!DiskFits(r, j, s, cancelled[o]) /\ J!TaskFits(r, j, s, cancelled[o], a)
    /\ (w # "none") <=> (a # "none")

\* The names of steps and states.
LEMMA ScanNames ==
    /\ J!Working = {"insert", "begin", "stage", "set_scanning", "run", "claim", "claim_failure",
                    "set_validating", "set_persisting", "ready", "publish", "cleanup", "close",
                    "compensate", "fail_row", "fail_cleanup", "abort", "release"}
    /\ J!Rows = {"staging", "scanning", "validating", "persisting", "none", "done", "failed",
                 "cancelled"}
    /\ J!Lifecycles = {"failed", "cancelled", "recovered", "none", "open", "ready", "closed", "torn"}
BY DEF J!Working, J!Cancellable, J!Finalizing, J!Rows, J!ActiveRow, J!Nothing, J!Lifecycles, J!Aborted

\* What the invariant says of an operation.
LEMMA OperationFacts ==
    ASSUME J!TypeOK, J!OperationRests, NEW o \in Ops
    PROVE  /\ Fits(o, scan[o], journal[o], staging[o], at[o], owner[o])
           /\ scan[o] \in J!Rows /\ journal[o] \in J!Lifecycles /\ staging[o] \in BOOLEAN
           /\ cancelled[o] \in BOOLEAN /\ at[o] \in J!Working \cup {"none"}
           /\ scan = [scan EXCEPT ![o] = scan[o]] /\ journal = [journal EXCEPT ![o] = journal[o]]
           /\ staging = [staging EXCEPT ![o] = staging[o]] /\ owner = [owner EXCEPT ![o] = owner[o]]
<1>1. /\ scan \in [Ops -> J!Rows] /\ journal \in [Ops -> J!Lifecycles]
      /\ staging \in [Ops -> BOOLEAN] /\ cancelled \in [Ops -> BOOLEAN]
      /\ at \in [Ops -> J!Working \cup {"none"}] /\ owner \in [Ops -> Procs \cup {"none"}]
  BY DEF J!TypeOK, J!Nothing
<1>2. /\ scan = [scan EXCEPT ![o] = scan[o]] /\ journal = [journal EXCEPT ![o] = journal[o]]
      /\ staging = [staging EXCEPT ![o] = staging[o]] /\ owner = [owner EXCEPT ![o] = owner[o]]
  BY <1>1, Zenon
<1>3. /\ scan[o] \in J!Rows /\ journal[o] \in J!Lifecycles /\ staging[o] \in BOOLEAN
      /\ cancelled[o] \in BOOLEAN /\ at[o] \in J!Working \cup {"none"} /\ owner[o] \in Procs \cup {"none"}
  BY <1>1
<1>4. /\ J!DiskFits(scan[o], journal[o], staging[o], cancelled[o])
      /\ J!TaskFits(scan[o], journal[o], staging[o], cancelled[o], at[o])
      /\ owner[o] # "none" <=> at[o] # "none"
  BY DEF J!OperationRests, J!Nothing
<1> QED
  BY <1>2, <1>3, <1>4 DEF Fits

\* A task that fits keeps the invariant: nobody recovers beside it.
LEMMA MoveKeeps ==
    ASSUME J!SemgrepAssumption, J!IndInv, NEW o \in Ops, NEW r, NEW j, NEW s, NEW a, NEW w,
           Moves(o, r, j, s, a, w), Fits(o, r, j, s, a, w), \A p \in Procs : ~J!Recovering(p)
    PROVE  J!IndInv'
<1>1. J!TypeOK /\ J!OperationRests /\ crashes \in 0..MaxCrashes /\ up \subseteq Procs
  BY DEF J!IndInv, J!TypeOK
<1>2. /\ scan \in [Ops -> J!Rows] /\ journal \in [Ops -> J!Lifecycles]
      /\ staging \in [Ops -> BOOLEAN] /\ cancelled \in [Ops -> BOOLEAN]
      /\ at \in [Ops -> J!Working \cup {"none"}] /\ owner \in [Ops -> Procs \cup {"none"}]
  BY <1>1 DEF J!TypeOK, J!Nothing
<1>3. /\ scan' \in [Ops -> J!Rows] /\ journal' \in [Ops -> J!Lifecycles]
      /\ at' \in [Ops -> J!Working \cup {"none"}] /\ owner' \in [Ops -> Procs \cup {"none"}]
  BY <1>2 DEF Moves, Fits
<1>4. staging' \in [Ops -> BOOLEAN]
  BY <1>2 DEF Moves, Fits
<1>5. J!TypeOK'
  BY <1>1, <1>3, <1>4 DEF Moves, J!TypeOK, J!Nothing
<1>6. J!LeaseRests'
  BY DEF Moves, J!LeaseRests, J!Recovering
<1>7. J!RecoveryRests'
  BY DEF Moves, J!RecoveryRests, J!Recovering
<1>8. J!OperationRests'
  <2> SUFFICES ASSUME NEW x \in Ops
               PROVE  /\ J!DiskFits(scan'[x], journal'[x], staging'[x], cancelled'[x])
                      /\ J!TaskFits(scan'[x], journal'[x], staging'[x], cancelled'[x], at'[x])
                      /\ owner'[x] # "none" <=> at'[x] # "none"
    BY DEF J!OperationRests, J!Nothing, J!DiskFits, J!TaskFits
  <2>1. CASE x = o
    <3>1. scan'[o] = r /\ journal'[o] = j /\ staging'[o] = s /\ at'[o] = a /\ owner'[o] = w
          /\ cancelled'[o] = cancelled[o]
      BY <1>2 DEF Moves
    <3> QED
      BY <2>1, <3>1 DEF Fits
  <2>2. CASE x # o
    <3>1. scan'[x] = scan[x] /\ journal'[x] = journal[x] /\ staging'[x] = staging[x]
          /\ at'[x] = at[x] /\ owner'[x] = owner[x] /\ cancelled'[x] = cancelled[x]
      BY <1>2, <2>2 DEF Moves
    <3> QED
      BY <1>1, <3>1, OperationFacts DEF Fits
  <2> QED
    BY <2>1, <2>2
<1> QED
  BY <1>5, <1>6, <1>7, <1>8 DEF J!IndInv

\* Initially nothing is stored.
LEMMA ScanInit == ASSUME J!SemgrepAssumption PROVE J!Init => J!IndInv
<1> SUFFICES ASSUME J!Init
             PROVE  J!IndInv
  OBVIOUS
<1>1. /\ scan = [o \in Ops |-> "none"] /\ journal = [o \in Ops |-> "none"]
      /\ staging = [o \in Ops |-> FALSE] /\ at = [o \in Ops |-> "none"]
      /\ owner = [o \in Ops |-> "none"] /\ cancelled = [o \in Ops |-> FALSE]
      /\ up = {} /\ poisoned = {} /\ degraded = {} /\ recovery = [p \in Procs |-> J!RecOff]
      /\ faults = 0 /\ crashes = 0
  BY DEF J!Init, J!Nothing
<1>2. J!RecOff \in [step : J!RecSteps, todo : SUBSET Ops, op : Ops \cup {"none"}] /\ J!RecOff.step = "off"
  BY DEF J!RecOff, J!RecSteps, J!Nothing
<1>3. J!TypeOK
  <2>1. staging \in [Ops -> BOOLEAN] /\ cancelled \in [Ops -> BOOLEAN]
    BY <1>1
  <2>2. MaxFaults \in Nat /\ MaxCrashes \in Nat
    BY DEF J!SemgrepAssumption
  <2> QED
    BY <1>1, <1>2, <2>1, <2>2, ScanNames DEF J!TypeOK, J!Nothing
<1>4. J!OperationRests
  <2> SUFFICES ASSUME NEW o \in Ops
               PROVE  /\ J!DiskFits(scan[o], journal[o], staging[o], cancelled[o])
                      /\ J!TaskFits(scan[o], journal[o], staging[o], cancelled[o], at[o])
                      /\ owner[o] # "none" <=> at[o] # "none"
    BY DEF J!OperationRests, J!Nothing
  <2>1. scan[o] = "none" /\ journal[o] = "none" /\ ~staging[o] /\ at[o] = "none" /\ owner[o] = "none" /\ ~cancelled[o]
    BY <1>1
  <2> QED
    BY <2>1 DEF J!DiskFits, J!TaskFits, J!Aborted
<1>5. J!LeaseRests /\ J!RecoveryRests
  BY <1>1, <1>2 DEF J!LeaseRests, J!RecoveryRests, J!Recovering
<1> QED
  BY <1>3, <1>4, <1>5 DEF J!IndInv

\* The next step of a task that has begun is its owner's, and nobody recovers.
LEMMA TaskRuns ==
    ASSUME J!IndInv, NEW o \in Ops, at[o] # "none"
    PROVE  /\ owner[o] # "none" /\ owner[o] \in Procs
           /\ \A p \in Procs : ~J!Recovering(p)
<1>1. owner[o] # "none" /\ owner[o] \in Procs
  BY DEF J!IndInv, J!OperationRests, J!Nothing, J!TypeOK
<1> QED
  BY <1>1 DEF J!IndInv, J!LeaseRests, J!SharedHeld, J!Live, J!Nothing

\* An append leaves the journal's line missing, complete or torn.
LEMMA AppendFacts ==
    ASSUME J!SemgrepAssumption, J!TypeOK, NEW p \in Procs, NEW o \in Ops, NEW next \in J!Lifecycles,
           J!AppendSucceeds(p, o, next) \/ J!AppendFails(p, o, next)
    PROVE  \E j \in {journal[o], next, "torn"} :
               /\ journal' = [journal EXCEPT ![o] = j] /\ j \in J!Lifecycles
               /\ J!AppendSucceeds(p, o, next) => j = next
               /\ j = journal[o] \/ J!Accepts(journal[o], next)
               /\ poisoned' \subseteq Procs /\ faults' \in 0..MaxFaults
<1>1. /\ journal \in [Ops -> J!Lifecycles] /\ faults \in 0..MaxFaults /\ MaxFaults \in Nat
      /\ poisoned \subseteq Procs
  BY DEF J!TypeOK, J!SemgrepAssumption
<1>2. journal = [journal EXCEPT ![o] = journal[o]] /\ journal[o] \in J!Lifecycles /\ "torn" \in J!Lifecycles
  <2>1. journal = [journal EXCEPT ![o] = journal[o]]
    BY <1>1, Zenon
  <2> QED
    BY <1>1, <2>1, ScanNames
<1>3. CASE J!AppendSucceeds(p, o, next)
  BY <1>1, <1>3 DEF J!AppendSucceeds
<1>4. CASE J!AppendFails(p, o, next) /\ journal' = journal /\ ~J!AppendSucceeds(p, o, next)
  <2>1. poisoned' \subseteq Procs /\ faults' \in 0..MaxFaults
    BY <1>1, <1>4 DEF J!AppendFails, J!Fault
  <2> QED
    BY <1>2, <1>4, <2>1
<1>5. CASE J!AppendFails(p, o, next) /\ journal' # journal /\ ~J!AppendSucceeds(p, o, next)
  <2>1. /\ J!Accepts(journal[o], next) /\ poisoned' = poisoned \cup {p}
        /\ faults < MaxFaults /\ faults' = faults + 1
    BY <1>5 DEF J!AppendFails, J!Fault
  <2>2. PICK line \in {journal[o], next} \cup (IF TornWrites THEN {"torn"} ELSE {}) :
           journal' = [journal EXCEPT ![o] = line]
    BY <1>5 DEF J!AppendFails
  <2>3. line \in {journal[o], next, "torn"}
    BY <2>2
  <2>4. poisoned' \subseteq Procs /\ faults' \in 0..MaxFaults
    BY <1>1, <2>1
  <2>5. line \in J!Lifecycles
    BY <1>2, <2>3
  <2> QED
    BY <1>5, <2>1, <2>2, <2>3, <2>4, <2>5
<1> QED
  BY <1>3, <1>4, <1>5

\* Every step of a task leaves its operation fit to go on.
LEMMA StepKeeps ==
    ASSUME J!SemgrepAssumption, J!IndInv, NEW o \in Ops, J!Step(o)
    PROVE  J!IndInv'
<1> DEFINE r == scan[o]
           j == journal[o]
           s == staging[o]
           c == cancelled[o]
           w == owner[o]
<1>1. J!TypeOK /\ J!OperationRests
  BY DEF J!IndInv
<1>2. at[o] # "none"
  BY DEF J!Step, J!Insert, J!Begin, J!Stage, J!SetScanning, J!Run, J!Claim, J!ClaimFailure,
         J!SetValidating, J!SetPersisting, J!Ready, J!Publish, J!Cleanup, J!Compensate, J!Close,
         J!FailRow, J!FailCleanup, J!Abort, J!Release
<1>3. w # "none" /\ w \in Procs /\ \A p \in Procs : ~J!Recovering(p)
  BY <1>2, TaskRuns
<1>4. /\ J!DiskFits(r, j, s, c) /\ J!TaskFits(r, j, s, c, at[o])
      /\ r \in J!Rows /\ j \in J!Lifecycles /\ s \in BOOLEAN /\ c \in BOOLEAN
      /\ scan = [scan EXCEPT ![o] = r] /\ journal = [journal EXCEPT ![o] = j]
      /\ staging = [staging EXCEPT ![o] = s] /\ owner = [owner EXCEPT ![o] = w]
  BY <1>1, OperationFacts DEF Fits
<1>5. /\ faults \in 0..MaxFaults /\ MaxFaults \in Nat
      /\ poisoned \subseteq Procs /\ degraded \subseteq Procs
  BY <1>1 DEF J!TypeOK, J!SemgrepAssumption
<1>6. /\ J!Fault => faults' \in 0..MaxFaults
      /\ J!Degrade(w) => degraded' \subseteq Procs
  BY <1>3, <1>5 DEF J!Fault, J!Degrade
\* A step that writes the row, one that writes the journal, one at the directory.
<1>7. ASSUME NEW x \in J!Rows, NEW a \in J!Working, scan' = [scan EXCEPT ![o] = x], J!Goto(o, a),
             UNCHANGED <<journal, staging, owner, cancelled, up, poisoned, recovery, crashes>>,
             degraded' \subseteq Procs, faults' \in 0..MaxFaults,
             J!DiskFits(x, j, s, c), J!TaskFits(x, j, s, c, a)
      PROVE  J!IndInv'
  <2>1. Moves(o, x, j, s, a, w)
    BY <1>4, <1>5, <1>7 DEF Moves, J!Goto
  <2>2. Fits(o, x, j, s, a, w)
    BY <1>3, <1>4, <1>7, ScanNames DEF Fits
  <2> QED
    BY <1>3, <2>1, <2>2, MoveKeeps
<1>8. ASSUME NEW x \in J!Lifecycles, NEW a \in J!Working, journal' = [journal EXCEPT ![o] = x], J!Goto(o, a),
             UNCHANGED <<scan, staging, owner, cancelled, up, recovery, crashes>>,
             poisoned' \subseteq Procs, degraded' \subseteq Procs, faults' \in 0..MaxFaults,
             J!DiskFits(r, x, s, c), J!TaskFits(r, x, s, c, a)
      PROVE  J!IndInv'
  <2>1. Moves(o, r, x, s, a, w)
    BY <1>4, <1>5, <1>8 DEF Moves, J!Goto
  <2>2. Fits(o, r, x, s, a, w)
    BY <1>3, <1>4, <1>8, ScanNames DEF Fits
  <2> QED
    BY <1>3, <2>1, <2>2, MoveKeeps
<1>9. ASSUME NEW x \in BOOLEAN, NEW a \in J!Working, staging' = [staging EXCEPT ![o] = x], J!Goto(o, a),
             UNCHANGED <<scan, journal, owner, cancelled, up, poisoned, recovery, crashes>>,
             degraded' \subseteq Procs, faults' \in 0..MaxFaults,
             J!DiskFits(r, j, x, c), J!TaskFits(r, j, x, c, a)
      PROVE  J!IndInv'
  <2>1. Moves(o, r, j, x, a, w)
    BY <1>4, <1>5, <1>9 DEF Moves, J!Goto
  <2>2. Fits(o, r, j, x, a, w)
    BY <1>3, <1>4, <1>9, ScanNames DEF Fits
  <2> QED
    BY <1>3, <2>1, <2>2, MoveKeeps
<1>10. ASSUME NEW a \in J!Working, J!Goto(o, a),
              UNCHANGED <<scan, journal, staging, owner, cancelled, up, poisoned, recovery, crashes>>,
              degraded' \subseteq Procs, faults' \in 0..MaxFaults, J!TaskFits(r, j, s, c, a)
       PROVE  J!IndInv'
  BY <1>4, <1>7, <1>10
\* A phase of the row goes on, or the operation fails with the row it had.
<1>11. ASSUME NEW from, NEW to \in J!Rows, NEW ok \in J!Working, NEW failed \in J!Working,
              J!Phase(o, from, to, ok, failed),
              UNCHANGED <<journal, staging, owner, cancelled, up, poisoned, degraded, recovery, crashes>>,
              r = from, J!DiskFits(to, j, s, c), J!TaskFits(to, j, s, c, ok), J!TaskFits(r, j, s, c, failed)
       PROVE  J!IndInv'
  <2>1. \/ scan' = [scan EXCEPT ![o] = to] /\ J!Goto(o, ok) /\ faults' = faults
        \/ scan' = scan /\ J!Goto(o, failed) /\ J!Fault
    BY <1>11 DEF J!Phase
  <2>2. faults' \in 0..MaxFaults /\ degraded' \subseteq Procs
    BY <1>5, <1>6, <1>11, <2>1
  <2> QED
    BY <1>7, <1>10, <1>11, <2>1, <2>2
\* An append succeeds, or leaves one of three lines.
<1>12. ASSUME NEW next \in J!Lifecycles, NEW ok \in J!Working, NEW failed \in J!Working,
              \/ J!AppendSucceeds(w, o, next) /\ J!Goto(o, ok)
              \/ J!AppendFails(w, o, next) /\ J!Goto(o, failed),
              UNCHANGED <<scan, staging, owner, cancelled, up, recovery, crashes>>,
              degraded' \subseteq Procs,
              J!DiskFits(r, next, s, c), J!DiskFits(r, "torn", s, c), J!TaskFits(r, next, s, c, ok),
              \A x \in {j, next, "torn"} : J!TaskFits(r, x, s, c, failed)
       PROVE  J!IndInv'
  <2>1. PICK x \in {j, next, "torn"} :
               /\ journal' = [journal EXCEPT ![o] = x] /\ x \in J!Lifecycles
               /\ J!AppendSucceeds(w, o, next) => x = next
               /\ poisoned' \subseteq Procs /\ faults' \in 0..MaxFaults
    BY <1>1, <1>3, <1>12, AppendFacts
  <2>2. J!DiskFits(r, x, s, c)
    BY <1>4, <1>12, <2>1
  <2> QED
    BY <1>8, <1>12, <2>1, <2>2
<1>13. CASE J!Insert(o)
  <2>1. at[o] = "insert" /\ r = "none" /\ j = "none"
    BY <1>4, <1>13 DEF J!Insert, J!TaskFits, J!Nothing
  <2>2. /\ J!DiskFits("staging", j, s, c) /\ J!TaskFits("staging", j, s, c, "begin")
        /\ J!TaskFits(r, j, s, c, "release")
    BY <1>4, <2>1 DEF J!DiskFits, J!TaskFits, J!Aborted, J!Nothing
  <2>3. /\ \/ scan' = [scan EXCEPT ![o] = "staging"] /\ J!Goto(o, "begin") /\ faults' = faults
           \/ scan' = scan /\ J!Goto(o, "release") /\ (faults' = faults \/ J!Fault)
        /\ UNCHANGED <<journal, staging, owner, cancelled, up, poisoned, degraded, recovery, crashes>>
    BY <1>13 DEF J!Insert, J!health
  <2>4. faults' \in 0..MaxFaults /\ degraded' \subseteq Procs
    BY <1>5, <1>6, <2>3
  <2> QED
    BY <1>7, <1>10, <2>2, <2>3, <2>4, ScanNames
<1>14. CASE J!Begin(o)
  <2>1. at[o] = "begin" /\ r = "staging" /\ j = "none" /\ ~s
    BY <1>4, <1>14 DEF J!Begin, J!TaskFits, J!DiskFits, J!Nothing
  <2>2. /\ J!DiskFits(r, "open", s, c) /\ J!DiskFits(r, "torn", s, c)
        /\ J!TaskFits(r, "open", s, c, "stage")
        /\ \A x \in {j, "open", "torn"} : J!TaskFits(r, x, s, c, "claim_failure")
    BY <1>4, <2>1 DEF J!DiskFits, J!TaskFits, J!Aborted, J!Nothing
  <2> QED
    BY <1>5, <1>12, <1>14, <2>2, ScanNames DEF J!Begin
<1>15. CASE J!Stage(o)
  <2>1. at[o] = "stage" /\ r = "staging" /\ j = "open"
    BY <1>4, <1>15 DEF J!Stage, J!TaskFits
  <2>2. \A x \in BOOLEAN : J!DiskFits(r, j, x, c) /\ J!TaskFits(r, j, x, c, "claim_failure")
    BY <1>4, <2>1 DEF J!DiskFits, J!TaskFits, J!Aborted, J!Nothing
  <2>3. J!TaskFits(r, j, TRUE, c, "set_scanning")
    BY <2>1 DEF J!TaskFits
  <2>4. /\ \/ staging' = [staging EXCEPT ![o] = TRUE] /\ J!Goto(o, "set_scanning")
           \/ \E x \in BOOLEAN : staging' = [staging EXCEPT ![o] = x] /\ J!Goto(o, "claim_failure")
        /\ UNCHANGED <<scan, journal, owner, cancelled, up, poisoned, recovery, crashes>>
        /\ faults' = faults /\ degraded' = degraded
    BY <1>15 DEF J!Stage, J!health, J!bounds
  <2> QED
    BY <1>5, <1>9, <2>2, <2>3, <2>4, ScanNames
<1>16. CASE J!SetScanning(o)
  <2>1. at[o] = "set_scanning" /\ r = "staging" /\ j = "open" /\ s
    BY <1>4, <1>16 DEF J!SetScanning, J!TaskFits
  <2>2. /\ J!DiskFits("scanning", j, s, c) /\ J!TaskFits("scanning", j, s, c, "run")
        /\ J!TaskFits(r, j, s, c, "claim_failure")
    BY <1>4, <2>1 DEF J!DiskFits, J!TaskFits, J!Aborted, J!Nothing
  <2>3. /\ \/ J!Goto(o, "claim_failure") /\ scan' = scan /\ faults' = faults
           \/ J!Phase(o, "staging", "scanning", "run", "claim_failure")
        /\ UNCHANGED <<journal, staging, owner, cancelled, up, poisoned, degraded, recovery, crashes>>
    BY <1>16 DEF J!SetScanning, J!health
  <2> QED
    BY <1>5, <1>10, <1>11, <2>1, <2>2, <2>3, ScanNames
<1>17. CASE J!Run(o)
  <2>1. at[o] = "run" /\ r = "scanning" /\ j = "open" /\ s
    BY <1>4, <1>17 DEF J!Run, J!TaskFits
  <2>2. J!TaskFits(r, j, s, c, "claim") /\ J!TaskFits(r, j, s, c, "claim_failure")
    BY <2>1 DEF J!TaskFits
  <2> QED
    BY <1>5, <1>10, <1>17, <2>2, ScanNames DEF J!Run, J!disk, J!health, J!bounds
<1>18. CASE J!Claim(o)
  <2>1. at[o] = "claim" /\ r = "scanning" /\ j = "open" /\ s
    BY <1>4, <1>18 DEF J!Claim, J!TaskFits
  <2>2. J!TaskFits(r, j, s, c, "fail_row") /\ (~c => J!TaskFits(r, j, s, c, "set_validating"))
    BY <2>1 DEF J!TaskFits, J!ActiveRow
  <2>3. /\ \/ c /\ J!Goto(o, "fail_row")
           \/ ~c /\ J!Goto(o, "set_validating")
        /\ UNCHANGED <<scan, journal, staging, owner, cancelled, up, poisoned, degraded, recovery, faults, crashes>>
    BY <1>18 DEF J!Claim, J!disk, J!health, J!bounds
  <2> QED
    BY <1>5, <1>10, <2>2, <2>3, ScanNames
<1>19. CASE J!ClaimFailure(o)
  <2>1. at[o] = "claim_failure"
    BY <1>19 DEF J!ClaimFailure
  <2>2. J!TaskFits(r, j, s, c, "fail_row")
    BY <1>4, <2>1 DEF J!TaskFits, J!ActiveRow
  <2> QED
    BY <1>5, <1>10, <1>19, <2>2, ScanNames DEF J!ClaimFailure, J!disk, J!health, J!bounds
<1>20. CASE J!SetValidating(o)
  <2>1. at[o] = "set_validating" /\ r = "scanning" /\ j = "open" /\ s /\ ~c
    BY <1>4, <1>20 DEF J!SetValidating, J!TaskFits
  <2>2. /\ J!DiskFits("validating", j, s, c) /\ J!TaskFits("validating", j, s, c, "set_persisting")
        /\ J!TaskFits(r, j, s, c, "fail_row")
    BY <1>4, <2>1 DEF J!DiskFits, J!TaskFits, J!Aborted, J!Nothing, J!ActiveRow
  <2> QED
    BY <1>11, <1>20, <2>1, <2>2, ScanNames DEF J!SetValidating, J!health
<1>21. CASE J!SetPersisting(o)
  <2>1. at[o] = "set_persisting" /\ r = "validating" /\ j = "open" /\ s /\ ~c
    BY <1>4, <1>21 DEF J!SetPersisting, J!TaskFits
  <2>2. /\ J!DiskFits("persisting", j, s, c) /\ J!TaskFits("persisting", j, s, c, "ready")
        /\ J!TaskFits(r, j, s, c, "fail_row")
    BY <1>4, <2>1 DEF J!DiskFits, J!TaskFits, J!Aborted, J!Nothing, J!ActiveRow
  <2>3. /\ \/ J!Goto(o, "fail_row") /\ scan' = scan /\ faults' = faults
           \/ J!Phase(o, "validating", "persisting", "ready", "fail_row")
        /\ UNCHANGED <<journal, staging, owner, cancelled, up, poisoned, degraded, recovery, crashes>>
    BY <1>21 DEF J!SetPersisting, J!health
  <2> QED
    BY <1>5, <1>10, <1>11, <2>1, <2>2, <2>3, ScanNames
<1>22. CASE J!Ready(o)
  <2>1. at[o] = "ready" /\ r = "persisting" /\ j = "open" /\ s /\ ~c
    BY <1>4, <1>22 DEF J!Ready, J!TaskFits
  <2>2. /\ J!DiskFits(r, "ready", s, c) /\ J!DiskFits(r, "torn", s, c)
        /\ J!TaskFits(r, "ready", s, c, "publish") /\ J!TaskFits(r, j, s, c, "release")
        /\ \A x \in {j, "ready", "torn"} : J!TaskFits(r, x, s, c, "fail_row")
    BY <1>4, <2>1 DEF J!DiskFits, J!TaskFits, J!Aborted, J!Nothing, J!ActiveRow
  <2>3. UNCHANGED <<scan, staging, owner, cancelled, up, recovery, crashes>> /\ degraded' \subseteq Procs
    BY <1>5, <1>6, <1>22 DEF J!Ready
  <2>4. \/ J!AppendSucceeds(w, o, "ready") /\ J!Goto(o, "publish")
        \/ J!AppendFails(w, o, "ready") /\ J!Goto(o, "fail_row")
        \/ (faults' = faults \/ J!Fault) /\ J!Goto(o, "release") /\ UNCHANGED <<journal, poisoned>>
    BY <1>22 DEF J!Ready
  <2>5. CASE (faults' = faults \/ J!Fault) /\ J!Goto(o, "release") /\ UNCHANGED <<journal, poisoned>>
    BY <1>5, <1>6, <1>10, <2>2, <2>3, <2>5, ScanNames
  <2> QED
    BY <1>12, <2>2, <2>3, <2>4, <2>5, ScanNames
<1>23. CASE J!Publish(o)
  <2>1. at[o] = "publish" /\ r = "persisting" /\ j = "ready" /\ s /\ ~c
    BY <1>4, <1>23 DEF J!Publish, J!TaskFits
  <2>2. /\ J!DiskFits("done", j, s, c) /\ J!TaskFits("done", j, s, c, "cleanup")
        /\ J!TaskFits(r, j, s, c, "fail_row")
    BY <1>4, <2>1 DEF J!DiskFits, J!TaskFits, J!Aborted, J!Nothing, J!ActiveRow
  <2> QED
    BY <1>11, <1>23, <2>1, <2>2, ScanNames DEF J!Publish, J!health
<1>24. CASE J!Cleanup(o)
  <2>1. at[o] = "cleanup" /\ r = "done" /\ j = "ready" /\ s /\ ~c
    BY <1>4, <1>24 DEF J!Cleanup, J!TaskFits
  <2>2. /\ J!DiskFits(r, j, FALSE, c) /\ J!TaskFits(r, j, FALSE, c, "close")
        /\ J!TaskFits(r, j, s, c, "compensate")
    BY <1>4, <2>1 DEF J!DiskFits, J!TaskFits, J!Aborted, J!Nothing
  <2>3. /\ \/ staging' = [staging EXCEPT ![o] = FALSE] /\ J!Goto(o, "close") /\ degraded' = degraded /\ faults' = faults
           \/ staging' = staging /\ J!Goto(o, "compensate") /\ J!Fault /\ J!Degrade(w)
        /\ UNCHANGED <<scan, journal, owner, cancelled, up, poisoned, recovery, crashes>>
    BY <1>24 DEF J!Cleanup
  <2> QED
    BY <1>5, <1>6, <1>9, <1>10, <2>2, <2>3, ScanNames
<1>25. CASE J!Compensate(o)
  <2>1. at[o] = "compensate" /\ r = "done" /\ j = "ready" /\ ~c
    BY <1>4, <1>25 DEF J!Compensate, J!TaskFits
  <2>2. /\ J!DiskFits("failed", j, s, c) /\ J!TaskFits("failed", j, s, c, "release")
        /\ J!TaskFits(r, j, s, c, "release")
    BY <1>4, <2>1 DEF J!DiskFits, J!TaskFits, J!Aborted, J!Nothing
  <2> QED
    BY <1>11, <1>25, <2>1, <2>2, ScanNames DEF J!Compensate, J!health
<1>26. CASE J!Close(o)
  <2>1. at[o] = "close" /\ r = "done" /\ j = "ready" /\ ~s /\ ~c
    BY <1>4, <1>26 DEF J!Close, J!TaskFits
  <2>2. /\ J!DiskFits(r, "closed", s, c) /\ J!DiskFits(r, "torn", s, c)
        /\ J!TaskFits(r, "closed", s, c, "release")
        /\ \A x \in {j, "closed", "torn"} : J!TaskFits(r, x, s, c, "release")
    BY <1>4, <2>1 DEF J!DiskFits, J!TaskFits, J!Aborted, J!Nothing
  <2>3. /\ \/ J!AppendSucceeds(w, o, "closed") /\ J!Goto(o, "release")
           \/ J!AppendFails(w, o, "closed") /\ J!Goto(o, "release")
        /\ UNCHANGED <<scan, staging, owner, cancelled, up, recovery, crashes>> /\ degraded' \subseteq Procs
    BY <1>5, <1>6, <1>26 DEF J!Close
  <2> QED
    BY <1>12, <2>2, <2>3, ScanNames
<1>27. CASE J!FailRow(o)
  <2>1. at[o] = "fail_row" /\ r \in J!ActiveRow /\ j \in {"none", "open", "ready", "torn"}
    BY <1>4, <1>27 DEF J!FailRow, J!TaskFits, J!Nothing
  <2>2. J!Outcome(o) = IF c THEN "cancelled" ELSE "failed"
    BY DEF J!Outcome
  <2>3. /\ J!DiskFits(J!Outcome(o), j, s, c) /\ J!TaskFits(J!Outcome(o), j, s, c, "fail_cleanup")
        /\ J!TaskFits(r, j, s, c, "release")
    BY <1>4, <2>1, <2>2 DEF J!DiskFits, J!TaskFits, J!Aborted, J!Nothing, J!ActiveRow
  <2>4. /\ \/ scan' = [scan EXCEPT ![o] = J!Outcome(o)] /\ J!Goto(o, "fail_cleanup") /\ degraded' = degraded /\ faults' = faults
           \/ scan' = scan /\ J!Goto(o, "release") /\ (faults' = faults \/ J!Fault) /\ J!Degrade(w)
        /\ UNCHANGED <<journal, staging, owner, cancelled, up, poisoned, recovery, crashes>>
    BY <1>27 DEF J!FailRow
  <2>5. J!Outcome(o) \in J!Rows
    BY <2>2, ScanNames
  <2> QED
    BY <1>5, <1>6, <1>7, <1>10, <2>3, <2>4, <2>5, ScanNames
<1>28. CASE J!FailCleanup(o)
  <2>1. at[o] = "fail_cleanup"
    BY <1>28 DEF J!FailCleanup
  <2>2. /\ J!DiskFits(r, j, FALSE, c) /\ J!TaskFits(r, j, FALSE, c, "abort")
        /\ J!TaskFits(r, j, s, c, "release")
    BY <1>4, <2>1 DEF J!DiskFits, J!TaskFits
  <2>3. /\ \/ staging' = [staging EXCEPT ![o] = FALSE] /\ J!Goto(o, "abort") /\ degraded' = degraded /\ faults' = faults
           \/ staging' = staging /\ J!Goto(o, "release") /\ J!Fault /\ J!Degrade(w)
        /\ UNCHANGED <<scan, journal, owner, cancelled, up, poisoned, recovery, crashes>>
    BY <1>28 DEF J!FailCleanup
  <2> QED
    BY <1>5, <1>6, <1>9, <1>10, <2>2, <2>3, ScanNames
<1>29. CASE J!Abort(o)
  <2>1. at[o] = "abort" /\ ~s /\ r = (IF c THEN "cancelled" ELSE "failed")
    BY <1>4, <1>29 DEF J!Abort, J!TaskFits
  <2>2. J!Outcome(o) = IF c THEN "cancelled" ELSE "failed"
    BY DEF J!Outcome
  <2>3. /\ J!DiskFits(r, J!Outcome(o), s, c) /\ J!DiskFits(r, "torn", s, c)
        /\ J!TaskFits(r, J!Outcome(o), s, c, "release")
        /\ \A x \in {j, J!Outcome(o), "torn"} : J!TaskFits(r, x, s, c, "release")
    BY <1>4, <2>1, <2>2 DEF J!DiskFits, J!TaskFits, J!Aborted, J!Nothing, J!ActiveRow
  <2>4. /\ \/ J!AppendSucceeds(w, o, J!Outcome(o)) /\ J!Goto(o, "release")
           \/ J!AppendFails(w, o, J!Outcome(o)) /\ J!Goto(o, "release")
        /\ UNCHANGED <<scan, staging, owner, cancelled, up, recovery, crashes>> /\ degraded' \subseteq Procs
    BY <1>5, <1>6, <1>29 DEF J!Abort
  <2>5. J!Outcome(o) \in J!Lifecycles
    BY <2>2, ScanNames
  <2> QED
    BY <1>12, <2>3, <2>4, <2>5, ScanNames
<1>30. CASE J!Release(o)
  <2>1. Moves(o, r, j, s, "none", "none")
    BY <1>4, <1>5, <1>30 DEF J!Release, Moves, J!Goto, J!Nothing, J!disk, J!health, J!bounds
  <2>2. J!TaskFits(r, j, s, c, "none")
    BY DEF J!TaskFits
  <2>3. Fits(o, r, j, s, "none", "none")
    BY <1>4, <2>2 DEF Fits
  <2> QED
    BY <1>3, <2>1, <2>3, MoveKeeps
<1> QED
  BY <1>13, <1>14, <1>15, <1>16, <1>17, <1>18, <1>19, <1>20, <1>21, <1>22, <1>23, <1>24, <1>25,
     <1>26, <1>27, <1>28, <1>29, <1>30 DEF J!Step

\* Admission and cancellation.
LEMMA AdmitKeeps ==
    ASSUME J!SemgrepAssumption, J!IndInv, NEW p \in Procs, NEW o \in Ops, J!Admit(p, o)
    PROVE  J!IndInv'
<1>1. J!TypeOK /\ J!OperationRests
  BY DEF J!IndInv
<1>2. p \in up /\ \A q \in Procs : ~J!Recovering(q)
  BY DEF J!Admit, J!ExclusiveHeld
<1>3. at[o] = "none" /\ scan[o] = "none" /\ journal[o] = "none"
  BY DEF J!Admit, J!Nothing
<1>4. /\ J!DiskFits(scan[o], journal[o], staging[o], cancelled[o])
      /\ scan[o] \in J!Rows /\ journal[o] \in J!Lifecycles /\ staging[o] \in BOOLEAN
      /\ scan = [scan EXCEPT ![o] = scan[o]] /\ journal = [journal EXCEPT ![o] = journal[o]]
      /\ staging = [staging EXCEPT ![o] = staging[o]]
  BY <1>1, OperationFacts DEF Fits
<1>5. Moves(o, scan[o], journal[o], staging[o], "insert", p)
  BY <1>1, <1>4 DEF J!Admit, Moves, J!Goto, J!disk, J!health, J!bounds, J!TypeOK
<1>6. J!TaskFits(scan[o], journal[o], staging[o], cancelled[o], "insert")
  BY <1>3 DEF J!TaskFits, J!Nothing
<1>7. p # "none"
  BY DEF J!SemgrepAssumption
<1>8. Fits(o, scan[o], journal[o], staging[o], "insert", p)
  BY <1>4, <1>6, <1>7, ScanNames DEF Fits
<1> QED
  BY <1>2, <1>5, <1>8, MoveKeeps

\* A cancellation is accepted before a scan claims its completion.
LEMMA CancelKeeps ==
    ASSUME J!SemgrepAssumption, J!IndInv, NEW p \in Procs, NEW o \in Ops, J!Cancel(p, o)
    PROVE  J!IndInv'
<1>1. J!TypeOK /\ J!LeaseRests /\ J!OperationRests /\ J!RecoveryRests
  BY DEF J!IndInv
<1>2. /\ cancelled' = [cancelled EXCEPT ![o] = TRUE] /\ scan[o] # "none"
      /\ at[o] \in J!Cancellable /\ ~cancelled[o]
      /\ UNCHANGED <<scan, journal, staging, at, owner, up, poisoned, degraded, recovery, faults, crashes>>
  BY DEF J!Cancel, J!disk, J!health, J!bounds, J!Nothing
<1>3. cancelled \in [Ops -> BOOLEAN]
  BY <1>1 DEF J!TypeOK
<1>4. cancelled' \in [Ops -> BOOLEAN]
  BY <1>2, <1>3
<1>5. J!TypeOK'
  BY <1>1, <1>2, <1>4 DEF J!TypeOK
<1>6. J!LeaseRests'
  BY <1>1, <1>2 DEF J!LeaseRests, J!Recovering, J!SharedHeld, J!Live
<1>7. J!RecoveryRests'
  BY <1>1, <1>2 DEF J!RecoveryRests, J!Interrupted, J!StillActive
<1>8. J!OperationRests'
  <2> SUFFICES ASSUME NEW x \in Ops
               PROVE  /\ J!DiskFits(scan[x], journal[x], staging[x], cancelled'[x])
                      /\ J!TaskFits(scan[x], journal[x], staging[x], cancelled'[x], at[x])
                      /\ owner[x] # "none" <=> at[x] # "none"
    BY <1>2 DEF J!OperationRests, J!Nothing, J!DiskFits, J!TaskFits
  <2>1. /\ J!DiskFits(scan[x], journal[x], staging[x], cancelled[x])
        /\ J!TaskFits(scan[x], journal[x], staging[x], cancelled[x], at[x])
        /\ owner[x] # "none" <=> at[x] # "none"
    BY <1>1 DEF J!OperationRests, J!Nothing
  <2>2. CASE x = o
    <3>1. cancelled'[o] = TRUE
      BY <1>2, <1>3
    <3>2. /\ scan[o] \in {"staging", "scanning"}
          /\ journal[o] \in {"none", "open", "ready", "torn"}
      BY <1>2, <2>1, <2>2 DEF J!Cancellable, J!TaskFits, J!Nothing
    <3>3. J!DiskFits(scan[x], journal[x], staging[x], TRUE)
      BY <2>1, <2>2, <3>2 DEF J!DiskFits
    <3>4. J!TaskFits(scan[x], journal[x], staging[x], TRUE, at[x])
      BY <1>2, <2>1, <2>2 DEF J!Cancellable, J!TaskFits
    <3> QED
      BY <2>1, <2>2, <3>1, <3>3, <3>4
  <2>3. CASE x # o
    <3>1. cancelled'[x] = cancelled[x]
      BY <1>2, <1>3, <2>3
    <3> QED
      BY <2>1, <3>1
  <2> QED
    BY <2>2, <2>3
<1> QED
  BY <1>5, <1>6, <1>7, <1>8 DEF J!IndInv

\* A death leaves half a line at most, and no task and no recovery of its process.
LEMMA CrashKeeps ==
    ASSUME J!SemgrepAssumption, J!IndInv, NEW p \in Procs, J!Crash(p)
    PROVE  J!IndInv'
<1>1. J!TypeOK /\ J!LeaseRests /\ J!OperationRests /\ J!RecoveryRests
  BY DEF J!IndInv
<1>2. PICK torn \in {{}} \cup {{o} : o \in J!MayTear(p)} :
         journal' = [o \in Ops |-> IF o \in torn THEN "torn" ELSE journal[o]]
  BY DEF J!Crash
<1>3. /\ at' = [o \in Ops |-> IF owner[o] = p THEN "none" ELSE at[o]]
      /\ owner' = [o \in Ops |-> IF owner[o] = p THEN "none" ELSE owner[o]]
      /\ up' = up \ {p} /\ poisoned' = poisoned \ {p} /\ degraded' = degraded \ {p}
      /\ recovery' = [recovery EXCEPT ![p] = J!RecOff] /\ p \in up
      /\ crashes < MaxCrashes /\ crashes' = crashes + 1
      /\ UNCHANGED <<scan, staging, cancelled, faults>>
  BY DEF J!Crash, J!Nothing
<1>4. \A o \in torn : owner[o] = p \/ (J!Recovering(p) /\ recovery[p].op = o)
  <2>1. torn \subseteq J!MayTear(p)
    BY <1>2
  <2> QED
    BY <2>1 DEF J!MayTear, J!Recovering
<1>5. /\ scan \in [Ops -> J!Rows] /\ journal \in [Ops -> J!Lifecycles]
      /\ staging \in [Ops -> BOOLEAN] /\ cancelled \in [Ops -> BOOLEAN]
      /\ at \in [Ops -> J!Working \cup {"none"}] /\ owner \in [Ops -> Procs \cup {"none"}]
      /\ recovery \in [Procs -> [step : J!RecSteps, todo : SUBSET Ops, op : Ops \cup {"none"}]]
      /\ crashes \in 0..MaxCrashes /\ MaxCrashes \in Nat /\ p # "none"
  BY <1>1 DEF J!TypeOK, J!Nothing, J!SemgrepAssumption
<1>6. J!RecOff \in [step : J!RecSteps, todo : SUBSET Ops, op : Ops \cup {"none"}] /\ J!RecOff.step = "off"
  BY DEF J!RecOff, J!RecSteps, J!Nothing
<1>7. J!TypeOK'
  <2>1. journal' \in [Ops -> J!Lifecycles]
    BY <1>2, <1>5, ScanNames
  <2>2. at' \in [Ops -> J!Working \cup {"none"}] /\ owner' \in [Ops -> Procs \cup {"none"}]
    BY <1>3, <1>5
  <2>3. recovery' \in [Procs -> [step : J!RecSteps, todo : SUBSET Ops, op : Ops \cup {"none"}]]
    BY <1>3, <1>5, <1>6
  <2>4. crashes' \in 0..MaxCrashes
    BY <1>3, <1>5
  <2> QED
    BY <1>1, <1>3, <2>1, <2>2, <2>3, <2>4 DEF J!TypeOK, J!Nothing
<1>8. \A q \in Procs : recovery'[q].step # "off" => q # p /\ recovery'[q] = recovery[q] /\ J!Recovering(q)
  BY <1>3, <1>5, <1>6 DEF J!Recovering
<1>9. \A o \in Ops : owner'[o] # "none" => owner[o] # "none"
  BY <1>3, <1>5
<1>10. J!LeaseRests'
  BY <1>1, <1>3, <1>8, <1>9 DEF J!LeaseRests, J!Recovering, J!SharedHeld, J!Live, J!Nothing
<1>11. J!RecoveryRests'
  <2> SUFFICES ASSUME NEW q \in Procs, recovery'[q].step # "off"
               PROVE  /\ journal' = journal /\ scan' = scan /\ staging' = staging
                      /\ recovery'[q] = recovery[q]
    BY <1>1 DEF J!RecoveryRests, J!Interrupted, J!StillActive
  <2>1. q # p /\ recovery'[q] = recovery[q] /\ J!Recovering(q)
    BY <1>8
  <2>2. ~J!Recovering(p) /\ \A o \in Ops : owner[o] = "none"
    BY <1>1, <2>1 DEF J!LeaseRests, J!SharedHeld, J!Live, J!Nothing
  <2>3. \A o \in Ops : o \notin torn
    BY <1>4, <1>5, <2>2
  <2>4. journal' = journal
    BY <1>2, <1>5, <2>3
  <2> QED
    BY <1>3, <2>1, <2>4
<1>12. J!OperationRests'
  <2> SUFFICES ASSUME NEW x \in Ops
               PROVE  /\ J!DiskFits(scan[x], journal'[x], staging[x], cancelled[x])
                      /\ J!TaskFits(scan[x], journal'[x], staging[x], cancelled[x], at'[x])
                      /\ owner'[x] # "none" <=> at'[x] # "none"
    BY <1>3 DEF J!OperationRests, J!Nothing, J!DiskFits, J!TaskFits
  <2>1. /\ J!DiskFits(scan[x], journal[x], staging[x], cancelled[x])
        /\ J!TaskFits(scan[x], journal[x], staging[x], cancelled[x], at[x])
        /\ owner[x] # "none" <=> at[x] # "none"
    BY <1>1 DEF J!OperationRests, J!Nothing
  <2>2. J!DiskFits(scan[x], journal'[x], staging[x], cancelled[x])
    BY <1>2, <2>1 DEF J!DiskFits, J!Aborted
  <2>3. CASE owner[x] = p
    <3>1. at'[x] = "none" /\ owner'[x] = "none"
      BY <1>3, <2>3
    <3>2. J!TaskFits(scan[x], journal'[x], staging[x], cancelled[x], "none")
      BY DEF J!TaskFits
    <3> QED
      BY <2>2, <3>1, <3>2
  <2>4. CASE owner[x] # p
    <3>1. at'[x] = at[x] /\ owner'[x] = owner[x]
      BY <1>3, <2>4
    <3>2. CASE x \in torn
      <4>1. J!Recovering(p)
        BY <1>4, <2>4, <3>2
      <4>2. owner[x] = "none"
        BY <1>1, <4>1 DEF J!LeaseRests, J!SharedHeld, J!Live, J!Nothing
      <4>3. J!TaskFits(scan[x], journal'[x], staging[x], cancelled[x], "none")
        BY DEF J!TaskFits
      <4> QED
        BY <2>1, <2>2, <3>1, <4>2, <4>3
    <3>3. CASE x \notin torn
      <4>1. journal'[x] = journal[x]
        BY <1>2, <3>3
      <4> QED
        BY <2>1, <2>2, <3>1, <4>1
    <3> QED
      BY <3>2, <3>3
  <2> QED
    BY <2>3, <2>4
<1> QED
  BY <1>7, <1>10, <1>11, <1>12 DEF J!IndInv

\* A process that starts recovers alone or not at all.
LEMMA BootKeeps ==
    ASSUME J!SemgrepAssumption, J!IndInv, NEW p \in Procs, J!Boot(p)
    PROVE  J!IndInv'
<1>1. J!TypeOK /\ J!LeaseRests /\ J!OperationRests /\ J!RecoveryRests
  BY DEF J!IndInv
<1>2. /\ p \notin up /\ up' = up \cup {p}
      /\ UNCHANGED <<scan, journal, staging, at, owner, cancelled, poisoned, faults, crashes>>
      /\ \/ degraded' = degraded \cup {p} /\ recovery' = recovery
         \/ /\ ~J!ExclusiveHeld /\ ~J!SharedHeld /\ degraded' = degraded
            /\ recovery' = [recovery EXCEPT ![p] = [J!RecOff EXCEPT !.step = "list"]]
  BY DEF J!Boot, J!Degrade, J!disk, J!task, J!bounds
<1>3. recovery \in [Procs -> [step : J!RecSteps, todo : SUBSET Ops, op : Ops \cup {"none"}]]
  BY <1>1 DEF J!TypeOK, J!Nothing
<1>4. /\ [J!RecOff EXCEPT !.step = "list"] \in [step : J!RecSteps, todo : SUBSET Ops, op : Ops \cup {"none"}]
      /\ [J!RecOff EXCEPT !.step = "list"].step = "list"
  BY DEF J!RecOff, J!RecSteps, J!Nothing
<1>5. recovery' \in [Procs -> [step : J!RecSteps, todo : SUBSET Ops, op : Ops \cup {"none"}]]
  BY <1>2, <1>3, <1>4
<1>6. J!TypeOK'
  BY <1>1, <1>2, <1>5 DEF J!TypeOK, J!Nothing
<1>7. J!OperationRests'
  BY <1>1, <1>2 DEF J!OperationRests, J!DiskFits, J!TaskFits
<1>8. \A q \in Procs : \/ recovery'[q] = recovery[q]
                       \/ q = p /\ recovery'[q].step = "list" /\ ~J!ExclusiveHeld /\ ~J!SharedHeld
  BY <1>2, <1>3, <1>4
<1>9. J!LeaseRests'
  <2>1. J!SharedHeld' = J!SharedHeld
    BY <1>2 DEF J!SharedHeld, J!Live
  <2>2. CASE recovery' = recovery
    BY <1>1, <1>2, <2>1, <2>2 DEF J!LeaseRests, J!Recovering
  <2>3. CASE recovery' # recovery
    <3>1. (\A q \in Procs : recovery[q].step = "off") /\ ~J!SharedHeld
      BY <1>2, <2>3 DEF J!ExclusiveHeld, J!Recovering
    <3>2. \A q \in Procs : recovery'[q].step # "off" => q = p
      BY <1>8, <3>1
    <3> QED
      BY <1>2, <2>1, <3>1, <3>2 DEF J!LeaseRests, J!Recovering
  <2> QED
    BY <2>2, <2>3
<1>10. J!RecoveryRests'
  BY <1>1, <1>2, <1>8 DEF J!RecoveryRests, J!Interrupted, J!StillActive
<1> QED
  BY <1>6, <1>7, <1>9, <1>10 DEF J!IndInv

\* A step of p's recovery: r, j and s are what it leaves of operation o, v is
\* where it stands.
Repairs(p, o, r, j, s, v) ==
    /\ scan' = [scan EXCEPT ![o] = r] /\ journal' = [journal EXCEPT ![o] = j]
    /\ staging' = [staging EXCEPT ![o] = s]
    /\ recovery' = [recovery EXCEPT ![p] = v]
    /\ UNCHANGED <<at, owner, cancelled, up, crashes>>
    /\ poisoned' \subseteq Procs /\ degraded' \subseteq Procs /\ faults' \in 0..MaxFaults

\* What the invariant says of a recovery that stands at v beside the rows r, the
\* journals j and the directories s.
Recovered(v, r, j, s) ==
    LET interrupted == {o \in Ops : j[o] \in {"open", "ready"}}
        active == {o \in Ops : r[o] \in J!ActiveRow}
    IN  v.step \notin {"off", "list"} =>
            /\ \A o \in Ops : j[o] # "torn"
            /\ v.step = "row" => interrupted = v.todo
            /\ v.step \in {"cleanup", "abort", "residual_row"} => v.op \in Ops \ v.todo
            /\ v.step \in {"cleanup", "abort"} =>
                   /\ interrupted = v.todo \cup {v.op}
                   /\ r[v.op] \notin J!ActiveRow \cup {"done"}
            /\ v.step = "abort" => ~s[v.op]
            /\ v.step \in {"residual", "residual_row", "settled"} => interrupted = {}
            /\ v.step = "residual" => active = v.todo
            /\ v.step = "residual_row" => active = v.todo \cup {v.op}
            /\ v.step = "settled" => active = {}

\* A repair that leaves the operation fit keeps the invariant: no task runs
\* beside it and no other recovery.
LEMMA RepairKeeps ==
    ASSUME J!SemgrepAssumption, J!IndInv, NEW p \in Procs, NEW o \in Ops, NEW r \in J!Rows,
           NEW j \in J!Lifecycles, NEW s \in BOOLEAN,
           NEW v \in [step : J!RecSteps, todo : SUBSET Ops, op : Ops \cup {"none"}],
           Repairs(p, o, r, j, s, v), J!Recovering(p), J!DiskFits(r, j, s, cancelled[o]),
           Recovered(v, scan', journal', staging')
    PROVE  J!IndInv'
<1>1. J!TypeOK /\ J!LeaseRests /\ J!OperationRests
  BY DEF J!IndInv
<1>2. /\ scan \in [Ops -> J!Rows] /\ journal \in [Ops -> J!Lifecycles]
      /\ staging \in [Ops -> BOOLEAN]
      /\ recovery \in [Procs -> [step : J!RecSteps, todo : SUBSET Ops, op : Ops \cup {"none"}]]
  BY <1>1 DEF J!TypeOK, J!Nothing
<1>3. /\ scan' \in [Ops -> J!Rows] /\ journal' \in [Ops -> J!Lifecycles]
      /\ recovery' \in [Procs -> [step : J!RecSteps, todo : SUBSET Ops, op : Ops \cup {"none"}]]
  BY <1>2 DEF Repairs
<1>4. staging' \in [Ops -> BOOLEAN]
  BY <1>2 DEF Repairs
<1>5. J!TypeOK'
  BY <1>1, <1>3, <1>4 DEF Repairs, J!TypeOK, J!Nothing
<1>6. /\ \A q \in Procs : q # p => ~J!Recovering(q)
      /\ p \in up /\ \A x \in Ops : owner[x] = "none" /\ at[x] = "none"
  <2>1. p \in up /\ ~J!SharedHeld
    BY <1>1 DEF J!LeaseRests
  <2>2. \A x \in Ops : owner[x] = "none"
    BY <2>1 DEF J!SharedHeld, J!Live, J!Nothing
  <2> QED
    BY <1>1, <2>1, <2>2 DEF J!LeaseRests, J!OperationRests, J!Nothing
<1>7. \A q \in Procs : q # p => recovery'[q].step = "off"
  BY <1>2, <1>6 DEF Repairs, J!Recovering
<1>8. J!LeaseRests'
  BY <1>6, <1>7 DEF Repairs, J!LeaseRests, J!Recovering, J!SharedHeld, J!Live, J!Nothing
<1>9. recovery'[p] = v
  BY <1>2 DEF Repairs
<1>10. J!RecoveryRests'
  BY <1>7, <1>9 DEF Recovered, J!RecoveryRests, J!Interrupted, J!StillActive
<1>11. J!OperationRests'
  <2> SUFFICES ASSUME NEW x \in Ops
               PROVE  /\ J!DiskFits(scan'[x], journal'[x], staging'[x], cancelled[x])
                      /\ J!TaskFits(scan'[x], journal'[x], staging'[x], cancelled[x], at[x])
                      /\ owner[x] # "none" <=> at[x] # "none"
    BY DEF Repairs, J!OperationRests, J!Nothing, J!DiskFits, J!TaskFits
  <2>1. at[x] = "none" /\ owner[x] = "none"
    BY <1>6
  <2>2. J!TaskFits(scan'[x], journal'[x], staging'[x], cancelled[x], "none")
    BY DEF J!TaskFits
  <2>3. CASE x = o
    BY <1>2, <2>1, <2>2, <2>3 DEF Repairs
  <2>4. CASE x # o
    <3>1. scan'[x] = scan[x] /\ journal'[x] = journal[x] /\ staging'[x] = staging[x]
      BY <1>2, <2>4 DEF Repairs
    <3>2. J!DiskFits(scan[x], journal[x], staging[x], cancelled[x])
      BY <1>1 DEF J!OperationRests
    <3> QED
      BY <2>1, <2>2, <3>1, <3>2
  <2> QED
    BY <2>3, <2>4
<1> QED
  BY <1>5, <1>8, <1>10, <1>11 DEF J!IndInv

\* A recovery that goes on, or ends, and leaves the disk alone.
LEMMA StandKeeps ==
    ASSUME J!SemgrepAssumption, J!IndInv, NEW p \in Procs,
           NEW v \in [step : J!RecSteps, todo : SUBSET Ops, op : Ops \cup {"none"}],
           J!Recovering(p), recovery' = [recovery EXCEPT ![p] = v],
           UNCHANGED <<scan, journal, staging, at, owner, cancelled, up, crashes>>,
           poisoned' \subseteq Procs, degraded' \subseteq Procs, faults' \in 0..MaxFaults,
           Recovered(v, scan, journal, staging)
    PROVE  J!IndInv'
<1>1. J!TypeOK /\ J!LeaseRests /\ J!OperationRests
  BY DEF J!IndInv
<1>2. recovery \in [Procs -> [step : J!RecSteps, todo : SUBSET Ops, op : Ops \cup {"none"}]]
  BY <1>1 DEF J!TypeOK, J!Nothing
<1>3. recovery' \in [Procs -> [step : J!RecSteps, todo : SUBSET Ops, op : Ops \cup {"none"}]]
  BY <1>2
<1>4. J!TypeOK'
  BY <1>1, <1>3 DEF J!TypeOK, J!Nothing
<1>5. J!OperationRests'
  BY <1>1 DEF J!OperationRests, J!DiskFits, J!TaskFits
<1>6. recovery'[p] = v /\ \A q \in Procs : q # p => recovery'[q] = recovery[q] /\ recovery[q].step = "off"
  BY <1>1, <1>2 DEF J!LeaseRests, J!Recovering
<1>7. J!LeaseRests'
  BY <1>1, <1>6 DEF J!LeaseRests, J!Recovering, J!SharedHeld, J!Live
<1>8. J!RecoveryRests'
  <2>1. UNCHANGED <<J!Interrupted, J!StillActive>>
    BY DEF J!Interrupted, J!StillActive
  <2> QED
    BY <1>6, <2>1 DEF Recovered, J!RecoveryRests, J!Interrupted, J!StillActive
<1> QED
  BY <1>4, <1>5, <1>7, <1>8 DEF J!IndInv

\* Every step of a recovery.
LEMMA RecoverKeeps ==
    ASSUME J!SemgrepAssumption, J!IndInv, NEW p \in Procs, J!Recover(p)
    PROVE  J!IndInv'
<1> DEFINE Stands == [step : J!RecSteps, todo : SUBSET Ops, op : Ops \cup {"none"}]
           At(step, rest, o) == [step |-> step, todo |-> rest, op |-> o]
<1>1. J!TypeOK /\ J!LeaseRests /\ J!OperationRests /\ J!RecoveryRests
  BY DEF J!IndInv
<1>2. J!Recovering(p)
  BY DEF J!Recover, J!RecList, J!RecRow, J!RecCleanup, J!RecAbort, J!RecResidual, J!RecResidualRow,
         J!RecDone, J!Recovering
<1>3. /\ scan \in [Ops -> J!Rows] /\ journal \in [Ops -> J!Lifecycles]
      /\ staging \in [Ops -> BOOLEAN] /\ recovery \in [Procs -> Stands]
      /\ faults \in 0..MaxFaults /\ MaxFaults \in Nat
      /\ poisoned \subseteq Procs /\ degraded \subseteq Procs
  BY <1>1 DEF J!TypeOK, J!Nothing, J!SemgrepAssumption
<1>4. J!Fault => faults' \in 0..MaxFaults
  BY <1>3 DEF J!Fault
<1>5. recovery[p] \in Stands /\ recovery[p].todo \subseteq Ops /\ recovery[p].op \in Ops \cup {"none"}
  BY <1>3
<1>6. \A o \in Ops : /\ J!DiskFits(scan[o], journal[o], staging[o], cancelled[o])
                     /\ scan = [scan EXCEPT ![o] = scan[o]] /\ journal = [journal EXCEPT ![o] = journal[o]]
                     /\ staging = [staging EXCEPT ![o] = staging[o]]
                     /\ scan[o] \in J!Rows /\ journal[o] \in J!Lifecycles /\ staging[o] \in BOOLEAN
  BY <1>1, OperationFacts DEF J!OperationRests
<1>7. J!RecOff \in Stands /\ J!RecOff.step = "off" /\ Recovered(J!RecOff, scan, journal, staging)
  BY DEF J!RecOff, J!RecSteps, J!Nothing, Recovered
\* An error ends recovery, whatever line it left.
<1>8. ASSUME UNCHANGED <<scan, journal, staging, at, owner, cancelled, up, crashes>>,
             J!RecFails(p), poisoned' \subseteq Procs, faults' \in 0..MaxFaults
      PROVE  J!IndInv'
  BY <1>2, <1>3, <1>7, <1>8, StandKeeps DEF J!RecFails, J!Degrade
<1>9. CASE J!RecList(p)
  <2>1. UNCHANGED <<scan, journal, staging, at, owner, cancelled, up, crashes>>
    BY <1>9 DEF J!RecList, J!disk, J!task
  <2>2. CASE /\ J!JournalUsable(p) /\ J!RecGoto(p, "row", J!Interrupted, "none")
             /\ UNCHANGED <<poisoned, degraded, faults>>
    <3>1. At("row", J!Interrupted, "none") \in Stands
      BY DEF J!RecSteps, J!Interrupted
    <3>2. Recovered(At("row", J!Interrupted, "none"), scan, journal, staging)
      BY <2>2 DEF J!JournalUsable, Recovered, J!Interrupted, J!StillActive
    <3> QED
      BY <1>2, <1>3, <2>1, <2>2, <3>1, <3>2, StandKeeps DEF J!RecGoto
  <2>3. CASE (faults' = faults \/ J!Fault) /\ poisoned' = poisoned \cup {p} /\ J!RecFails(p)
    BY <1>3, <1>4, <1>8, <2>1, <2>3
  <2> QED
    BY <1>9, <2>2, <2>3 DEF J!RecList, J!Nothing
<1>10. CASE J!RecRow(p)
  <2>1. /\ recovery[p].step = "row" /\ J!Interrupted = recovery[p].todo
        /\ \A o \in Ops : journal[o] # "torn"
    BY <1>1, <1>10 DEF J!RecRow, J!RecoveryRests
  <2>2. UNCHANGED <<journal, staging, at, owner, cancelled, up, poisoned, crashes>>
    BY <1>10 DEF J!RecRow, J!task
  <2>3. CASE /\ recovery[p].todo = {} /\ J!RecGoto(p, "residual", J!StillActive, "none")
             /\ UNCHANGED <<scan, degraded, faults>>
    <3>1. At("residual", J!StillActive, "none") \in Stands
      BY DEF J!RecSteps, J!StillActive
    <3>2. Recovered(At("residual", J!StillActive, "none"), scan, journal, staging)
      BY <2>1, <2>3 DEF Recovered, J!Interrupted, J!StillActive
    <3> QED
      BY <1>2, <1>3, <2>2, <2>3, <3>1, <3>2, StandKeeps DEF J!RecGoto
  <2>4. ASSUME NEW o \in recovery[p].todo, J!RecGoto(p, "cleanup", recovery[p].todo \ {o}, o),
               scan' = [scan EXCEPT ![o] = IF @ \in J!ActiveRow \cup {"done"} THEN "failed" ELSE @],
               UNCHANGED <<degraded, faults>>
        PROVE  J!IndInv'
    <3> DEFINE r == IF scan[o] \in J!ActiveRow \cup {"done"} THEN "failed" ELSE scan[o]
               v == At("cleanup", recovery[p].todo \ {o}, o)
    <3>1. o \in Ops /\ r \in J!Rows /\ v \in Stands
      BY <1>5, <1>6, ScanNames DEF J!RecSteps
    <3>2. journal[o] \in {"open", "ready"}
      BY <2>1 DEF J!Interrupted
    <3>3. J!DiskFits(r, journal[o], staging[o], cancelled[o]) /\ r \notin J!ActiveRow \cup {"done"}
      BY <1>6, <3>1, <3>2 DEF J!DiskFits, J!Aborted, J!ActiveRow
    <3>4. Repairs(p, o, r, journal[o], staging[o], v)
      BY <1>3, <1>6, <2>2, <2>4, <3>1 DEF Repairs, J!RecGoto
    <3>5. J!Interrupted' = (recovery[p].todo \ {o}) \cup {o}
      BY <2>1, <2>2 DEF J!Interrupted
    <3>6. scan'[o] = r
      BY <1>3, <2>4, <3>1
    <3>7. Recovered(v, scan', journal', staging')
      BY <2>1, <2>2, <3>1, <3>3, <3>5, <3>6 DEF Recovered, J!Interrupted, J!StillActive
    <3> QED
      BY <1>2, <1>6, <3>1, <3>3, <3>4, <3>7, RepairKeeps
  <2>5. CASE J!Fault /\ J!RecFails(p) /\ UNCHANGED scan
    BY <1>3, <1>4, <1>8, <2>2, <2>5
  <2> QED
    BY <1>10, <2>3, <2>4, <2>5 DEF J!RecRow, J!Nothing, J!StillActive
<1>11. CASE J!RecCleanup(p)
  <2> DEFINE o == recovery[p].op
             v == At("abort", recovery[p].todo, o)
  <2>1. /\ o \in Ops \ recovery[p].todo /\ J!Interrupted = recovery[p].todo \cup {o}
        /\ scan[o] \notin J!ActiveRow \cup {"done"} /\ \A x \in Ops : journal[x] # "torn"
    BY <1>1, <1>11 DEF J!RecCleanup, J!RecoveryRests
  <2>2. UNCHANGED <<scan, journal, at, owner, cancelled, up, poisoned, crashes>>
    BY <1>11 DEF J!RecCleanup, J!task
  <2>3. CASE /\ staging' = [staging EXCEPT ![o] = FALSE]
             /\ J!RecGoto(p, "abort", recovery[p].todo, o) /\ UNCHANGED <<degraded, faults>>
    <3>1. v \in Stands
      BY <1>5, <2>1 DEF J!RecSteps
    <3>2. J!DiskFits(scan[o], journal[o], FALSE, cancelled[o])
      BY <1>6, <2>1 DEF J!DiskFits
    <3>3. Repairs(p, o, scan[o], journal[o], FALSE, v)
      BY <1>3, <1>6, <2>1, <2>2, <2>3 DEF Repairs, J!RecGoto
    <3>4. ~staging'[o] /\ J!Interrupted' = J!Interrupted
      BY <1>3, <2>1, <2>2, <2>3 DEF J!Interrupted
    <3>5. Recovered(v, scan', journal', staging')
      BY <2>1, <2>2, <3>4 DEF Recovered, J!Interrupted, J!StillActive
    <3> QED
      BY <1>2, <1>6, <2>1, <3>1, <3>2, <3>3, <3>5, RepairKeeps
  <2>4. CASE J!Fault /\ J!RecFails(p) /\ UNCHANGED staging
    BY <1>3, <1>4, <1>8, <2>2, <2>4
  <2> QED
    BY <1>11, <2>3, <2>4 DEF J!RecCleanup
<1>12. CASE J!RecAbort(p)
  <2> DEFINE o == recovery[p].op
             v == At("row", recovery[p].todo, "none")
  <2>1. /\ o \in Ops /\ o \notin recovery[p].todo /\ J!Interrupted = recovery[p].todo \cup {o}
        /\ scan[o] \notin J!ActiveRow \cup {"done"} /\ \A x \in Ops : journal[x] # "torn"
        /\ ~staging[o]
    BY <1>1, <1>12 DEF J!RecAbort, J!RecoveryRests
  <2>2. UNCHANGED <<scan, staging, at, owner, cancelled, up, crashes>>
    BY <1>12 DEF J!RecAbort, J!task
  <2>3. \/ J!AppendSucceeds(p, o, "recovered") /\ J!RecGoto(p, "row", recovery[p].todo, "none") /\ degraded' = degraded
        \/ J!AppendFails(p, o, "recovered") /\ J!RecFails(p)
    BY <1>12 DEF J!RecAbort, J!Nothing
  <2>4. PICK j \in {journal[o], "recovered", "torn"} :
           /\ journal' = [journal EXCEPT ![o] = j] /\ j \in J!Lifecycles
           /\ J!AppendSucceeds(p, o, "recovered") => j = "recovered"
           /\ poisoned' \subseteq Procs /\ faults' \in 0..MaxFaults
    BY <1>1, <2>1, <2>3, AppendFacts, ScanNames
  <2>5. J!DiskFits(scan[o], j, staging[o], cancelled[o])
    BY <1>6, <2>1, <2>4 DEF J!DiskFits, J!Aborted
  <2>6. CASE J!AppendSucceeds(p, o, "recovered") /\ J!RecGoto(p, "row", recovery[p].todo, "none") /\ degraded' = degraded
    <3>1. v \in Stands
      BY <1>5 DEF J!RecSteps
    <3>2. Repairs(p, o, scan[o], j, staging[o], v)
      BY <1>3, <1>6, <2>1, <2>2, <2>4, <2>6 DEF Repairs, J!RecGoto
    <3>3. \A x \in Ops : journal'[x] = IF x = o THEN "recovered" ELSE journal[x]
      BY <1>3, <2>4, <2>6
    <3>4. J!Interrupted' = recovery[p].todo
      BY <1>5, <2>1, <3>3 DEF J!Interrupted
    <3>5. Recovered(v, scan', journal', staging')
      BY <2>1, <3>3, <3>4 DEF Recovered, J!Interrupted, J!StillActive
    <3> QED
      <4>1. scan[o] \in J!Rows /\ j \in J!Lifecycles /\ staging[o] \in BOOLEAN /\ o \in Ops
        BY <1>6, <2>1, <2>4
      <4> HIDE DEF o, v
      <4> QED
        BY <1>2, <2>5, <3>1, <3>2, <3>5, <4>1, RepairKeeps
  <2>7. CASE J!RecFails(p)
    <3>1. Repairs(p, o, scan[o], j, staging[o], J!RecOff)
      BY <1>3, <1>6, <2>1, <2>2, <2>4, <2>7 DEF Repairs, J!RecFails, J!Degrade
    <3>2. Recovered(J!RecOff, scan', journal', staging')
      BY DEF Recovered, J!RecOff
    <3> QED
      <4>1. scan[o] \in J!Rows /\ j \in J!Lifecycles /\ staging[o] \in BOOLEAN /\ o \in Ops
        BY <1>6, <2>1, <2>4
      <4>2. J!RecOff \in [step : J!RecSteps, todo : SUBSET Ops, op : Ops \cup {"none"}]
        BY <1>7
      <4> HIDE DEF o, Stands
      <4> QED
        BY <1>2, <2>5, <3>1, <3>2, <4>1, <4>2, RepairKeeps
  <2> QED
    BY <2>3, <2>6, <2>7
<1>13. CASE J!RecResidual(p)
  <2>1. /\ J!Interrupted = {} /\ J!StillActive = recovery[p].todo
        /\ \A x \in Ops : journal[x] # "torn"
    BY <1>1, <1>13 DEF J!RecResidual, J!RecoveryRests
  <2>2. UNCHANGED <<scan, journal, at, owner, cancelled, up, poisoned, crashes>>
    BY <1>13 DEF J!RecResidual, J!task
  <2>3. CASE /\ recovery[p].todo = {} /\ J!RecGoto(p, "settled", {}, "none")
             /\ UNCHANGED <<staging, degraded, faults>>
    <3>1. At("settled", {}, "none") \in Stands
      BY DEF J!RecSteps
    <3>2. Recovered(At("settled", {}, "none"), scan, journal, staging)
      BY <2>1, <2>3 DEF Recovered, J!Interrupted, J!StillActive
    <3> QED
      BY <1>2, <1>3, <2>2, <2>3, <3>1, <3>2, StandKeeps DEF J!RecGoto
  <2>4. ASSUME NEW o \in recovery[p].todo, J!RecGoto(p, "residual_row", recovery[p].todo \ {o}, o),
               staging' = [staging EXCEPT ![o] = FALSE], UNCHANGED <<degraded, faults>>
        PROVE  J!IndInv'
    <3> DEFINE v == At("residual_row", recovery[p].todo \ {o}, o)
    <3>1. o \in Ops /\ v \in Stands
      BY <1>5 DEF J!RecSteps
    <3>2. J!DiskFits(scan[o], journal[o], FALSE, cancelled[o])
      BY <1>6, <3>1 DEF J!DiskFits
    <3>3. Repairs(p, o, scan[o], journal[o], FALSE, v)
      BY <1>3, <1>6, <2>2, <2>4, <3>1 DEF Repairs, J!RecGoto
    <3>4. J!Interrupted' = {} /\ J!StillActive' = (recovery[p].todo \ {o}) \cup {o}
      BY <2>1, <2>2 DEF J!Interrupted, J!StillActive
    <3>5. Recovered(v, scan', journal', staging')
      BY <2>1, <2>2, <3>1, <3>4 DEF Recovered, J!Interrupted, J!StillActive
    <3> QED
      BY <1>2, <1>6, <3>1, <3>2, <3>3, <3>5, RepairKeeps
  <2>5. CASE J!Fault /\ J!RecFails(p) /\ UNCHANGED staging
    BY <1>3, <1>4, <1>8, <2>2, <2>5
  <2> QED
    BY <1>13, <2>3, <2>4, <2>5 DEF J!RecResidual, J!Nothing
<1>14. CASE J!RecResidualRow(p)
  <2> DEFINE o == recovery[p].op
             v == At("residual", recovery[p].todo, "none")
  <2>1. /\ o \in Ops /\ o \notin recovery[p].todo /\ J!Interrupted = {}
        /\ J!StillActive = recovery[p].todo \cup {o} /\ \A x \in Ops : journal[x] # "torn"
    BY <1>1, <1>14 DEF J!RecResidualRow, J!RecoveryRests
  <2>2. UNCHANGED <<journal, staging, at, owner, cancelled, up, poisoned, crashes>>
    BY <1>14 DEF J!RecResidualRow, J!task
  <2>3. CASE /\ scan' = [scan EXCEPT ![o] = "failed"] /\ scan[o] \in J!ActiveRow
             /\ J!RecGoto(p, "residual", recovery[p].todo, "none") /\ UNCHANGED <<degraded, faults>>
    <3>1. v \in Stands /\ "failed" \in J!Rows
      BY <1>5, ScanNames DEF J!RecSteps
    <3>2. J!DiskFits("failed", journal[o], staging[o], cancelled[o])
      BY <1>6, <2>1, <2>3 DEF J!DiskFits, J!Aborted, J!ActiveRow, J!Nothing
    <3>3. Repairs(p, o, "failed", journal[o], staging[o], v)
      BY <1>3, <1>6, <2>1, <2>2, <2>3 DEF Repairs, J!RecGoto
    <3>4. \A x \in Ops : scan'[x] = IF x = o THEN "failed" ELSE scan[x]
      BY <1>3, <2>3
    <3>5. J!Interrupted' = {} /\ J!StillActive' = recovery[p].todo
      BY <1>5, <2>1, <2>2, <3>4 DEF J!Interrupted, J!StillActive, J!ActiveRow
    <3>6. Recovered(v, scan', journal', staging')
      BY <2>1, <2>2, <3>5 DEF Recovered, J!Interrupted, J!StillActive
    <3> QED
      BY <1>2, <1>6, <2>1, <3>1, <3>2, <3>3, <3>6, RepairKeeps
  <2>4. CASE (faults' = faults \/ J!Fault) /\ J!RecFails(p) /\ UNCHANGED scan
    BY <1>3, <1>4, <1>8, <2>2, <2>4
  <2> QED
    BY <1>14, <2>3, <2>4 DEF J!RecResidualRow, J!Nothing
<1>15. CASE J!RecDone(p)
  BY <1>2, <1>3, <1>7, <1>15, StandKeeps DEF J!RecDone, J!disk, J!task, J!health, J!bounds
<1> QED
  BY <1>9, <1>10, <1>11, <1>12, <1>13, <1>14, <1>15 DEF J!Recover

\* Reading an unreadable journal is remembered; a project is deleted only while
\* nothing runs in the workspace.
LEMMA ReadKeeps ==
    ASSUME J!SemgrepAssumption, J!IndInv, NEW p \in Procs, J!Read(p)
    PROVE  J!IndInv'
BY DEF J!IndInv, J!Read, J!TypeOK, J!LeaseRests, J!OperationRests, J!RecoveryRests, J!DiskFits, J!TaskFits,
       J!Recovering, J!SharedHeld, J!Live, J!Interrupted, J!StillActive, J!disk, J!task, J!bounds

\* A deletion takes rows away and nothing else.
LEMMA DeleteKeeps ==
    ASSUME J!SemgrepAssumption, J!IndInv, NEW p \in Procs, NEW project, J!DeleteProject(p, project)
    PROVE  J!IndInv'
<1>1. J!TypeOK /\ J!LeaseRests /\ J!OperationRests /\ J!RecoveryRests
  BY DEF J!IndInv
<1>2. /\ scan' = [o \in Ops |-> IF ProjectOf[o] = project THEN "none" ELSE scan[o]]
      /\ UNCHANGED <<journal, staging, at, owner, cancelled, up, poisoned, degraded, recovery, faults, crashes>>
      /\ \A q \in Procs : ~J!Recovering(q)
      /\ \A o \in Ops : owner[o] = "none"
  BY DEF J!DeleteProject, J!task, J!health, J!bounds, J!Nothing, J!ExclusiveHeld, J!SharedHeld, J!Live
<1>3. J!TypeOK'
  <2>1. scan' \in [Ops -> J!Rows]
    BY <1>1, <1>2, ScanNames DEF J!TypeOK
  <2> QED
    BY <1>1, <1>2, <2>1 DEF J!TypeOK
<1>4. J!LeaseRests' /\ J!RecoveryRests'
  BY <1>2 DEF J!LeaseRests, J!RecoveryRests, J!Recovering
<1>5. J!OperationRests'
  <2> SUFFICES ASSUME NEW x \in Ops
               PROVE  /\ J!DiskFits(scan'[x], journal[x], staging[x], cancelled[x])
                      /\ J!TaskFits(scan'[x], journal[x], staging[x], cancelled[x], at[x])
                      /\ owner[x] # "none" <=> at[x] # "none"
    BY <1>2 DEF J!OperationRests, J!Nothing, J!DiskFits, J!TaskFits
  <2>1. /\ J!DiskFits(scan[x], journal[x], staging[x], cancelled[x])
        /\ owner[x] = "none" /\ at[x] = "none" /\ scan'[x] \in {scan[x], "none"}
    BY <1>1, <1>2 DEF J!OperationRests, J!Nothing
  <2>2. J!DiskFits(scan'[x], journal[x], staging[x], cancelled[x])
    BY <2>1 DEF J!DiskFits, J!Nothing, J!ActiveRow
  <2>3. J!TaskFits(scan'[x], journal[x], staging[x], cancelled[x], "none")
    BY DEF J!TaskFits
  <2> QED
    BY <2>1, <2>2, <2>3
<1> QED
  BY <1>3, <1>4, <1>5 DEF J!IndInv

\* The invariant is inductive.
LEMMA ScanNext == ASSUME J!SemgrepAssumption PROVE J!IndInv /\ [J!Next]_J!vars => J!IndInv'
<1> SUFFICES ASSUME J!IndInv, [J!Next]_J!vars
             PROVE  J!IndInv'
  OBVIOUS
<1>1. CASE J!Next
  BY <1>1, StepKeeps, AdmitKeeps, CancelKeeps, BootKeeps, CrashKeeps, RecoverKeeps, ReadKeeps, DeleteKeeps
     DEF J!Next
<1>2. CASE UNCHANGED J!vars
  <2>1. UNCHANGED <<scan, journal, staging, at, owner, cancelled, up, poisoned, degraded, recovery, faults, crashes>>
    BY <1>2 DEF J!vars, J!disk, J!task, J!health, J!bounds
  <2> QED
    BY <2>1 DEF J!IndInv, J!TypeOK, J!LeaseRests, J!OperationRests, J!RecoveryRests, J!DiskFits, J!TaskFits,
                J!Recovering, J!SharedHeld, J!Live, J!Interrupted, J!StillActive
<1> QED
  BY <1>1, <1>2

\* A closed scan has its published row, an aborted one nothing, nobody works
\* under a running one, an accepted cancellation is honoured and a recovery that
\* reports success has settled everything (semgrep.rs).
THEOREM ScansAlwaysReconciled == ASSUME J!SemgrepAssumption PROVE J!Spec => []J!ScansHold
<1>1. J!IndInv => J!ScansHold
  <2> SUFFICES ASSUME J!IndInv
               PROVE  J!ScansHold
    OBVIOUS
  <2>1. J!TypeOK /\ J!LeaseRests /\ J!OperationRests /\ J!RecoveryRests
    BY DEF J!IndInv
  <2>2. \A o \in Ops : /\ J!DiskFits(scan[o], journal[o], staging[o], cancelled[o])
                       /\ J!TaskFits(scan[o], journal[o], staging[o], cancelled[o], at[o])
                       /\ owner[o] # "none" <=> at[o] # "none"
    BY <2>1 DEF J!OperationRests, J!Nothing
  <2>3. J!ClosedIsPublished /\ J!AbortedIsClean
    BY <2>2 DEF J!ClosedIsPublished, J!AbortedIsClean, J!DiskFits, J!Aborted
  <2>4. J!Undisturbed
    BY <2>2 DEF J!Undisturbed, J!TaskFits, J!Nothing
  <2>5. J!CancelHonoured
    BY <2>2 DEF J!CancelHonoured, J!DiskFits
  <2>6. J!RecoveryComplete
    <3> SUFFICES ASSUME NEW p \in Procs, recovery[p].step = "settled", NEW o \in Ops
                 PROVE  J!Settled(o)
      BY DEF J!RecoveryComplete
    <3>1. journal[o] # "torn" /\ J!Interrupted = {} /\ J!StillActive = {}
      BY <2>1 DEF J!RecoveryRests
    <3>2. journal[o] \notin {"open", "ready", "torn"} /\ scan[o] \notin J!ActiveRow
      BY <3>1 DEF J!Interrupted, J!StillActive
    <3> QED
      BY <2>2, <3>2 DEF J!DiskFits, J!Settled
  <2> QED
    BY <2>1, <2>3, <2>4, <2>5, <2>6 DEF J!ScansHold
<1> QED
  BY <1>1, ScanInit, ScanNext, PTL DEF J!Spec

\* How an operation that has ended may change: its row by deletion alone, its
\* closed journal by a torn line alone, and only one without a row gets an owner.
EndStays(o) ==
    /\ scan[o] \in {"failed", "cancelled"} => scan'[o] \in {scan[o], "none"}
    /\ scan[o] = "done" /\ journal[o] = "closed" =>
           scan'[o] \in {"done", "none"} /\ journal'[o] \in {"closed", "torn"}
    /\ owner'[o] # owner[o] => owner'[o] = "none" \/ scan[o] = "none"

\* The journal accepts no line after a close.
LEMMA ClosedAccepts == ASSUME NEW next PROVE ~J!Accepts("closed", next)
<1>1. CASE next = "open"
  BY <1>1 DEF J!Accepts, J!Nothing
<1>2. CASE next = "ready"
  BY <1>2 DEF J!Accepts
<1>3. CASE next = "closed"
  BY <1>3 DEF J!Accepts
<1>4. CASE next \notin {"open", "ready", "closed"}
  BY <1>4 DEF J!Accepts
<1> QED
  BY <1>1, <1>2, <1>3, <1>4

\* So an append leaves every closed journal as it is.
LEMMA AppendAfterClose ==
    ASSUME J!SemgrepAssumption, J!TypeOK, NEW p \in Procs, NEW o \in Ops, NEW next \in J!Lifecycles,
           J!AppendSucceeds(p, o, next) \/ J!AppendFails(p, o, next),
           NEW x \in Ops, journal[x] = "closed"
    PROVE  journal'[x] = "closed"
<1>1. PICK j \in {journal[o], next, "torn"} :
         journal' = [journal EXCEPT ![o] = j] /\ (j = journal[o] \/ J!Accepts(journal[o], next))
  BY AppendFacts
<1>2. journal \in [Ops -> J!Lifecycles]
  BY DEF J!TypeOK
<1>3. x = o => j = "closed"
  BY <1>1, ClosedAccepts
<1> QED
  BY <1>1, <1>2, <1>3

\* A step that writes the row of an operation writes one that has not ended.
LEMMA RowAfterEnd ==
    ASSUME J!TypeOK, NEW o \in Ops, NEW r, scan' = scan \/ scan' = [scan EXCEPT ![o] = r],
           scan'[o] # scan[o] => scan[o] \in J!ActiveRow \cup {"none"} \/
                                 (scan[o] = "done" /\ journal[o] # "closed"),
           UNCHANGED <<journal, owner>>
    PROVE  \A x \in Ops : EndStays(x)
<1>1. scan \in [Ops -> J!Rows]
  BY DEF J!TypeOK
<1>2. \A x \in Ops : x # o => scan'[x] = scan[x]
  BY <1>1
<1> QED
  BY <1>2 DEF EndStays, J!ActiveRow

\* A task's step changes no operation that has ended.
LEMMA StepEnds ==
    ASSUME J!SemgrepAssumption, J!IndInv, NEW o \in Ops, J!Step(o)
    PROVE  \A x \in Ops : EndStays(x)
<1>1. J!TypeOK /\ J!OperationRests
  BY DEF J!IndInv
<1>2. /\ J!TaskFits(scan[o], journal[o], staging[o], cancelled[o], at[o])
      /\ scan \in [Ops -> J!Rows] /\ owner \in [Ops -> Procs \cup {"none"}]
  BY <1>1 DEF J!OperationRests, J!TypeOK, J!Nothing
<1>3. CASE UNCHANGED <<scan, journal, owner>>
  BY <1>3 DEF EndStays
<1>4. CASE J!Insert(o)
  <2>1. scan[o] = "none"
    BY <1>2, <1>4 DEF J!Insert, J!TaskFits, J!Nothing
  <2>2. (scan' = scan \/ scan' = [scan EXCEPT ![o] = "staging"]) /\ UNCHANGED <<journal, owner>>
    BY <1>4 DEF J!Insert
  <2> QED
    BY <1>1, <2>1, <2>2, RowAfterEnd
<1>5. ASSUME NEW from \in J!ActiveRow \cup {"done"}, NEW to, NEW ok, NEW failed,
             J!Phase(o, from, to, ok, failed), UNCHANGED <<journal, owner>>,
             from = "done" => journal[o] # "closed"
      PROVE  \A x \in Ops : EndStays(x)
  <2>1. scan' = scan \/ (scan[o] = from /\ scan' = [scan EXCEPT ![o] = to])
    BY <1>5 DEF J!Phase
  <2> QED
    BY <1>1, <1>5, <2>1, RowAfterEnd
<1>6. CASE J!SetScanning(o)
  BY <1>3, <1>5, <1>6 DEF J!SetScanning, J!ActiveRow
<1>7. CASE J!SetValidating(o)
  BY <1>5, <1>7 DEF J!SetValidating, J!ActiveRow
<1>8. CASE J!SetPersisting(o)
  BY <1>3, <1>5, <1>8 DEF J!SetPersisting, J!ActiveRow
<1>9. CASE J!Publish(o)
  BY <1>5, <1>9 DEF J!Publish, J!ActiveRow
<1>10. CASE J!Compensate(o)
  <2>1. journal[o] = "ready"
    BY <1>2, <1>10 DEF J!Compensate, J!TaskFits
  <2> QED
    BY <1>5, <1>10, <2>1 DEF J!Compensate
<1>11. CASE J!FailRow(o)
  <2>1. /\ \/ scan[o] \in J!ActiveRow /\ scan' = [scan EXCEPT ![o] = J!Outcome(o)]
           \/ scan' = scan
        /\ UNCHANGED <<journal, owner>>
    BY <1>11 DEF J!FailRow
  <2> QED
    BY <1>1, <2>1, RowAfterEnd
<1>12. ASSUME NEW next \in J!Lifecycles,
              J!AppendSucceeds(owner[o], o, next) \/ J!AppendFails(owner[o], o, next),
              at[o] # "none", UNCHANGED <<scan, owner>>
       PROVE  \A x \in Ops : EndStays(x)
  <2>1. owner[o] \in Procs
    BY <1>12, TaskRuns
  <2>2. \A x \in Ops : journal[x] = "closed" => journal'[x] = "closed"
    BY <1>1, <1>12, <2>1, AppendAfterClose
  <2> QED
    BY <1>12, <2>2 DEF EndStays
<1>13. CASE J!Begin(o)
  BY <1>12, <1>13, ScanNames DEF J!Begin
<1>14. CASE J!Ready(o)
  BY <1>3, <1>12, <1>14, ScanNames DEF J!Ready
<1>15. CASE J!Close(o)
  BY <1>12, <1>15, ScanNames DEF J!Close
<1>16. CASE J!Abort(o)
  <2>1. J!Outcome(o) \in J!Lifecycles
    BY ScanNames DEF J!Outcome
  <2> QED
    BY <1>12, <1>16, <2>1 DEF J!Abort
<1>17. CASE J!Release(o)
  BY <1>2, <1>17 DEF J!Release, EndStays, J!disk, J!Nothing
<1>18. CASE J!Stage(o) \/ J!Run(o) \/ J!Claim(o) \/ J!ClaimFailure(o) \/ J!Cleanup(o) \/ J!FailCleanup(o)
  BY <1>3, <1>18 DEF J!Stage, J!Run, J!Claim, J!ClaimFailure, J!Cleanup, J!FailCleanup, J!disk
<1> QED
  BY <1>4, <1>6, <1>7, <1>8, <1>9, <1>10, <1>11, <1>13, <1>14, <1>15, <1>16, <1>17, <1>18 DEF J!Step

\* Nor does a recovery: it takes up only what was interrupted.
LEMMA RecoverEnds ==
    ASSUME J!SemgrepAssumption, J!IndInv, NEW p \in Procs, J!Recover(p)
    PROVE  \A x \in Ops : EndStays(x)
<1>1. J!TypeOK /\ J!RecoveryRests
  BY DEF J!IndInv
<1>2. /\ scan \in [Ops -> J!Rows]
      /\ recovery \in [Procs -> [step : J!RecSteps, todo : SUBSET Ops, op : Ops \cup {"none"}]]
  BY <1>1 DEF J!TypeOK, J!Nothing
<1>3. CASE UNCHANGED <<scan, journal, owner>>
  BY <1>3 DEF EndStays
<1>4. CASE J!RecList(p) \/ J!RecCleanup(p) \/ J!RecResidual(p) \/ J!RecDone(p)
  BY <1>3, <1>4 DEF J!RecList, J!RecCleanup, J!RecResidual, J!RecDone, J!disk, J!task
<1>5. CASE J!RecRow(p)
  <2>1. UNCHANGED <<journal, owner>>
    BY <1>5 DEF J!RecRow, J!task
  <2>2. CASE scan' = scan
    BY <1>3, <2>1, <2>2
  <2>3. ASSUME NEW o \in recovery[p].todo,
               scan' = [scan EXCEPT ![o] = IF @ \in J!ActiveRow \cup {"done"} THEN "failed" ELSE @]
        PROVE  \A x \in Ops : EndStays(x)
    <3>1. o \in Ops /\ journal[o] \in {"open", "ready"}
      BY <1>1, <1>2, <1>5, <2>3 DEF J!RecRow, J!RecoveryRests, J!Interrupted
    <3>2. scan'[o] # scan[o] => scan[o] \in J!ActiveRow \cup {"done"}
      BY <1>2, <2>3, <3>1
    <3>3. scan' = [scan EXCEPT ![o] = IF scan[o] \in J!ActiveRow \cup {"done"} THEN "failed" ELSE scan[o]]
      BY <2>3
    <3> QED
      BY <1>1, <2>1, <3>1, <3>2, <3>3, RowAfterEnd
  <2> QED
    BY <1>5, <2>2, <2>3 DEF J!RecRow
<1>6. CASE J!RecResidualRow(p)
  <2>1. UNCHANGED <<journal, owner>>
    BY <1>6 DEF J!RecResidualRow, J!task
  <2>2. recovery[p].op \in Ops
    BY <1>1, <1>6 DEF J!RecResidualRow, J!RecoveryRests
  <2>3. \/ scan' = scan
        \/ scan[recovery[p].op] \in J!ActiveRow /\ scan' = [scan EXCEPT ![recovery[p].op] = "failed"]
    BY <1>6 DEF J!RecResidualRow
  <2> QED
    BY <1>1, <2>1, <2>2, <2>3, RowAfterEnd
<1>7. CASE J!RecAbort(p)
  <2>1. /\ UNCHANGED <<scan, owner>> /\ recovery[p].op \in Ops
        /\ J!AppendSucceeds(p, recovery[p].op, "recovered") \/ J!AppendFails(p, recovery[p].op, "recovered")
    BY <1>1, <1>7 DEF J!RecAbort, J!RecoveryRests, J!task
  <2>2. \A x \in Ops : journal[x] = "closed" => journal'[x] = "closed"
    BY <1>1, <2>1, AppendAfterClose, ScanNames
  <2> QED
    BY <2>1, <2>2 DEF EndStays
<1> QED
  BY <1>4, <1>5, <1>6, <1>7 DEF J!Recover

\* Every step of the scans lets what has ended stay.
LEMMA NextEnds ==
    ASSUME J!SemgrepAssumption, J!IndInv, J!Next
    PROVE  \A x \in Ops : EndStays(x)
<1>1. J!TypeOK
  BY DEF J!IndInv
<1>2. /\ scan \in [Ops -> J!Rows] /\ owner \in [Ops -> Procs \cup {"none"}]
      /\ journal \in [Ops -> J!Lifecycles]
  BY <1>1 DEF J!TypeOK, J!Nothing
<1>3. ASSUME NEW p \in Procs, NEW o \in Ops, J!Admit(p, o)
      PROVE  \A x \in Ops : EndStays(x)
  BY <1>2, <1>3 DEF J!Admit, EndStays, J!disk, J!Nothing
<1>4. ASSUME NEW p \in Procs, NEW o \in Ops, J!Cancel(p, o)
      PROVE  \A x \in Ops : EndStays(x)
  BY <1>4 DEF J!Cancel, EndStays, J!disk
<1>5. ASSUME NEW p \in Procs, J!Boot(p) \/ J!Read(p)
      PROVE  \A x \in Ops : EndStays(x)
  BY <1>5 DEF J!Boot, J!Read, EndStays, J!disk, J!task
<1>6. ASSUME NEW p \in Procs, J!Crash(p)
      PROVE  \A x \in Ops : EndStays(x)
  BY <1>2, <1>6 DEF J!Crash, EndStays, J!Nothing
<1>7. ASSUME NEW p \in Procs, NEW project, J!DeleteProject(p, project)
      PROVE  \A x \in Ops : EndStays(x)
  BY <1>2, <1>7 DEF J!DeleteProject, EndStays, J!task, J!Nothing
<1> QED
  BY <1>3, <1>4, <1>5, <1>6, <1>7, StepEnds, RecoverEnds DEF J!Next

\* What a caller was told of an ended scan stays true for it: whoever dies or
\* recovers, the answer changes by deletion alone while the journal can be read
\* (semgrep_operation).
THEOREM AnswersStay == ASSUME J!SemgrepAssumption PROVE J!Spec => [][J!TerminalViewStays]_J!vars
<1>1. ASSUME J!IndInv, J!Next PROVE J!TerminalViewStays
  <2> SUFFICES ASSUME NEW p \in Procs, NEW o \in Ops,
                      J!View(p, o) \in {"done", "failed", "cancelled"}, J!JournalUsable(p)'
               PROVE  J!View(p, o)' \in {J!View(p, o), "none"}
    BY DEF J!TerminalViewStays, J!Nothing
  <2>1. EndStays(o)
    BY <1>1, NextEnds
  <2>2. journal'[o] # "torn" /\ "none" # p
    BY DEF J!JournalUsable, J!SemgrepAssumption
  <2>3. CASE scan[o] = "done"
    <3>1. J!View(p, o) = "done" /\ journal[o] = "closed"
      BY <2>3 DEF J!View
    <3>2. scan'[o] \in {"done", "none"} /\ journal'[o] = "closed"
      BY <2>1, <2>2, <2>3, <3>1 DEF EndStays
    <3> QED
      BY <3>1, <3>2 DEF J!View
  <2>4. CASE scan[o] \in {"failed", "cancelled"}
    <3>1. J!View(p, o) = scan[o] /\ owner[o] # p
      BY <2>4 DEF J!View
    <3>2. scan'[o] \in {scan[o], "none"} /\ owner'[o] # p
      BY <2>1, <2>2, <2>4, <3>1 DEF EndStays
    <3> QED
      BY <2>4, <3>1, <3>2 DEF J!View
  <2>5. CASE scan[o] \notin {"done", "failed", "cancelled"}
    BY <2>5 DEF J!View
  <2> QED
    BY <2>3, <2>4, <2>5
<1>2. J!IndInv /\ [J!Next]_J!vars => [J!TerminalViewStays]_J!vars
  BY <1>1
<1> QED
  BY <1>2, ScanInit, ScanNext, PTL DEF J!Spec

-------------------------------------------------------------------------------
(* The run journal.                                                          *)

CONSTANTS Runs, Kind, Rank, OpenBytes, LineBytes, MaxBytes, MaxEvents, Allowed

VARIABLES row, wal, running, unsure, interrupted, boot, abandoned, future, guard,
          repair, started, told, peer, overwrites, lost, excused, spare

R == INSTANCE RunJournal WITH Budget <- Allowed, up <- running, degraded <- unsure,
                              pc <- future, left <- spare

\* An event that begins or ends a run in the journal changes that run alone.
Effect(e, open) ==
    IF e.event = "open" THEN open \cup {e.run}
    ELSE IF e.event \in {"close", "dismiss"} THEN open \ {e.run} ELSE open

LEMMA EventNames ==
    ASSUME NEW r \in Runs
    PROVE  /\ \A k \in {"open", "close", "dismiss", "note", "torn"} :
                  R!Ev(k, r) \in R!Events /\ R!Ev(k, r).event = k /\ R!Ev(k, r).run = r
           /\ R!Torn(r) = R!Ev("torn", r)
BY DEF R!Ev, R!Events, R!Torn

\* What a line that is appended does to the replay.
LEMMA OpenAppend ==
    ASSUME NEW w \in Seq(R!Events), NEW e \in R!Events
    PROVE  /\ Append(w, e) \in Seq(R!Events)
           /\ R!OpenRuns(Append(w, e)) = Effect(e, R!OpenRuns(w))
<1> DEFINE v == Append(w, e)
           n == Len(w)
<1>1. /\ v \in Seq(R!Events) /\ Len(v) = n + 1 /\ n \in Nat /\ v[n + 1] = e
      /\ \A i \in 1..n : v[i] = w[i]
      /\ DOMAIN w = 1..n /\ DOMAIN v = 1..(n + 1)
  BY AppendProperties, LenProperties
<1>2. /\ e.event \in {"open", "close", "dismiss", "note", "torn"} /\ e.run \in Runs
      /\ e = R!Ev(e.event, e.run)
  BY DEF R!Events, R!Ev
<1> HIDE DEF v, n
<1>3. ASSUME NEW r \in Runs
      PROVE  r \in R!OpenRuns(v) <=> r \in Effect(e, R!OpenRuns(w))
  <2> DEFINE Opens(x, i) == x[i] = R!Ev("open", r)
             Ends(x, j) == x[j] \in {R!Ev("close", r), R!Ev("dismiss", r)}
  <2>1. \A i \in 1..n : (Opens(v, i) <=> Opens(w, i)) /\ (Ends(v, i) <=> Ends(w, i))
    BY <1>1
  <2>2. /\ Opens(v, n + 1) <=> e.event = "open" /\ e.run = r
        /\ Ends(v, n + 1) <=> e.event \in {"close", "dismiss"} /\ e.run = r
    BY <1>1, <1>2, EventNames DEF R!Ev
  <2>3. r \in R!OpenRuns(w) <=> \E i \in 1..n : Opens(w, i) /\ \A j \in (i + 1)..n : ~Ends(w, j)
    BY <1>1 DEF R!OpenRuns, n
  <2>4. r \in R!OpenRuns(v) <=>
            \E i \in 1..(n + 1) : Opens(v, i) /\ \A j \in (i + 1)..(n + 1) : ~Ends(v, j)
    BY <1>1 DEF R!OpenRuns
  <2> HIDE DEF Opens, Ends
  <2>5. CASE Ends(v, n + 1)
    <3>1. r \notin R!OpenRuns(v)
      <4>1. \A i \in 1..n : n + 1 \in (i + 1)..(n + 1)
        BY <1>1
      <4>2. ~Opens(v, n + 1)
        BY <2>2, <2>5
      <4> QED
        BY <1>1, <2>4, <2>5, <4>1, <4>2
    <3> QED
      BY <2>2, <2>5, <3>1 DEF Effect
  <2>6. CASE Opens(v, n + 1)
    <3>1. r \in R!OpenRuns(v)
      BY <1>1, <2>4, <2>6
    <3> QED
      BY <2>2, <2>6, <3>1 DEF Effect
  <2>7. CASE ~Ends(v, n + 1) /\ ~Opens(v, n + 1)
    <3>1. r \in R!OpenRuns(v) <=> r \in R!OpenRuns(w)
      <4>1. ASSUME NEW i \in 1..n
            PROVE  (\A j \in (i + 1)..(n + 1) : ~Ends(v, j)) <=> (\A j \in (i + 1)..n : ~Ends(w, j))
        <5>1. \A j \in (i + 1)..(n + 1) : j = n + 1 \/ j \in (i + 1)..n
          BY <1>1
        <5>2. \A j \in (i + 1)..n : j \in 1..n /\ j \in (i + 1)..(n + 1)
          BY <1>1
        <5> QED
          BY <2>1, <2>7, <5>1, <5>2
      <4>2. \A i \in 1..(n + 1) : i \in 1..n \/ i = n + 1
        BY <1>1
      <4>3. \A i \in 1..n : i \in 1..(n + 1)
        BY <1>1
      <4> QED
        BY <2>1, <2>3, <2>4, <2>7, <4>1, <4>2, <4>3
    <3>2. r \in Effect(e, R!OpenRuns(w)) <=> r \in R!OpenRuns(w)
      BY <2>2, <2>7 DEF Effect
    <3> QED
      BY <3>1, <3>2
  <2> QED
    BY <2>5, <2>6, <2>7
<1>4. R!OpenRuns(v) \subseteq Runs /\ Effect(e, R!OpenRuns(w)) \subseteq Runs
  BY <1>2 DEF R!OpenRuns, Effect
<1> QED
  BY <1>1, <1>3, <1>4 DEF v

\* A finite set of naturals, or of things with a natural rank, has a greatest one.
LEMMA GreatestRank ==
    ASSUME NEW S, IsFiniteSet(S), S # {}, NEW rho \in [S -> Nat]
    PROVE  \E m \in S : \A x \in S : rho[x] <= rho[m]
<1> DEFINE Bad == {T \in FiniteSubsetsOf(S) : T # {} /\ ~(\E m \in T : \A x \in T : rho[x] <= rho[m])}
<1>1. FiniteSubsetsOf(S) = SUBSET S
  BY FS_FiniteSubsetsOfFinite
<1>2. CASE Bad = {}
  BY <1>1, <1>2
<1>3. CASE Bad # {}
  <2>1. PICK T \in Bad : \A U \in Bad : <<U, T>> \notin StrictSubsetOrdering(S)
    BY <1>3, FS_StrictSubsetOrderingWellFounded, WFMin
  <2>2. PICK x \in T : TRUE
    BY <2>1
  <2> DEFINE U == T \ {x}
  <2>3. U \in SUBSET S /\ T \in SUBSET S /\ U \subseteq T /\ U # T
    BY <1>1, <2>1, <2>2
  <2>4. <<U, T>> \in StrictSubsetOrdering(S)
    BY <2>3 DEF StrictSubsetOrdering
  <2>5. U = {} \/ \E m \in U : \A y \in U : rho[y] <= rho[m]
    BY <1>1, <2>1, <2>3, <2>4
  <2>6. \A y \in T : y \in S /\ rho[y] \in Nat
    BY <2>3
  <2>7. CASE U = {}
    BY <2>1, <2>2, <2>6, <2>7
  <2>8. CASE U # {}
    <3>1. PICK m \in U : \A y \in U : rho[y] <= rho[m]
      BY <2>5, <2>8
    <3>2. \A y \in T : rho[y] <= rho[IF rho[x] <= rho[m] THEN m ELSE x]
      BY <2>2, <2>3, <2>6, <3>1
    <3> QED
      BY <2>1, <2>2, <3>1, <3>2
  <2> QED
    BY <2>7, <2>8
<1> QED
  BY <1>2, <1>3

\* Distinct ranks put a finite set in order.
LEMMA InOrder ==
    ASSUME NEW S, IsFiniteSet(S), NEW rho \in [S -> Nat],
           \A x, y \in S : rho[x] = rho[y] => x = y
    PROVE  \E s \in [1..Cardinality(S) -> S] :
               \A i, j \in 1..Cardinality(S) : i < j => rho[s[i]] < rho[s[j]]
<1> DEFINE Ordered(T) == \E s \in [1..Cardinality(T) -> T] :
                             \A i, j \in 1..Cardinality(T) : i < j => rho[s[i]] < rho[s[j]]
           Bad == {T \in FiniteSubsetsOf(S) : ~Ordered(T)}
<1>1. FiniteSubsetsOf(S) = SUBSET S
  BY FS_FiniteSubsetsOfFinite
<1>2. CASE Bad = {}
  BY <1>1, <1>2
<1>3. CASE Bad # {}
  <2>1. PICK T \in Bad : \A U \in Bad : <<U, T>> \notin StrictSubsetOrdering(S)
    BY <1>3, FS_StrictSubsetOrderingWellFounded, WFMin
  <2>2. T \in SUBSET S /\ IsFiniteSet(T) /\ ~Ordered(T)
    BY <1>1, <2>1, FS_Subset
  <2>3. CASE T = {}
    <3>1. Cardinality(T) = 0
      BY <2>3, FS_EmptySet
    <3>2. 1..Cardinality(T) = {}
      BY <3>1
    <3>3. [i \in {} |-> i] \in [{} -> T]
      OBVIOUS
    <3>4. Ordered(T)
      BY <3>2, <3>3, Zenon
    <3> QED
      BY <2>2, <3>4
  <2>4. CASE T # {}
    <3>1. [x \in T |-> rho[x]] \in [T -> Nat]
      BY <2>2
    <3>2. PICK m \in T : \A x \in T : rho[x] <= rho[m]
      <4>1. \E m \in T : \A x \in T : [y \in T |-> rho[y]][x] <= [y \in T |-> rho[y]][m]
        BY <2>2, <2>4, <3>1, GreatestRank
      <4> QED
        BY <4>1
    <3> DEFINE U == T \ {m}
    <3>3. U \in SUBSET S /\ U \subseteq T /\ U # T
      BY <2>2, <3>2
    <3>4. <<U, T>> \in StrictSubsetOrdering(S)
      BY <2>2, <3>3 DEF StrictSubsetOrdering
    <3>5. Ordered(U)
      BY <1>1, <2>1, <3>3, <3>4
    <3>6. Cardinality(T) \in Nat /\ Cardinality(U) \in Nat /\ Cardinality(T) = Cardinality(U) + 1
      <4>1. IsFiniteSet(U) /\ Cardinality(U) = Cardinality(T) - 1
        BY <2>2, <3>2, FS_RemoveElement
      <4>2. Cardinality(T) \in Nat /\ Cardinality(U) \in Nat
        BY <2>2, <4>1, FS_CardinalityType
      <4> QED
        BY <4>1, <4>2
    <3> DEFINE n == Cardinality(U)
    <3>7. PICK s \in [1..n -> U] : \A i, j \in 1..n : i < j => rho[s[i]] < rho[s[j]]
      BY <3>5
    <3>8. \A x \in U : rho[x] < rho[m]
      <4>1. \A x \in T : x \in S /\ rho[x] \in Nat
        BY <2>2
      <4> QED
        BY <3>2, <4>1
    <3>9. n \in Nat /\ Cardinality(T) = n + 1
      BY <3>6
    <3> DEFINE t == [i \in 1..(n + 1) |-> IF i = n + 1 THEN m ELSE s[i]]
    <3> HIDE DEF n
    <3>10. \A i \in 1..(n + 1) : i = n + 1 \/ i \in 1..n
      BY <3>9
    <3>11. t \in [1..(n + 1) -> T]
      BY <3>2, <3>3, <3>7, <3>10
    <3>12. \A i, j \in 1..(n + 1) : i < j => rho[t[i]] < rho[t[j]]
      <4>1. \A i, j \in 1..(n + 1) : i < j => i \in 1..n /\ (j = n + 1 \/ j \in 1..n)
        BY <3>9
      <4>2. \A i \in 1..n : t[i] = s[i] /\ s[i] \in U
        BY <3>7, <3>9
      <4>3. t[n + 1] = m
        BY <3>9
      <4> HIDE DEF t
      <4> QED
        BY <3>7, <3>8, <4>1, <4>2, <4>3
    <3>13. Ordered(T)
      BY <3>9, <3>11, <3>12
    <3> QED
      BY <2>2, <3>13
  <2> QED
    BY <2>3, <2>4
<1> QED
  BY <1>2, <1>3

\* A log of finitely many lines shows finitely many runs open.
LEMMA OpenFinite ==
    ASSUME NEW w \in Seq(R!Events)
    PROVE  R!OpenRuns(w) \subseteq Runs /\ IsFiniteSet(R!OpenRuns(w))
<1> DEFINE open == R!OpenRuns(w)
<1>1. open \subseteq Runs /\ IsFiniteSet(open)
  <2>1. Len(w) \in Nat /\ DOMAIN w = 1..Len(w) /\ w \in [1..Len(w) -> R!Events]
    BY LenProperties
  <2> DEFINE T == {w[i].run : i \in 1..Len(w)}
             f == [i \in 1..Len(w) |-> w[i].run]
  <2>2. f \in Surjection(1..Len(w), T)
    BY DEF Surjection
  <2>3. IsFiniteSet(1..Len(w))
    BY <2>1, FS_Interval
  <2>4. IsFiniteSet(T)
    BY <2>2, <2>3, FS_Surjection
  <2>5. open \subseteq T
    BY <2>1 DEF R!OpenRuns, R!Ev
  <2> QED
    BY <2>4, <2>5, FS_Subset DEF R!OpenRuns
<1> QED
  BY <1>1

\* A log written for a set of runs shows these runs open and no others.
LEMMA OpenListed ==
    ASSUME R!JournalAssumption, NEW open \in SUBSET Runs, IsFiniteSet(open)
    PROVE  R!Listed(open) \in Seq(R!Events) /\ R!OpenRuns(R!Listed(open)) = open
<1> DEFINE keep == {R!Ev("open", r) : r \in open}
           n == Cardinality(keep)
           c == R!Listed(open)
<1>1. open \subseteq Runs /\ IsFiniteSet(open)
  OBVIOUS
<1>2. /\ keep \subseteq R!Events
      /\ \A e \in keep : e.run \in open /\ e.run \in Runs /\ e = R!Ev("open", e.run)
      /\ \A r \in open : R!Ev("open", r) \in keep
  BY <1>1 DEF R!Ev, R!Events
<1>3. IsFiniteSet(keep)
  <2> DEFINE g == [r \in open |-> R!Ev("open", r)]
  <2>1. g \in Surjection(open, keep)
    BY DEF Surjection
  <2> QED
    BY <1>1, <2>1, FS_Surjection
<1>4. n \in Nat
  BY <1>3, FS_CardinalityType
<1> DEFINE rho == [e \in keep |-> Rank[e.run]]
<1>5. rho \in [keep -> Nat] /\ \A x, y \in keep : rho[x] = rho[y] => x = y
  <2>1. \A e \in keep : rho[e] = Rank[e.run] /\ Rank[e.run] \in Nat
    BY <1>2 DEF R!JournalAssumption
  <2>2. \A x, y \in keep : Rank[x.run] = Rank[y.run] => x.run = y.run
    BY <1>2 DEF R!JournalAssumption
  <2>3. rho \in [keep -> Nat]
    BY <2>1
  <2> HIDE DEF keep, rho
  <2> QED
    BY <1>2, <2>1, <2>2, <2>3
<1>6. \E s \in [1..n -> keep] : \A i, j \in DOMAIN s : i < j => Rank[s[i].run] < Rank[s[j].run]
  <2>1. PICK s \in [1..n -> keep] : \A i, j \in 1..n : i < j => rho[s[i]] < rho[s[j]]
    <3> HIDE DEF keep, rho
    <3> QED
      BY <1>3, <1>5, InOrder
  <2>2. \A i \in 1..n : s[i] \in keep /\ rho[s[i]] = Rank[s[i].run]
    BY <2>1
  <2> QED
    BY <2>1, <2>2
<1>7. c \in [1..n -> keep] /\ \A i, j \in 1..n : i < j => Rank[c[i].run] < Rank[c[j].run]
  <2>1. c = CHOOSE s \in [1..n -> keep] :
                \A i, j \in DOMAIN s : i < j => Rank[s[i].run] < Rank[s[j].run]
    <3>1. R!Cardinality(keep) = Cardinality(keep)
      BY DEF R!Cardinality, Cardinality
    <3> QED
      BY <3>1, Zenon DEF R!Listed
  <2> HIDE DEF c, n, keep
  <2> QED
    BY <1>6, <2>1
<1>8. \A e \in keep : \E i \in 1..n : c[i] = e
  <2> HIDE DEF c, keep, n
  <2>1. \A i, j \in 1..n : c[i] = c[j] => i = j
    <3>1. \A i \in 1..n : c[i] \in keep /\ Rank[c[i].run] \in Nat
      BY <1>2, <1>7 DEF R!JournalAssumption
    <3>2. \A i, j \in 1..n : i = j \/ i < j \/ j < i
      BY <1>4
    <3> QED
      BY <1>7, <3>1, <3>2
  <2>2. c \in Injection(1..n, keep)
    BY <1>7, <2>1 DEF Injection, IsInjective
  <2>3. Cardinality(1..n) = n
    BY <1>4, FS_Interval
  <2>4. c \in Surjection(1..n, keep)
    BY <1>3, <2>2, <2>3, FS_Injection DEF n
  <2> QED
    BY <2>4 DEF Surjection
<1> HIDE DEF c
<1>9. c \in Seq(R!Events) /\ Len(c) = n /\ DOMAIN c = 1..n
  <2>1. c \in [1..n -> R!Events]
    BY <1>2, <1>7
  <2> HIDE DEF n
  <2> QED
    BY <1>4, <2>1, SeqDef, LenProperties
<1>10. ASSUME NEW r \in Runs
       PROVE  r \in R!OpenRuns(c) <=> r \in open
  <2>1. \A i \in 1..n : c[i] \in keep
    BY <1>7
  <2>2. \A i \in 1..n : c[i] \notin {R!Ev("close", r), R!Ev("dismiss", r)}
    BY <1>2, <2>1, EventNames DEF R!Ev
  <2>3. r \in R!OpenRuns(c) <=>
            \E i \in 1..n : c[i] = R!Ev("open", r) /\
                \A j \in (i + 1)..n : c[j] \notin {R!Ev("close", r), R!Ev("dismiss", r)}
    BY <1>9 DEF R!OpenRuns
  <2>4. \A i \in 1..n : \A j \in (i + 1)..n : j \in 1..n
    BY <1>4
  <2>5. r \in R!OpenRuns(c) <=> \E i \in 1..n : c[i] = R!Ev("open", r)
    BY <2>2, <2>3, <2>4
  <2>6. R!Ev("open", r) \in keep <=> r \in open
    BY <1>2, EventNames
  <2> HIDE DEF keep, n
  <2> QED
    BY <1>8, <2>1, <2>5, <2>6
<1>11. R!OpenRuns(c) \subseteq Runs
  BY DEF R!OpenRuns
<1> QED
  BY <1>1, <1>9, <1>10, <1>11 DEF c

\* Compaction keeps a line for every open run and nothing else.
LEMMA OpenCompact ==
    ASSUME R!JournalAssumption, NEW w \in Seq(R!Events)
    PROVE  R!Compact(w) \in Seq(R!Events) /\ R!OpenRuns(R!Compact(w)) = R!OpenRuns(w)
BY OpenFinite, OpenListed DEF R!Compact

\* An append changes the log as its line says, or not at all, and then the
\* journal remembers that it failed.
LEMMA AppendLockedFacts ==
    ASSUME R!JournalAssumption,
           NEW w \in Seq(R!Events), NEW bad \in BOOLEAN, NEW e \in R!Events, NEW f \in R!AppendFaults,
           NEW k, k = R!AppendLocked([wal |-> w, bad |-> bad], e, f)
    PROVE  /\ k.wal \in Seq(R!Events) /\ k.bad \in BOOLEAN
           /\ bad => k.bad
           /\ R!OpenRuns(k.wal) \in {R!OpenRuns(w), Effect(e, R!OpenRuns(w))}
           /\ ~k.bad => R!OpenRuns(k.wal) = Effect(e, R!OpenRuns(w))
<1> DEFINE v == R!WithRoom(w, e)
           j == [wal |-> w, bad |-> bad]
<1>1. v \in Seq(R!Events) /\ R!OpenRuns(v) = R!OpenRuns(w)
  BY OpenCompact DEF R!WithRoom
<1>2. e.run \in Runs /\ R!Torn(e.run) \in R!Events /\ R!Torn(e.run).event = "torn"
  <2>1. e.run \in Runs
    BY DEF R!Events
  <2> QED
    BY <2>1, EventNames
<1>3. /\ Append(v, e) \in Seq(R!Events)
      /\ R!OpenRuns(Append(v, e)) = Effect(e, R!OpenRuns(w))
  BY <1>1, OpenAppend
<1>4. /\ Append(v, R!Torn(e.run)) \in Seq(R!Events)
      /\ R!OpenRuns(Append(v, R!Torn(e.run))) = R!OpenRuns(w)
  <2>1. R!OpenRuns(Append(v, R!Torn(e.run))) = Effect(R!Torn(e.run), R!OpenRuns(v))
    BY <1>1, <1>2, OpenAppend
  <2>2. Effect(R!Torn(e.run), R!OpenRuns(v)) = R!OpenRuns(v)
    BY <1>2 DEF Effect
  <2> QED
    BY <1>1, <1>2, <2>1, <2>2, OpenAppend
<1> HIDE DEF v
<1>5. j.wal = w /\ j.bad = bad
  OBVIOUS
<1> DEFINE b == bad \/ f # "none"
<1>10. b \in BOOLEAN /\ (bad => b) /\ (f # "none" => b)
  OBVIOUS
<1> HIDE DEF j, b
<1>6. CASE ~R!HasRoom(w, e)
  <2>1. k = [wal |-> v, bad |-> TRUE]
    BY <1>5, <1>6, Zenon DEF R!AppendLocked, v, j, b
  <2>2. k.wal = v /\ k.bad = TRUE
    BY <2>1
  <2> QED
    BY <1>1, <2>2
<1>7. CASE R!HasRoom(w, e) /\ f = "lost"
  <2>1. k = [wal |-> v, bad |-> b]
    BY <1>5, <1>7 DEF R!AppendLocked, v, j, b
  <2>2. k.wal = v /\ k.bad = b
    BY <2>1
  <2> QED
    BY <1>1, <1>7, <1>10, <2>2
<1>8. CASE R!HasRoom(w, e) /\ f = "torn"
  <2>1. k = [wal |-> Append(v, R!Torn(e.run)), bad |-> b]
    BY <1>5, <1>8 DEF R!AppendLocked, v, j, b
  <2>2. k.wal = Append(v, R!Torn(e.run)) /\ k.bad = b
    BY <2>1
  <2> QED
    BY <1>4, <1>8, <1>10, <2>2
<1>9. CASE R!HasRoom(w, e) /\ f \in {"none", "unsynced"}
  <2>1. k = [wal |-> Append(v, e), bad |-> b]
    BY <1>5, <1>9 DEF R!AppendLocked, v, j, b
  <2>2. k.wal = Append(v, e) /\ k.bad = b
    BY <2>1
  <2> QED
    BY <1>3, <1>10, <2>2
<1> QED
  BY <1>6, <1>7, <1>8, <1>9 DEF R!AppendFaults

\* The journal an event of run r leaves: only r may enter or leave it.
Touches(r, kind, w, bad, v, worse) ==
    /\ v \in Seq(R!Events) /\ worse \in BOOLEAN
    /\ bad => worse
    /\ R!OpenRuns(v) \subseteq Runs
    /\ \A q \in Runs \ {r} : q \in R!OpenRuns(v) <=> q \in R!OpenRuns(w)
    /\ kind = "open" => (r \in R!OpenRuns(w) => r \in R!OpenRuns(v)) /\ (~worse => r \in R!OpenRuns(v))
    /\ kind \in {"close", "dismiss"} =>
           (r \notin R!OpenRuns(w) => r \notin R!OpenRuns(v)) /\ (~worse => r \notin R!OpenRuns(v))
    /\ kind = "note" => R!OpenRuns(v) = R!OpenRuns(w)

\* An append of an event of run r touches that run alone.
LEMMA AppendTouches ==
    ASSUME R!JournalAssumption,
           NEW w \in Seq(R!Events), NEW bad \in BOOLEAN, NEW r \in Runs,
           NEW kind \in {"open", "close", "dismiss", "note"}, NEW f \in R!AppendFaults,
           NEW k, k = R!AppendLocked([wal |-> w, bad |-> bad], R!Ev(kind, r), f)
    PROVE  /\ k = [wal |-> k.wal, bad |-> k.bad]
           /\ Touches(r, kind, w, bad, k.wal, k.bad)
<1>1. R!Ev(kind, r) \in R!Events /\ R!Ev(kind, r).event = kind /\ R!Ev(kind, r).run = r
  BY EventNames
<1>2. /\ k.wal \in Seq(R!Events) /\ k.bad \in BOOLEAN
      /\ bad => k.bad
      /\ R!OpenRuns(k.wal) \in {R!OpenRuns(w), Effect(R!Ev(kind, r), R!OpenRuns(w))}
      /\ ~k.bad => R!OpenRuns(k.wal) = Effect(R!Ev(kind, r), R!OpenRuns(w))
  BY <1>1, AppendLockedFacts
<1>3. R!OpenRuns(k.wal) \subseteq Runs
  BY DEF R!OpenRuns
<1>4. k = [wal |-> k.wal, bad |-> k.bad]
  BY DEF R!AppendLocked
<1>5. Effect(R!Ev(kind, r), R!OpenRuns(w)) =
          IF kind = "open" THEN R!OpenRuns(w) \cup {r}
          ELSE IF kind = "note" THEN R!OpenRuns(w) ELSE R!OpenRuns(w) \ {r}
  BY <1>1 DEF Effect
<1>6. Touches(r, kind, w, bad, k.wal, k.bad)
  BY <1>2, <1>3, <1>5 DEF Touches
<1> QED
  BY <1>4, <1>6

\* The part of the invariant that speaks of one run.
RunRests(q) ==
    /\ future[q] \in {"idle", "admitted", "inserted"} => q \notin R!OpenRuns(wal)
    /\ future[q] \in {"prepared", "executing", "failing"} => q \in R!OpenRuns(wal) \cup lost
    /\ future[q] \in {"idle", "admitted"} => row[q] = "none"
    /\ future[q] \in {"inserted", "refusing"} => row[q] \in R!Active \cup {"failed"}
    /\ future[q] \in {"closing", "downgrading", "notifyOk"} => row[q] \notin R!Active
    /\ future[q] \in {"notifyErr", "ended"} /\ row[q] \in R!Active =>
           q \in R!OpenRuns(wal) \cup repair \cup excused \cup lost
    /\ future[q] \in R!Returned /\ row[q] \in {"done", "cancelled"} /\ q \in R!OpenRuns(wal) /\ running =>
           unsure \/ abandoned \/ q \in boot \cup lost
    /\ (q \in guard) <=> (future[q] \in R!Guarded)
    /\ q \in repair => future[q] \in {"notifyErr", "ended"} /\ (q \notin R!OpenRuns(wal) \/ unsure \/ q \in lost)
    /\ future[q] = "downgrading" => unsure
    /\ q \in peer => future[q] \notin {"idle", "admitted", "inserted"}

AloneRuns(q) ==
    Allowed["peer"] = 0 /\ future[q] \in {"inserted", "prepared", "executing"} => row[q] # "failed"

\* The instance counts as finite what this module does.
LEMMA FiniteHere == ASSUME NEW S PROVE R!IsFiniteSet(S) <=> IsFiniteSet(S)
BY DEF R!IsFiniteSet, IsFiniteSet

LEMMA RunByRun ==
    ASSUME peer \subseteq Runs
    PROVE  (R!WalRests /\ R!RowRests /\ R!GuardRests /\ R!PeerRests)
             <=> (IsFiniteSet(peer) /\ \A q \in Runs : RunRests(q))
<1>1. R!PeerRests <=> /\ IsFiniteSet(peer)
                      /\ \A q \in peer : future[q] \notin {"idle", "admitted", "inserted"}
  BY FiniteHere DEF R!PeerRests
<1> QED
  BY <1>1 DEF R!WalRests, R!RowRests, R!GuardRests, RunRests

\* A step that moves run r to place a with row x and touches nothing else but
\* what r owns in the sets the runs share.
MovesRun(r, x, a) ==
    /\ x \in R!Statuses /\ a \in R!PCs
    /\ row' = [row EXCEPT ![r] = x]
    /\ future' = [future EXCEPT ![r] = a]
    /\ wal' \in Seq(R!Events) /\ unsure' \in BOOLEAN /\ (unsure => unsure')
    /\ \A q \in Runs \ {r} : q \in R!OpenRuns(wal') <=> q \in R!OpenRuns(wal)
    /\ guard' \subseteq Runs /\ repair' \subseteq Runs
    /\ \A q \in Runs \ {r} : (q \in guard' <=> q \in guard) /\ (q \in repair' <=> q \in repair)
    /\ running' = running /\ boot' = boot /\ abandoned' = abandoned
    /\ peer' = peer /\ overwrites' = overwrites /\ lost' = lost
    /\ interrupted' \subseteq interrupted
    /\ excused \subseteq excused' /\ excused' \subseteq Runs
    /\ started' \subseteq Runs
    /\ told' \in [Runs -> {"none", "completed", "failed"}]
    /\ spare' \in [R!Faults -> Nat] /\ spare'["peer"] <= spare["peer"]

\* It is enough to look at the run that moves.
LEMMA OneRun ==
    ASSUME R!IndInv, NEW r \in Runs, NEW x, NEW a, MovesRun(r, x, a),
           running, boot = {} \/ a = future[r],
           future[r] = "ended" => a = "ended" /\ x \in {row[r], "failed", "none"},
           RunRests(r)', AloneRuns(r)'
    PROVE  R!IndInv'
<1>1. R!TypeOK'
  BY DEF R!IndInv, R!TypeOK, MovesRun
<1>2. /\ row'[r] = x /\ future'[r] = a
      /\ \A q \in Runs \ {r} : row'[q] = row[q] /\ future'[q] = future[q]
  BY DEF R!IndInv, R!TypeOK, MovesRun
<1>3. \A q \in Runs \ {r} : RunRests(q)'
  <2>1. \A q \in Runs \ {r} : RunRests(q)
    BY RunByRun DEF R!IndInv, R!TypeOK
  <2> QED
    BY <1>2, <2>1 DEF RunRests, MovesRun
<1>4. \A q \in Runs : RunRests(q)'
  BY <1>3
<1>5. R!WalRests' /\ R!RowRests' /\ R!GuardRests'
  BY <1>4 DEF R!WalRests, R!RowRests, R!GuardRests, RunRests
<1>8. R!PeerRests'
  BY <1>1, <1>4 DEF R!IndInv, R!TypeOK, R!PeerRests, RunRests, MovesRun
<1>6. R!StartRests'
  BY <1>2 DEF R!IndInv, R!TypeOK, R!StartRests, R!Idle, MovesRun
<1>7. R!AloneRests'
  <2>1. "peer" \in R!Faults
    BY DEF R!Faults
  <2> QED
    BY <1>2, <2>1 DEF R!IndInv, R!TypeOK, R!AloneRests, AloneRuns, MovesRun
<1> QED
  BY <1>1, <1>5, <1>6, <1>7, <1>8 DEF R!IndInv

\* A run that has a future left runs in a process that is up and reconciled.
LEMMA RunsInProcess ==
    ASSUME R!IndInv, NEW r \in Runs
    PROVE  /\ future[r] \notin {"idle", "ended"} => running /\ boot = {}
           /\ r \in repair => running
           /\ RunRests(r) /\ AloneRuns(r)
           /\ r \in interrupted => future[r] = "ended"
BY RunByRun DEF R!IndInv, R!TypeOK, R!StartRests, R!Idle, R!AloneRests, AloneRuns

\* What spending faults does to the budget.
LEMMA SpendFacts ==
    ASSUME R!TypeOK, NEW S, R!Spend(S)
    PROVE  spare' \in [R!Faults -> Nat] /\ spare'["peer"] <= spare["peer"]
<1>1. "peer" \in R!Faults /\ \A f \in R!Faults : spare[f] \in Nat
  BY DEF R!TypeOK, R!Faults
<1>2. S \cap R!Faults \subseteq {f \in R!Faults : spare[f] > 0}
  BY DEF R!Spend
<1>3. spare' = [f \in R!Faults |-> IF f \in S THEN spare[f] - 1 ELSE spare[f]]
  BY DEF R!Spend
<1>4. \A f \in R!Faults : (IF f \in S THEN spare[f] - 1 ELSE spare[f]) \in Nat
  BY <1>1, <1>2
<1>5. spare'["peer"] <= spare["peer"]
  BY <1>1, <1>3
<1> QED
  BY <1>3, <1>4, <1>5

\* The journal from (w, b) to (v, c) where at most run r is closed.
Closes(r, w, b, v, c) ==
    /\ v \in Seq(R!Events) /\ c \in BOOLEAN /\ (b => c)
    /\ \A q \in Runs \ {r} : q \in R!OpenRuns(v) <=> q \in R!OpenRuns(w)
    /\ r \notin R!OpenRuns(w) => r \notin R!OpenRuns(v)

\* A dropped guard closes its run or leaves a degraded journal.
LEMMA DropFacts ==
    ASSUME R!JournalAssumption, NEW r \in Runs, NEW f \in R!AppendFaults,
           NEW w \in Seq(R!Events), NEW b \in BOOLEAN,
           R!DropGuard(r, [wal |-> w, bad |-> b], f)
    PROVE  /\ Closes(r, w, b, wal', unsure')
           /\ guard' = guard \ {r}
           /\ repair' = (IF r \in guard THEN repair \cup {r} ELSE repair)
           /\ r \in guard => r \notin R!OpenRuns(wal') \/ unsure'
           /\ r \notin guard => wal' = w /\ unsure' = b
<1> DEFINE k == R!AppendLocked([wal |-> w, bad |-> b], R!Ev("close", r), f)
<1>1. Touches(r, "close", w, b, k.wal, k.bad)
  BY AppendTouches
<1>2. CASE r \in guard
  <2>1. wal' = k.wal /\ unsure' = k.bad /\ guard' = guard \ {r} /\ repair' = repair \cup {r}
    BY <1>2 DEF R!DropGuard, R!SetJournal
  <2> HIDE DEF k
  <2> QED
    BY <1>1, <1>2, <2>1 DEF Touches, Closes
<1>3. CASE r \notin guard
  <2>1. wal' = w /\ unsure' = b /\ guard' = guard \ {r} /\ repair' = repair
    BY <1>3 DEF R!DropGuard, R!SetJournal
  <2> QED
    BY <1>3, <2>1 DEF Closes
<1> QED
  BY <1>2, <1>3

\* What the invariant says of the variables, in one fact.
LEMMA JournalTypes ==
    ASSUME R!IndInv
    PROVE  /\ R!TypeOK
           /\ wal \in Seq(R!Events) /\ unsure \in BOOLEAN /\ spare \in [R!Faults -> Nat]
           /\ R!Journal = [wal |-> wal, bad |-> unsure]
           /\ \A q \in Runs : row[q] \in R!Statuses /\ future[q] \in R!PCs
           /\ \A q \in Runs : row = [row EXCEPT ![q] = row[q]] /\ future = [future EXCEPT ![q] = future[q]]
BY DEF R!IndInv, R!TypeOK, R!Journal

\* A step of a future that leaves the journal and the guard alone.
LEMMA QuietSteps ==
    ASSUME R!JournalAssumption, R!IndInv, NEW r \in Runs,
           \/ R!Admit(r) \/ R!ExecutionFails(r) \/ R!Notify(r)
           \/ \E ok \in BOOLEAN : R!InsertRun(r, ok) \/ R!RefuseRun(r, ok)
    PROVE  R!IndInv'
<1> USE DEF R!SetRunStatus, R!Goto, R!proc, R!second, R!PCs, R!Statuses, R!Active, R!Terminal
<1>1. /\ R!TypeOK
      /\ wal \in Seq(R!Events) /\ unsure \in BOOLEAN /\ spare \in [R!Faults -> Nat]
      /\ row[r] \in R!Statuses /\ future[r] \in R!PCs
      /\ row = [row EXCEPT ![r] = row[r]]
  BY JournalTypes
<1>2. /\ future[r] \notin {"idle", "ended"} => running /\ boot = {}
      /\ RunRests(r) /\ AloneRuns(r)
  BY RunsInProcess
<1>3. "peer" \in R!Faults /\ spare["peer"] <= spare["peer"]
  BY <1>1 DEF R!Faults
<1>4. CASE R!Admit(r)
  <2>1. MovesRun(r, row[r], "admitted")
    BY <1>1, <1>3, <1>4 DEF R!Admit, MovesRun, R!TypeOK
  <2>2. RunRests(r)' /\ AloneRuns(r)'
    BY <1>1, <1>2, <1>4 DEF R!Admit, RunRests, AloneRuns, R!TypeOK, R!Guarded, R!Returned
  <2> QED
    BY <1>4, <2>1, <2>2, OneRun DEF R!Admit
<1>5. CASE R!ExecutionFails(r)
  <2>1. MovesRun(r, row[r], "failing")
    BY <1>1, <1>3, <1>5 DEF R!ExecutionFails, MovesRun, R!TypeOK
  <2>2. RunRests(r)' /\ AloneRuns(r)'
    BY <1>1, <1>2, <1>5 DEF R!ExecutionFails, RunRests, AloneRuns, R!TypeOK, R!Guarded, R!Returned
  <2> QED
    BY <1>2, <1>5, <2>1, <2>2, OneRun DEF R!ExecutionFails
<1>6. CASE R!Notify(r)
  <2>1. MovesRun(r, row[r], "ended")
    BY <1>1, <1>3, <1>6 DEF R!Notify, MovesRun, R!TypeOK
  <2>2. RunRests(r)' /\ AloneRuns(r)'
    BY <1>1, <1>2, <1>6 DEF R!Notify, RunRests, AloneRuns, R!TypeOK, R!Guarded, R!Returned
  <2> QED
    BY <1>2, <1>6, <2>1, <2>2, OneRun DEF R!Notify
<1>7. ASSUME NEW ok \in BOOLEAN, R!InsertRun(r, ok)
      PROVE  R!IndInv'
  <2>1. spare' \in [R!Faults -> Nat] /\ spare'["peer"] <= spare["peer"]
    BY <1>1, <1>7, SpendFacts DEF R!InsertRun
  <2> DEFINE x == IF ok THEN IF Kind[r] = "kernel" THEN "pending" ELSE "running" ELSE row[r]
             a == IF ok THEN "inserted" ELSE "ended"
  <2>2. MovesRun(r, x, a)
    BY <1>1, <1>7, <2>1 DEF R!InsertRun, MovesRun, R!TypeOK
  <2>3. RunRests(r)' /\ AloneRuns(r)'
    BY <1>1, <1>2, <1>7 DEF R!InsertRun, RunRests, AloneRuns, R!TypeOK, R!Guarded, R!Returned
  <2> QED
    BY <1>2, <1>7, <2>2, <2>3, OneRun DEF R!InsertRun
<1>8. ASSUME NEW ok \in BOOLEAN, R!RefuseRun(r, ok)
      PROVE  R!IndInv'
  <2>1. spare' \in [R!Faults -> Nat] /\ spare'["peer"] <= spare["peer"]
    BY <1>1, <1>8, SpendFacts DEF R!RefuseRun
  <2> DEFINE x == IF ok THEN "failed" ELSE row[r]
  <2>2. MovesRun(r, x, "ended")
    BY <1>1, <1>8, <2>1 DEF R!RefuseRun, MovesRun, R!TypeOK
  <2>3. RunRests(r)' /\ AloneRuns(r)'
    BY <1>1, <1>2, <1>8 DEF R!RefuseRun, RunRests, AloneRuns, R!TypeOK, R!Guarded, R!Returned
  <2> QED
    BY <1>2, <1>8, <2>2, <2>3, OneRun DEF R!RefuseRun
<1> QED
  BY <1>4, <1>5, <1>6, <1>7, <1>8

\* The operator's steps and the spawned repair move no future.
LEMMA RowSteps ==
    ASSUME R!JournalAssumption, R!IndInv, NEW r \in Runs,
           \/ R!DeleteRun(r) \/ R!Note(r)
           \/ \E ok \in BOOLEAN : R!Repair(r, ok)
           \/ \E f \in R!AppendFaults : R!Dismiss(r, f)
    PROVE  R!IndInv'
<1> USE DEF R!SetRunStatus, R!Goto, R!proc, R!second, R!PCs, R!Statuses, R!Active, R!Terminal
<1>1. /\ R!TypeOK
      /\ wal \in Seq(R!Events) /\ unsure \in BOOLEAN /\ spare \in [R!Faults -> Nat]
      /\ R!Journal = [wal |-> wal, bad |-> unsure]
      /\ row[r] \in R!Statuses /\ future[r] \in R!PCs
      /\ row = [row EXCEPT ![r] = row[r]] /\ future = [future EXCEPT ![r] = future[r]]
  BY JournalTypes
<1>2. /\ future[r] \notin {"idle", "ended"} => running /\ boot = {}
      /\ r \in repair => running
      /\ RunRests(r) /\ AloneRuns(r)
      /\ r \in interrupted => future[r] = "ended"
  BY RunsInProcess
<1>3. CASE R!DeleteRun(r)
  <2>1. spare' \in [R!Faults -> Nat] /\ spare'["peer"] <= spare["peer"]
    BY <1>1, <1>3, SpendFacts DEF R!DeleteRun
  <2>2. MovesRun(r, "none", future[r])
    BY <1>1, <1>3, <2>1 DEF R!DeleteRun, MovesRun, R!TypeOK
  <2>3. RunRests(r)' /\ AloneRuns(r)'
    BY <1>1, <1>2, <1>3 DEF R!DeleteRun, R!Idle, RunRests, AloneRuns, R!TypeOK, R!Guarded, R!Returned
  <2> QED
    BY <1>2, <1>3, <2>2, <2>3, OneRun DEF R!DeleteRun
<1>4. CASE R!Note(r)
  <2> DEFINE k == R!AppendLocked([wal |-> wal, bad |-> unsure], R!Ev("note", r), "none")
  <2>1. spare' \in [R!Faults -> Nat] /\ spare'["peer"] <= spare["peer"]
    BY <1>1, <1>4, SpendFacts DEF R!Note
  <2>2. Touches(r, "note", wal, unsure, k.wal, k.bad)
    <3>1. "none" \in R!AppendFaults
      BY DEF R!AppendFaults
    <3> QED
      BY <1>1, <3>1, AppendTouches
  <2>3. wal' = k.wal /\ unsure' = k.bad
    BY <1>1, <1>4 DEF R!Note, R!SetJournal
  <2> HIDE DEF k
  <2>4. MovesRun(r, row[r], future[r])
    BY <1>1, <1>4, <2>1, <2>2, <2>3 DEF R!Note, MovesRun, R!TypeOK, Touches
  <2>5. RunRests(r)' /\ AloneRuns(r)'
    BY <1>1, <1>2, <1>4, <2>2, <2>3 DEF R!Note, RunRests, AloneRuns, R!TypeOK, R!Guarded, R!Returned, Touches
  <2> QED
    BY <1>2, <1>4, <2>4, <2>5, OneRun DEF R!Note
<1>5. ASSUME NEW ok \in BOOLEAN, R!Repair(r, ok)
      PROVE  R!IndInv'
  <2>1. spare' \in [R!Faults -> Nat] /\ spare'["peer"] <= spare["peer"]
    BY <1>1, <1>5, SpendFacts DEF R!Repair
  <2> DEFINE x == IF ok /\ row[r] # "none" THEN "failed" ELSE row[r]
  <2>2. MovesRun(r, x, future[r])
    BY <1>1, <1>5, <2>1 DEF R!Repair, MovesRun, R!TypeOK
  <2>3. RunRests(r)' /\ AloneRuns(r)'
    BY <1>1, <1>2, <1>5 DEF R!Repair, RunRests, AloneRuns, R!TypeOK, R!Guarded, R!Returned
  <2> QED
    BY <1>2, <1>5, <2>2, <2>3, OneRun DEF R!Repair
<1>6. ASSUME NEW f \in R!AppendFaults, R!Dismiss(r, f)
      PROVE  R!IndInv'
  <2> DEFINE k == R!AppendLocked([wal |-> wal, bad |-> unsure], R!Ev("dismiss", r), f)
  <2>1. spare' \in [R!Faults -> Nat] /\ spare'["peer"] <= spare["peer"]
    BY <1>1, <1>6, SpendFacts DEF R!Dismiss
  <2>2. Touches(r, "dismiss", wal, unsure, k.wal, k.bad)
    BY <1>1, AppendTouches
  <2>3. wal' = k.wal /\ unsure' = k.bad
    BY <1>1, <1>6 DEF R!Dismiss, R!SetJournal
  <2>4. interrupted' \subseteq interrupted
    BY <1>6 DEF R!Dismiss
  <2>5. /\ running /\ boot = {} /\ r \in interrupted /\ ~unsure
        /\ excused' = IF row[r] \in R!Active THEN excused \cup {r} ELSE excused
        /\ UNCHANGED << row, running, boot, abandoned, future, guard, repair, started, told, peer,
                        overwrites, lost >>
    BY <1>6 DEF R!Dismiss
  <2> HIDE DEF k
  <2>6. MovesRun(r, row[r], future[r])
    BY <1>1, <2>1, <2>2, <2>3, <2>4, <2>5 DEF MovesRun, R!TypeOK, Touches
  <2>7. RunRests(r)' /\ AloneRuns(r)'
    BY <1>1, <1>2, <2>2, <2>3, <2>5 DEF RunRests, AloneRuns, R!Guarded, R!Returned, Touches
  <2> QED
    BY <1>2, <2>5, <2>6, <2>7, OneRun
<1> QED
  BY <1>3, <1>4, <1>5, <1>6

\* The steps through which a future leaves its guard, and those that reach it.
LEMMA GuardedSteps ==
    ASSUME R!JournalAssumption, R!IndInv, NEW r \in Runs,
           \/ \E ok \in BOOLEAN : R!Downgrade(r, ok)
           \/ \E f \in R!AppendFaults : R!OpenRun(r, f) \/ R!EarlyReturn(r, f) \/ R!Abort(r, f)
           \/ \E ok \in BOOLEAN, f \in R!AppendFaults :
                R!Prepare(r, ok, f) \/ R!CloseRun(r, ok, f) \/ R!FailRun(r, ok, f)
           \/ \E s \in R!Terminal, ok \in BOOLEAN, f \in R!AppendFaults : R!Settle(r, s, ok, f)
    PROVE  R!IndInv'
<1> USE DEF R!SetRunStatus, R!Goto, R!proc, R!second, R!PCs, R!Statuses, R!Active, R!Terminal
<1>1. /\ R!TypeOK
      /\ wal \in Seq(R!Events) /\ unsure \in BOOLEAN /\ spare \in [R!Faults -> Nat]
      /\ R!Journal = [wal |-> wal, bad |-> unsure]
      /\ row[r] \in R!Statuses /\ future[r] \in R!PCs
      /\ row = [row EXCEPT ![r] = row[r]] /\ future = [future EXCEPT ![r] = future[r]]
  BY JournalTypes
<1>2. /\ future[r] \notin {"idle", "ended"} => running /\ boot = {}
      /\ RunRests(r) /\ AloneRuns(r)
  BY RunsInProcess
<1>3. "none" \in R!AppendFaults
  BY DEF R!AppendFaults
<1>4. R!ErrReturn(r) \in {"notifyErr", "ended"}
  BY DEF R!ErrReturn
<1>5. ASSUME NEW ok \in BOOLEAN, R!Downgrade(r, ok)
      PROVE  R!IndInv'
  <2>1. spare' \in [R!Faults -> Nat] /\ spare'["peer"] <= spare["peer"]
    BY <1>1, <1>5, SpendFacts DEF R!Downgrade
  <2> DEFINE x == IF ok THEN "failed" ELSE row[r]
  <2>2. wal' = wal /\ unsure' = unsure /\ guard' = guard \ {r} /\ repair' = repair
    BY <1>1, <1>5 DEF R!Downgrade, R!Disarm, R!SetJournal
  <2>3. MovesRun(r, x, "notifyErr")
    BY <1>1, <1>5, <2>1, <2>2 DEF R!Downgrade, MovesRun, R!TypeOK
  <2>4. RunRests(r)' /\ AloneRuns(r)'
    BY <1>1, <1>2, <1>5, <2>2 DEF R!Downgrade, RunRests, AloneRuns, R!TypeOK, R!Guarded, R!Returned
  <2> QED
    BY <1>2, <1>5, <2>3, <2>4, OneRun DEF R!Downgrade
<1>6. ASSUME NEW f \in R!AppendFaults, R!OpenRun(r, f)
      PROVE  R!IndInv'
  <2> DEFINE j == R!AppendLocked([wal |-> wal, bad |-> unsure], R!Ev("open", r), f)
             k == R!AppendLocked(j, R!Ev("close", r), "none")
             exits == j.bad /\ Kind[r] = "kernel"
             a == IF ~j.bad THEN "prepared" ELSE IF exits THEN "ended" ELSE "refusing"
  <2>1. spare' \in [R!Faults -> Nat] /\ spare'["peer"] <= spare["peer"]
    BY <1>1, <1>6, SpendFacts DEF R!OpenRun
  <2>2. Touches(r, "open", wal, unsure, j.wal, j.bad) /\ j = [wal |-> j.wal, bad |-> j.bad]
    BY <1>1, AppendTouches
  <2>3. Touches(r, "close", j.wal, j.bad, k.wal, k.bad)
    <3>1. j.wal \in Seq(R!Events) /\ j.bad \in BOOLEAN
      BY <2>2 DEF Touches
    <3> HIDE DEF j
    <3> QED
      BY <1>3, <2>2, <3>1, AppendTouches
  <2>4. /\ wal' = IF exits THEN k.wal ELSE j.wal
        /\ unsure' = IF exits THEN k.bad ELSE j.bad
        /\ future[r] = "inserted"
        /\ repair' = IF exits THEN repair \cup {r} ELSE repair
        /\ guard' = IF j.bad THEN guard ELSE guard \cup {r}
        /\ future' = [future EXCEPT ![r] = a]
        /\ UNCHANGED << row, started, told, excused, running, interrupted, boot, abandoned, peer, overwrites, lost >>
    BY <1>1, <1>6 DEF R!OpenRun, R!SetJournal
  <2> HIDE DEF j, k
  <2>5. MovesRun(r, row[r], a)
    BY <1>1, <2>1, <2>2, <2>3, <2>4 DEF MovesRun, R!TypeOK, Touches
  <2>6. RunRests(r)' /\ AloneRuns(r)'
    BY <1>1, <1>2, <2>2, <2>3, <2>4 DEF RunRests, AloneRuns, R!TypeOK, R!Guarded, R!Returned, Touches
  <2> QED
    BY <1>2, <2>4, <2>5, <2>6, OneRun
<1>7. ASSUME NEW f \in R!AppendFaults, R!EarlyReturn(r, f)
      PROVE  R!IndInv'
  <2>1. spare' \in [R!Faults -> Nat] /\ spare'["peer"] <= spare["peer"]
    BY <1>1, <1>7, SpendFacts DEF R!EarlyReturn
  <2>2. /\ Closes(r, wal, unsure, wal', unsure')
        /\ guard' = guard \ {r}
        /\ repair' = (IF r \in guard THEN repair \cup {r} ELSE repair)
        /\ r \in guard => r \notin R!OpenRuns(wal') \/ unsure'
    BY <1>1, <1>7, DropFacts DEF R!EarlyReturn
  <2>3. MovesRun(r, row[r], R!ErrReturn(r))
    BY <1>1, <1>4, <1>7, <2>1, <2>2 DEF R!EarlyReturn, MovesRun, R!TypeOK, Closes
  <2>4. RunRests(r)' /\ AloneRuns(r)'
    BY <1>1, <1>2, <1>4, <1>7, <2>2 DEF R!EarlyReturn, RunRests, AloneRuns, R!TypeOK, R!Guarded, R!Returned, Closes
  <2> QED
    BY <1>2, <1>7, <2>3, <2>4, OneRun DEF R!EarlyReturn
<1>8. ASSUME NEW f \in R!AppendFaults, R!Abort(r, f)
      PROVE  R!IndInv'
  <2>1. spare' \in [R!Faults -> Nat] /\ spare'["peer"] <= spare["peer"]
    BY <1>1, <1>8, SpendFacts DEF R!Abort
  <2>2. /\ Closes(r, wal, unsure, wal', unsure')
        /\ guard' = guard \ {r}
        /\ repair' = (IF r \in guard THEN repair \cup {r} ELSE repair)
        /\ r \in guard => r \notin R!OpenRuns(wal') \/ unsure'
        /\ r \notin guard => wal' = wal /\ unsure' = unsure
    BY <1>1, <1>8, DropFacts DEF R!Abort
  <2>3. MovesRun(r, row[r], "ended")
    BY <1>1, <1>8, <2>1, <2>2 DEF R!Abort, MovesRun, R!TypeOK, Closes
  <2>4. RunRests(r)' /\ AloneRuns(r)'
    BY <1>1, <1>2, <1>8, <2>2 DEF R!Abort, RunRests, AloneRuns, R!TypeOK, R!Guarded, R!Returned, Closes
  <2> QED
    BY <1>2, <1>8, <2>3, <2>4, OneRun DEF R!Abort
<1>9. ASSUME NEW ok \in BOOLEAN, NEW f \in R!AppendFaults, R!Prepare(r, ok, f)
      PROVE  R!IndInv'
  <2>1. spare' \in [R!Faults -> Nat] /\ spare'["peer"] <= spare["peer"]
    BY <1>1, <1>9, SpendFacts DEF R!Prepare
  <2>2. /\ future[r] = "prepared"
        /\ started' = IF ok THEN started \cup {r} ELSE started
        /\ UNCHANGED << told, excused, running, interrupted, boot, abandoned, peer, overwrites, lost >>
    BY <1>9 DEF R!Prepare
  <2>3. CASE ~ok /\ Kind[r] = "kernel"
    <3>1. /\ Closes(r, wal, unsure, wal', unsure')
          /\ guard' = guard \ {r}
          /\ repair' = (IF r \in guard THEN repair \cup {r} ELSE repair)
          /\ r \in guard => r \notin R!OpenRuns(wal') \/ unsure'
      BY <1>1, <1>9, <2>3, DropFacts DEF R!Prepare
    <3>2. row' = row /\ future' = [future EXCEPT ![r] = "ended"]
      BY <1>9, <2>3 DEF R!Prepare
    <3>3. MovesRun(r, row[r], "ended")
      BY <1>1, <2>1, <2>2, <3>1, <3>2 DEF MovesRun, R!TypeOK, Closes
    <3>4. RunRests(r)' /\ AloneRuns(r)'
      BY <1>1, <1>2, <2>2, <3>1, <3>2 DEF RunRests, AloneRuns, R!TypeOK, R!Guarded, R!Returned, Closes
    <3> QED
      BY <1>2, <2>2, <3>3, <3>4, OneRun
  <2>4. CASE ~(~ok /\ Kind[r] = "kernel")
    <3> DEFINE x == IF ok /\ Kind[r] = "kernel" THEN "running" ELSE row[r]
               a == IF ok THEN "executing" ELSE "failing"
    <3>1. /\ row' = [row EXCEPT ![r] = x] /\ future' = [future EXCEPT ![r] = a]
          /\ UNCHANGED << wal, unsure, guard, repair >>
      BY <1>1, <1>9, <2>4 DEF R!Prepare
    <3>2. MovesRun(r, x, a)
      BY <1>1, <2>1, <2>2, <3>1 DEF MovesRun, R!TypeOK
    <3>3. RunRests(r)' /\ AloneRuns(r)'
      BY <1>1, <1>2, <2>2, <3>1 DEF RunRests, AloneRuns, R!TypeOK, R!Guarded, R!Returned
    <3> QED
      BY <1>2, <2>2, <3>2, <3>3, OneRun
  <2> QED
    BY <2>3, <2>4
<1>10. ASSUME NEW ok \in BOOLEAN, NEW f \in R!AppendFaults, R!FailRun(r, ok, f)
       PROVE  R!IndInv'
  <2> DEFINE closes == ok /\ Kind[r] # "smoke"
             m == R!AppendLocked([wal |-> wal, bad |-> unsure], R!Ev("close", r), f)
             j == IF closes THEN m ELSE [wal |-> wal, bad |-> unsure]
             g == IF closes THEN "none" ELSE f
             x == IF ok THEN "failed" ELSE row[r]
  <2>1. spare' \in [R!Faults -> Nat] /\ spare'["peer"] <= spare["peer"]
    BY <1>1, <1>10, SpendFacts DEF R!FailRun
  <2>2. Touches(r, "close", wal, unsure, m.wal, m.bad) /\ m = [wal |-> m.wal, bad |-> m.bad]
    BY <1>1, AppendTouches
  <2>3. /\ future[r] = "failing" /\ row' = [row EXCEPT ![r] = x]
        /\ future' = [future EXCEPT ![r] = R!ErrReturn(r)]
        /\ UNCHANGED << started, told, excused, running, interrupted, boot, abandoned, peer, overwrites, lost >>
        /\ IF closes /\ Kind[r] = "kernel" /\ ~j.bad THEN R!Disarm(r, j) ELSE R!DropGuard(r, j, g)
    BY <1>1, <1>10 DEF R!FailRun
  <2> HIDE DEF m
  <2>4. Closes(r, wal, unsure, j.wal, j.bad) /\ j = [wal |-> j.wal, bad |-> j.bad]
    BY <1>1, <2>2 DEF Closes, Touches
  <2>5. g \in R!AppendFaults
    BY <1>3
  <2> HIDE DEF g
  <2>6. CASE closes /\ Kind[r] = "kernel" /\ ~j.bad
    <3>1. /\ wal' = j.wal /\ unsure' = j.bad /\ guard' = guard \ {r} /\ repair' = repair
          /\ r \notin R!OpenRuns(wal')
      BY <2>2, <2>3, <2>6 DEF R!Disarm, R!SetJournal, Touches
    <3> HIDE DEF j
    <3>2. MovesRun(r, x, R!ErrReturn(r))
      BY <1>1, <1>4, <2>1, <2>3, <2>4, <3>1 DEF MovesRun, R!TypeOK, Closes
    <3>3. RunRests(r)' /\ AloneRuns(r)'
      BY <1>1, <1>2, <1>4, <2>3, <2>4, <2>6, <3>1 DEF RunRests, AloneRuns, R!TypeOK, R!Guarded, R!Returned, Closes
    <3> QED
      BY <1>2, <2>3, <3>2, <3>3, OneRun
  <2>7. CASE ~(closes /\ Kind[r] = "kernel" /\ ~j.bad)
    <3>1. R!DropGuard(r, j, g)
      BY <2>3, <2>7
    <3> HIDE DEF j
    <3>2. /\ Closes(r, j.wal, j.bad, wal', unsure')
          /\ guard' = guard \ {r}
          /\ repair' = (IF r \in guard THEN repair \cup {r} ELSE repair)
          /\ r \in guard => r \notin R!OpenRuns(wal') \/ unsure'
      <4>1. j.wal \in Seq(R!Events) /\ j.bad \in BOOLEAN
        BY <2>4 DEF Closes
      <4> QED
        BY <2>4, <2>5, <3>1, <4>1, DropFacts
    <3>3. MovesRun(r, x, R!ErrReturn(r))
      BY <1>1, <1>4, <2>1, <2>3, <2>4, <3>2 DEF MovesRun, R!TypeOK, Closes
    <3>4. RunRests(r)' /\ AloneRuns(r)'
      BY <1>1, <1>2, <1>4, <2>3, <2>4, <3>2 DEF RunRests, AloneRuns, R!TypeOK, R!Guarded, R!Returned, Closes
    <3> QED
      BY <1>2, <2>3, <3>3, <3>4, OneRun
  <2> QED
    BY <2>6, <2>7
<1>11. ASSUME NEW ok \in BOOLEAN, NEW f \in R!AppendFaults, R!CloseRun(r, ok, f)
       PROVE  R!IndInv'
  <2> DEFINE j == R!AppendLocked([wal |-> wal, bad |-> unsure], R!Ev("close", r), f)
  <2>1. spare' \in [R!Faults -> Nat] /\ spare'["peer"] <= spare["peer"]
    BY <1>1, <1>11, SpendFacts DEF R!CloseRun
  <2>2. Touches(r, "close", wal, unsure, j.wal, j.bad) /\ j = [wal |-> j.wal, bad |-> j.bad]
    BY <1>1, AppendTouches
  <2>3. Kind[r] \in {"campaign", "smoke", "kernel"}
    BY DEF R!JournalAssumption
  <2>4. /\ future[r] = "closing" /\ (ok \/ Kind[r] = "smoke")
        /\ UNCHANGED << row, started, told, excused, running, interrupted, boot, abandoned, peer, overwrites, lost >>
    BY <1>11 DEF R!CloseRun
  <2>5. \/ ~ok /\ R!DropGuard(r, [wal |-> wal, bad |-> unsure], f) /\ R!Goto(r, "ended")
        \/ /\ R!Disarm(r, j) /\ (Kind[r] = "smoke" \/ ~j.bad)
           /\ R!Goto(r, IF Kind[r] = "campaign" THEN "notifyOk" ELSE "ended")
        \/ /\ R!SetJournal(j) /\ j.bad /\ R!Goto(r, "downgrading") /\ guard' = guard /\ repair' = repair
        \/ R!DropGuard(r, j, "none") /\ R!Goto(r, "ended")
    <3>1. j = R!AppendLocked(R!Journal, R!Ev("close", r), f)
      BY <1>1
    <3> HIDE DEF j
    <3> QED
      BY <1>1, <1>11, <2>3, <3>1, Zenon DEF R!CloseRun
  <2> HIDE DEF j
  <2>6. Closes(r, wal, unsure, j.wal, j.bad) /\ j.wal \in Seq(R!Events) /\ j.bad \in BOOLEAN
    BY <2>2 DEF Closes, Touches
  <2>7. CASE R!Disarm(r, j) /\ (Kind[r] = "smoke" \/ ~j.bad)
             /\ R!Goto(r, IF Kind[r] = "campaign" THEN "notifyOk" ELSE "ended")
    <3> DEFINE a == IF Kind[r] = "campaign" THEN "notifyOk" ELSE "ended"
    <3>1. /\ wal' = j.wal /\ unsure' = j.bad /\ guard' = guard \ {r} /\ repair' = repair
          /\ future' = [future EXCEPT ![r] = a]
      BY <2>7 DEF R!Disarm, R!SetJournal
    <3>2. ~unsure' => r \notin R!OpenRuns(wal')
      BY <2>2, <3>1 DEF Touches
    <3>3. MovesRun(r, row[r], a)
      BY <1>1, <2>1, <2>4, <2>6, <3>1 DEF MovesRun, R!TypeOK, Closes
    <3>4. RunRests(r)' /\ AloneRuns(r)'
      BY <1>1, <1>2, <2>4, <2>6, <3>1, <3>2 DEF RunRests, AloneRuns, R!TypeOK, R!Guarded, R!Returned, Closes
    <3> QED
      BY <1>2, <2>4, <3>3, <3>4, OneRun
  <2>8. CASE R!SetJournal(j) /\ j.bad /\ R!Goto(r, "downgrading") /\ guard' = guard /\ repair' = repair
    <3>1. /\ wal' = j.wal /\ unsure' = j.bad /\ unsure' /\ guard' = guard /\ repair' = repair
          /\ future' = [future EXCEPT ![r] = "downgrading"]
      BY <2>8 DEF R!SetJournal
    <3>2. MovesRun(r, row[r], "downgrading")
      BY <1>1, <2>1, <2>4, <2>6, <3>1 DEF MovesRun, R!TypeOK, Closes
    <3>3. RunRests(r)' /\ AloneRuns(r)'
      BY <1>1, <1>2, <2>4, <2>6, <3>1 DEF RunRests, AloneRuns, R!TypeOK, R!Guarded, R!Returned, Closes
    <3> QED
      BY <1>2, <2>4, <3>2, <3>3, OneRun
  <2>9. ASSUME NEW w \in Seq(R!Events), NEW b \in BOOLEAN, NEW g \in R!AppendFaults,
               Closes(r, wal, unsure, w, b), R!DropGuard(r, [wal |-> w, bad |-> b], g), R!Goto(r, "ended")
        PROVE  R!IndInv'
    <3>1. /\ Closes(r, w, b, wal', unsure')
          /\ guard' = guard \ {r}
          /\ repair' = (IF r \in guard THEN repair \cup {r} ELSE repair)
          /\ r \in guard => r \notin R!OpenRuns(wal') \/ unsure'
      BY <2>9, DropFacts
    <3>2. future' = [future EXCEPT ![r] = "ended"]
      BY <2>9
    <3>3. MovesRun(r, row[r], "ended")
      BY <1>1, <2>1, <2>4, <2>9, <3>1, <3>2 DEF MovesRun, R!TypeOK, Closes
    <3>4. RunRests(r)' /\ AloneRuns(r)'
      BY <1>1, <1>2, <2>4, <2>9, <3>1, <3>2 DEF RunRests, AloneRuns, R!TypeOK, R!Guarded, R!Returned, Closes
    <3> QED
      BY <1>2, <2>4, <3>3, <3>4, OneRun
  <2>10. Closes(r, wal, unsure, wal, unsure)
    BY <1>1 DEF Closes
  <2> QED
    BY <1>1, <1>3, <2>2, <2>5, <2>6, <2>7, <2>8, <2>9, <2>10
<1>12. ASSUME NEW s \in R!Terminal, NEW ok \in BOOLEAN, NEW f \in R!AppendFaults, R!Settle(r, s, ok, f)
       PROVE  R!IndInv'
  <2>1. spare' \in [R!Faults -> Nat] /\ spare'["peer"] <= spare["peer"]
    BY <1>1, <1>12, SpendFacts DEF R!Settle
  <2>2. /\ future[r] = "executing"
        /\ UNCHANGED << started, told, excused, running, interrupted, boot, abandoned, peer, overwrites, lost >>
    BY <1>12 DEF R!Settle
  <2>3. CASE ok
    <3>1. /\ row' = [row EXCEPT ![r] = s] /\ future' = [future EXCEPT ![r] = "closing"]
          /\ UNCHANGED << wal, unsure, guard, repair >>
      BY <1>12, <2>3 DEF R!Settle
    <3>2. MovesRun(r, s, "closing")
      BY <1>1, <2>1, <2>2, <3>1 DEF MovesRun, R!TypeOK
    <3>3. RunRests(r)' /\ AloneRuns(r)'
      BY <1>1, <1>2, <2>2, <3>1 DEF RunRests, AloneRuns, R!TypeOK, R!Guarded, R!Returned
    <3> QED
      BY <1>2, <2>2, <3>2, <3>3, OneRun
  <2>4. CASE ~ok
    <3>1. /\ Closes(r, wal, unsure, wal', unsure')
          /\ guard' = guard \ {r}
          /\ repair' = (IF r \in guard THEN repair \cup {r} ELSE repair)
          /\ r \in guard => r \notin R!OpenRuns(wal') \/ unsure'
      BY <1>1, <1>12, <2>4, DropFacts DEF R!Settle
    <3>2. row' = row /\ future' = [future EXCEPT ![r] = R!ErrReturn(r)]
      BY <1>12, <2>4 DEF R!Settle
    <3>3. MovesRun(r, row[r], R!ErrReturn(r))
      BY <1>1, <1>4, <2>1, <2>2, <3>1, <3>2 DEF MovesRun, R!TypeOK, Closes
    <3>4. RunRests(r)' /\ AloneRuns(r)'
      BY <1>1, <1>2, <1>4, <2>2, <3>1, <3>2 DEF RunRests, AloneRuns, R!TypeOK, R!Guarded, R!Returned, Closes
    <3> QED
      BY <1>2, <2>2, <3>3, <3>4, OneRun
  <2> QED
    BY <2>3, <2>4
<1> QED
  BY <1>5, <1>6, <1>7, <1>8, <1>9, <1>10, <1>11, <1>12

\* Process loss, startup, reconciliation and the second process.
LEMMA ProcessSteps ==
    ASSUME R!JournalAssumption, R!IndInv,
           \/ R!Crash \/ R!ClearAllRuns \/ R!PeerStart \/ R!PeerReconcile
           \/ \E ok \in BOOLEAN : R!Restart(ok) \/ R!Reconcile(ok) \/ R!PeerCompact(ok)
    PROVE  R!IndInv'
<1> USE DEF R!second, R!PCs, R!Statuses, R!Active, R!Terminal
<1>1. /\ R!TypeOK
      /\ wal \in Seq(R!Events) /\ unsure \in BOOLEAN /\ spare \in [R!Faults -> Nat]
      /\ \A q \in Runs : row[q] \in R!Statuses /\ future[q] \in R!PCs
  BY JournalTypes
<1>2. \A q \in Runs :
        /\ future[q] \notin {"idle", "ended"} => running /\ boot = {}
        /\ q \in repair => running
        /\ RunRests(q) /\ AloneRuns(q)
        /\ q \in interrupted => future[q] = "ended"
  BY RunsInProcess
<1>3. R!StartRests /\ R!AloneRests /\ IsFiniteSet(peer)
  BY FiniteHere DEF R!IndInv, R!PeerRests
<1>4. \A w : R!OpenRuns(w) \subseteq Runs
  BY DEF R!OpenRuns
<1>5. ASSUME R!TypeOK', \A q \in Runs : RunRests(q)', IsFiniteSet(peer'), R!StartRests', R!AloneRests'
      PROVE  R!IndInv'
  <2>1. R!PeerRests'
    <3>1. R!IsFiniteSet(peer)'
      BY <1>5 DEF R!IsFiniteSet, IsFiniteSet
    <3> QED
      BY <1>5, <3>1 DEF R!TypeOK, R!PeerRests, RunRests
  <2> QED
    BY <1>5, <2>1 DEF R!IndInv, R!WalRests, R!RowRests, R!GuardRests, RunRests
<1>6. "peer" \in R!Faults
  BY DEF R!Faults
<1>7. CASE R!Crash
  <2>1. spare' \in [R!Faults -> Nat] /\ spare'["peer"] <= spare["peer"]
    BY <1>1, <1>7, SpendFacts DEF R!Crash
  <2>2. wal' \in Seq(R!Events) /\ R!OpenRuns(wal') = R!OpenRuns(wal)
    <3>1. CASE wal' = wal
      BY <1>1, <3>1
    <3>2. ASSUME NEW q \in Runs, wal' = Append(wal, R!Torn(q))
          PROVE  wal' \in Seq(R!Events) /\ R!OpenRuns(wal') = R!OpenRuns(wal)
      <4>1. R!Torn(q) \in R!Events /\ R!Torn(q).event = "torn"
        BY EventNames
      <4>2. Effect(R!Torn(q), R!OpenRuns(wal)) = R!OpenRuns(wal)
        BY <4>1 DEF Effect
      <4> QED
        BY <1>1, <3>2, <4>1, <4>2, OpenAppend
    <3> QED
      BY <1>7, <3>1, <3>2 DEF R!Crash
  <2>3. /\ running' = FALSE /\ unsure' = FALSE /\ interrupted' = {} /\ boot' = {} /\ abandoned' = FALSE
        /\ future' = [q \in Runs |-> IF future[q] = "idle" THEN "idle" ELSE "ended"]
        /\ guard' = {} /\ repair' = {}
        /\ excused' = excused \cup repair \cup {q \in Runs : future[q] \in {"inserted", "refusing"}}
        /\ UNCHANGED << row, started, told, peer, overwrites, lost >>
    BY <1>7 DEF R!Crash
  <2>4. R!TypeOK'
    BY <1>1, <2>1, <2>2, <2>3 DEF R!TypeOK
  <2>5. \A q \in Runs : RunRests(q)'
    BY <1>1, <1>2, <2>2, <2>3 DEF RunRests, R!Guarded, R!Returned
  <2>6. R!StartRests'
    BY <2>3 DEF R!StartRests, R!Idle
  <2>7. R!AloneRests'
    BY <1>1, <1>3, <1>6, <2>1, <2>3 DEF R!AloneRests
  <2> QED
    BY <1>3, <1>5, <2>3, <2>4, <2>5, <2>6, <2>7
<1>8. CASE R!ClearAllRuns
  <2>1. spare' \in [R!Faults -> Nat] /\ spare'["peer"] <= spare["peer"]
    BY <1>1, <1>8, SpendFacts DEF R!ClearAllRuns
  <2>2. /\ row' = [q \in Runs |-> "none"]
        /\ \A q \in Runs : row[q] \in R!Terminal \cup {"none"} /\ (row[q] # "none" => R!Idle(q))
        /\ UNCHANGED << wal, running, unsure, interrupted, boot, abandoned, future, guard, repair,
                        started, told, peer, overwrites, lost, excused >>
    BY <1>8 DEF R!ClearAllRuns
  <2>3. R!TypeOK'
    BY <1>1, <2>1, <2>2 DEF R!TypeOK
  <2>4. \A q \in Runs : RunRests(q)'
    BY <1>1, <1>2, <2>2 DEF RunRests, R!Idle, R!Guarded, R!Returned
  <2>5. R!StartRests'
    BY <1>1, <1>3, <2>2 DEF R!StartRests, R!Idle, R!TypeOK
  <2>6. R!AloneRests'
    BY <1>1, <1>3, <1>6, <2>1, <2>2 DEF R!AloneRests
  <2> QED
    BY <1>3, <1>5, <2>2, <2>3, <2>4, <2>5, <2>6
<1>9. CASE R!PeerStart
  <2>1. spare' \in [R!Faults -> Nat] /\ spare["peer"] > 0
    <3>1. R!Spend({"peer"})
      BY <1>9 DEF R!PeerStart
    <3> QED
      BY <1>1, <3>1, SpendFacts DEF R!Spend
  <2>2. /\ peer' = R!OpenRuns(wal) /\ overwrites' = R!Replayable(wal)
        /\ UNCHANGED << row, wal, running, unsure, interrupted, boot, abandoned, future, guard,
                        repair, started, told, lost, excused >>
    BY <1>9 DEF R!PeerStart
  <2>3. peer' \subseteq Runs /\ IsFiniteSet(peer') /\ overwrites' \in BOOLEAN
    BY <1>1, <2>2, OpenFinite DEF R!Replayable
  <2>4. R!TypeOK'
    BY <1>1, <2>1, <2>2, <2>3 DEF R!TypeOK
  <2>5. \A q \in Runs : RunRests(q)'
    BY <1>1, <1>2, <2>2 DEF RunRests
  <2>6. R!StartRests'
    BY <1>3, <2>2 DEF R!StartRests, R!Idle
  <2>7. R!AloneRests'
    BY <1>1, <1>3, <1>6, <2>1 DEF R!AloneRests
  <2> QED
    BY <1>5, <2>3, <2>4, <2>5, <2>6, <2>7
<1>10. CASE R!PeerReconcile
  <2> DEFINE r == R!First(peer)
  <2>1. /\ peer # {}
        /\ peer' \subseteq peer
        /\ row' \in {row, [row EXCEPT ![r] = "failed"]} /\ (row[r] = "none" => row' = row)
        /\ UNCHANGED << wal, running, unsure, interrupted, boot, abandoned, future, guard, repair,
                        started, told, overwrites, lost, excused, spare >>
    BY <1>10 DEF R!PeerReconcile
  <2> HIDE DEF r
  <2>2. \A q \in Runs : row'[q] = row[q] \/ (row'[q] = "failed" /\ row[q] # "none")
    BY <1>1, <2>1 DEF R!TypeOK
  <2>3. R!TypeOK'
    BY <1>1, <2>1 DEF R!TypeOK
  <2>4. \A q \in Runs : RunRests(q)'
    BY <1>1, <1>2, <2>1, <2>2 DEF RunRests
  <2>5. R!StartRests'
    BY <1>1, <1>3, <2>1, <2>2 DEF R!StartRests, R!Idle, R!TypeOK
  <2>6. R!AloneRests'
    BY <1>3, <2>1 DEF R!AloneRests
  <2>7. IsFiniteSet(peer')
    BY <1>3, <2>1, FS_Subset
  <2> QED
    BY <1>5, <2>3, <2>4, <2>5, <2>6, <2>7
<1>11. ASSUME NEW ok \in BOOLEAN, R!Restart(ok)
       PROVE  R!IndInv'
  <2>1. spare' \in [R!Faults -> Nat] /\ spare'["peer"] <= spare["peer"]
    BY <1>1, <1>11, SpendFacts DEF R!Restart
  <2>2. wal' \in Seq(R!Events) /\ R!OpenRuns(wal') = R!OpenRuns(wal) /\ unsure' \in BOOLEAN
    BY <1>1, <1>11, OpenCompact DEF R!Restart
  <2>3. /\ ~running /\ running' = TRUE /\ abandoned' = FALSE
        /\ interrupted' = R!OpenRuns(wal) /\ boot' = R!OpenRuns(wal)
        /\ UNCHANGED << row, future, guard, repair, started, told, peer, overwrites, lost, excused >>
    BY <1>11 DEF R!Restart
  <2>4. repair = {} /\ \A q \in Runs : future[q] \in {"idle", "ended"}
    BY <1>3, <2>3 DEF R!StartRests, R!Idle
  <2>5. R!TypeOK'
    BY <1>1, <1>4, <2>1, <2>2, <2>3 DEF R!TypeOK
  <2>6. \A q \in Runs : RunRests(q)'
    BY <1>1, <1>2, <2>2, <2>3, <2>4 DEF RunRests, R!Guarded, R!Returned
  <2>7. R!StartRests'
    <3>1. \A q \in interrupted' : future'[q] = "ended"
      BY <1>2, <1>4, <2>3, <2>4 DEF RunRests
    <3> QED
      BY <2>3, <2>4, <3>1 DEF R!StartRests, R!Idle
  <2>8. R!AloneRests'
    BY <1>1, <1>3, <1>6, <2>1, <2>3 DEF R!AloneRests
  <2> QED
    BY <1>3, <1>5, <2>3, <2>5, <2>6, <2>7, <2>8
<1>12. ASSUME NEW ok \in BOOLEAN, R!Reconcile(ok)
       PROVE  R!IndInv'
  <2> DEFINE r == R!First(boot)
  <2>1. spare' \in [R!Faults -> Nat] /\ spare'["peer"] <= spare["peer"]
    BY <1>1, <1>12, SpendFacts DEF R!Reconcile
  <2>2. /\ running /\ boot # {}
        /\ \/ boot' = {} /\ abandoned' = TRUE /\ row' = row
           \/ /\ row[r] # "none"
              /\ boot' = boot \ {r} /\ abandoned' = abandoned /\ row' = [row EXCEPT ![r] = "failed"]
        /\ UNCHANGED << wal, running, unsure, interrupted, future, guard, repair,
                        started, told, peer, overwrites, lost, excused >>
    BY <1>12 DEF R!Reconcile
  <2> HIDE DEF r
  <2>3. \A q \in Runs : row'[q] = row[q] \/ (row'[q] = "failed" /\ row[q] # "none")
    BY <1>1, <2>2 DEF R!TypeOK
  <2>4. \A q \in boot \ boot' : abandoned' \/ row'[q] = "failed"
    BY <1>1, <2>2 DEF R!TypeOK
  <2>5. /\ boot' \subseteq boot /\ abandoned' \in BOOLEAN /\ (abandoned => abandoned')
        /\ row' \in [Runs -> R!Statuses]
    <3>1. boot' \subseteq boot /\ row' \in [Runs -> R!Statuses]
      BY <1>1, <2>2 DEF R!TypeOK
    <3>2. abandoned \in BOOLEAN
      BY <1>1 DEF R!TypeOK
    <3>3. abandoned' = TRUE \/ abandoned' = abandoned
      BY <2>2
    <3> QED
      BY <3>1, <3>2, <3>3
  <2>6. R!TypeOK'
    BY <1>1, <2>1, <2>2, <2>5 DEF R!TypeOK
  <2>7. \A q \in Runs : future[q] \in {"idle", "ended"}
    BY <1>3, <2>2 DEF R!StartRests, R!Idle
  <2>8. \A q \in Runs : RunRests(q)'
    BY <1>1, <1>2, <2>2, <2>3, <2>4, <2>5, <2>7 DEF RunRests, R!Guarded, R!Returned
  <2>9. R!StartRests'
    BY <1>1, <1>3, <2>2, <2>3, <2>4, <2>5, <2>7 DEF R!StartRests, R!Idle, R!TypeOK
  <2>10. R!AloneRests'
    BY <1>1, <1>3, <1>6, <2>1, <2>2, <2>7 DEF R!AloneRests
  <2> QED
    BY <1>3, <1>5, <2>2, <2>6, <2>8, <2>9, <2>10
<1>13. ASSUME NEW ok \in BOOLEAN, R!PeerCompact(ok)
       PROVE  R!IndInv'
  <2>1. spare' \in [R!Faults -> Nat] /\ spare'["peer"] <= spare["peer"]
    BY <1>1, <1>13, SpendFacts DEF R!PeerCompact
  <2>2. /\ overwrites /\ overwrites' = FALSE
        /\ UNCHANGED << row, running, unsure, interrupted, boot, abandoned, future, guard, repair,
                        started, told, peer, excused >>
    BY <1>13 DEF R!PeerCompact
  <2>3. wal' \in Seq(R!Events)
    <3>1. peer \in SUBSET Runs
      BY <1>1 DEF R!TypeOK
    <3> QED
      BY <1>1, <1>3, <1>13, <3>1, OpenListed DEF R!PeerCompact
  <2>4. /\ lost' \subseteq Runs /\ lost \subseteq lost'
        /\ \A q \in Runs : (q \in R!OpenRuns(wal') <=> q \in R!OpenRuns(wal)) \/ q \in lost'
        /\ \A q \in Runs : q \in R!OpenRuns(wal') => q \in R!OpenRuns(wal) \/ q \in peer
    <3>1. CASE ok
      <4>1. R!OpenRuns(wal') = peer
        <5>1. peer \in SUBSET Runs /\ wal' = R!Listed(peer)
          BY <1>1, <1>13, <3>1 DEF R!TypeOK, R!PeerCompact
        <5> QED
          BY <1>3, <5>1, OpenListed
      <4>2. lost' = lost \cup {q \in Runs : (q \in R!OpenRuns(wal)) # (q \in peer)}
        BY <1>13, <3>1 DEF R!PeerCompact
      <4> QED
        BY <1>1, <4>1, <4>2 DEF R!TypeOK
    <3>2. CASE ~ok
      <4>1. wal' = wal /\ lost' = lost
        BY <1>13, <3>2 DEF R!PeerCompact
      <4> QED
        BY <1>1, <4>1 DEF R!TypeOK
    <3> QED
      BY <3>1, <3>2
  <2>5. R!TypeOK'
    BY <1>1, <2>1, <2>2, <2>3, <2>4 DEF R!TypeOK
  <2>6. \A q \in Runs : RunRests(q)'
    BY <1>1, <1>2, <2>2, <2>4 DEF RunRests
  <2>7. R!StartRests'
    BY <1>3, <2>2 DEF R!StartRests, R!Idle
  <2>8. R!AloneRests'
    BY <1>3, <2>2 DEF R!AloneRests
  <2> QED
    BY <1>3, <1>5, <2>2, <2>5, <2>6, <2>7, <2>8
<1> QED
  BY <1>7, <1>8, <1>9, <1>10, <1>11, <1>12, <1>13

\* Nothing has run in a fresh installation.
LEMMA JournalStarts ==
    ASSUME R!JournalAssumption, R!Init
    PROVE  R!IndInv
<1>1. wal = <<>> /\ R!OpenRuns(wal) = {}
  BY DEF R!Init, R!OpenRuns
<1>2. R!TypeOK
  <2>1. <<>> \in Seq(R!Events)
    BY EmptySeq
  <2>2. row \in [Runs -> R!Statuses] /\ future \in [Runs -> R!PCs] /\ told \in [Runs -> {"none", "completed", "failed"}]
    BY DEF R!Init, R!Statuses, R!PCs
  <2>3. spare \in [R!Faults -> Nat]
    BY DEF R!Init, R!JournalAssumption
  <2> QED
    BY <1>1, <2>1, <2>2, <2>3 DEF R!Init, R!TypeOK
<1>3. R!WalRests /\ R!RowRests /\ R!GuardRests /\ R!PeerRests
  BY <1>1, FS_EmptySet, FiniteHere
  DEF R!Init, R!PeerRests, R!WalRests, R!RowRests, R!GuardRests, R!Guarded, R!Returned, R!Active
<1>4. R!StartRests /\ R!AloneRests
  BY DEF R!Init, R!StartRests, R!AloneRests, R!Idle
<1> QED
  BY <1>2, <1>3, <1>4 DEF R!IndInv

\* Every step keeps the invariant.
LEMMA JournalSteps ==
    ASSUME R!JournalAssumption, R!IndInv, [R!Next]_(R!vars)
    PROVE  R!IndInv'
<1>1. CASE UNCHANGED R!vars
  BY <1>1 DEF R!vars, R!IndInv, R!TypeOK, R!WalRests, R!RowRests, R!GuardRests, R!StartRests,
              R!PeerRests, R!second, R!AloneRests, R!OpenRuns, R!Idle
<1>2. ASSUME NEW r \in Runs, R!Step(r)
      PROVE  R!IndInv'
  BY <1>2, QuietSteps, GuardedSteps DEF R!Step
<1>3. ASSUME NEW r \in Runs,
             \/ R!Note(r) \/ R!DeleteRun(r)
             \/ \E f \in R!AppendFaults : R!Abort(r, f) \/ R!Dismiss(r, f)
             \/ \E ok \in BOOLEAN : R!Repair(r, ok)
      PROVE  R!IndInv'
  BY <1>3, RowSteps, GuardedSteps
<1>4. CASE \/ R!Crash \/ R!ClearAllRuns \/ R!PeerStart \/ R!PeerReconcile
           \/ \E ok \in BOOLEAN : R!Restart(ok) \/ R!Reconcile(ok) \/ R!PeerCompact(ok)
  BY <1>4, ProcessSteps
<1> QED
  BY <1>1, <1>2, <1>3, <1>4 DEF R!Next

\* The invariant says what the row, the journal and the future of a run promise.
LEMMA JournalPromises ==
    ASSUME R!JournalAssumption, R!IndInv
    PROVE  R!RunsHold
<1>1. R!TypeOK
  BY DEF R!IndInv
<1>2. R!LaunchedIsJournaled
  BY DEF R!IndInv, R!WalRests, R!LaunchedIsJournaled
<1>3. R!UnconfirmedIsBlocked /\ R!StuckRowsAreExplained
  BY DEF R!IndInv, R!RowRests, R!UnconfirmedIsBlocked, R!StuckRowsAreExplained, R!Returned
<1>4. R!ReconciledAtStartup
  BY DEF R!IndInv, R!StartRests, R!ReconciledAtStartup
<1>5. Allowed["peer"] = 0 => R!LiveRunsAreNotFailed /\ lost = {}
  BY DEF R!IndInv, R!AloneRests, R!LiveRunsAreNotFailed
<1> QED
  BY <1>1, <1>2, <1>3, <1>4, <1>5 DEF R!RunsHold

\* For every set of runs, every mix of the three paths and every number of faults:
\* a sandbox is launched only for a run the journal on disk shows open; a finished
\* run the journal still shows open blocks the next campaign; a row nobody owns
\* that still claims to run is found by the next startup, is about to be repaired
\* or lost its evidence in a known way; startup fails every interrupted run.  Only
\* the runs whose lines a second process replaced with what it had read before are
\* excepted; without one there are none, and a run that executes is not recorded
\* as failed.
THEOREM RunsAlwaysExplained ==
    ASSUME R!JournalAssumption
    PROVE  R!Spec => []R!RunsHold
<1>1. R!Init => R!IndInv
  BY JournalStarts
<1>2. R!IndInv /\ [R!Next]_(R!vars) => R!IndInv'
  BY JournalSteps
<1>3. R!IndInv => R!RunsHold
  BY JournalPromises
<1> QED
  BY <1>1, <1>2, <1>3, PTL DEF R!Spec

\* Without a second process a failed run stays failed until its row is deleted:
\* the future that owns it, a spawned repair and the reconciliation at startup
\* never give it another status.
LEMMA FailedRowsStay ==
    ASSUME R!JournalAssumption, Allowed["peer"] = 0, R!IndInv, R!Next
    PROVE  R!FailedStays
<1> SUFFICES ASSUME NEW q \in Runs, row[q] = "failed"
             PROVE  row'[q] \in {"failed", "none"}
  BY DEF R!FailedStays
<1> USE DEF R!SetRunStatus, R!Active, R!Terminal
<1>1. row \in [Runs -> R!Statuses]
  BY DEF R!IndInv, R!TypeOK
<1>2. /\ future[q] \notin {"idle", "admitted", "inserted", "prepared", "executing"}
  BY DEF R!IndInv, R!RowRests, R!AloneRests
<1>3. ASSUME NEW r \in Runs, R!Step(r)
      PROVE  row'[q] \in {"failed", "none"}
  <2>1. CASE \/ R!Admit(r) \/ R!ExecutionFails(r) \/ R!Notify(r)
             \/ \E f \in R!AppendFaults : R!OpenRun(r, f) \/ R!EarlyReturn(r, f)
    BY <2>1 DEF R!Admit, R!ExecutionFails, R!Notify, R!OpenRun, R!EarlyReturn
  <2>2. ASSUME NEW ok \in BOOLEAN, R!InsertRun(r, ok)
        PROVE  row'[q] \in {"failed", "none"}
    BY <1>1, <1>2, <2>2 DEF R!InsertRun
  <2>3. ASSUME NEW ok \in BOOLEAN, R!RefuseRun(r, ok) \/ R!Downgrade(r, ok)
        PROVE  row'[q] \in {"failed", "none"}
    BY <1>1, <2>3 DEF R!RefuseRun, R!Downgrade
  <2>4. ASSUME NEW ok \in BOOLEAN, NEW f \in R!AppendFaults, R!Prepare(r, ok, f)
        PROVE  row'[q] \in {"failed", "none"}
    BY <1>1, <1>2, <2>4 DEF R!Prepare
  <2>5. ASSUME NEW ok \in BOOLEAN, NEW f \in R!AppendFaults, R!CloseRun(r, ok, f) \/ R!FailRun(r, ok, f)
        PROVE  row'[q] \in {"failed", "none"}
    BY <1>1, <2>5 DEF R!CloseRun, R!FailRun
  <2>6. ASSUME NEW s \in R!Terminal, NEW ok \in BOOLEAN, NEW f \in R!AppendFaults, R!Settle(r, s, ok, f)
        PROVE  row'[q] \in {"failed", "none"}
    BY <1>1, <1>2, <2>6 DEF R!Settle
  <2> QED
    BY <1>3, <2>1, <2>2, <2>3, <2>4, <2>5, <2>6 DEF R!Step
<1>4. ASSUME NEW r \in Runs, NEW ok \in BOOLEAN, R!Repair(r, ok)
      PROVE  row'[q] \in {"failed", "none"}
  BY <1>1, <1>4 DEF R!Repair
<1>5. ASSUME NEW r \in Runs,
             R!Note(r) \/ \E f \in R!AppendFaults : R!Abort(r, f) \/ R!Dismiss(r, f)
      PROVE  row'[q] \in {"failed", "none"}
  BY <1>5 DEF R!Note, R!Abort, R!Dismiss
<1>6. ASSUME NEW r \in Runs, R!DeleteRun(r)
      PROVE  row'[q] \in {"failed", "none"}
  BY <1>1, <1>6 DEF R!DeleteRun
<1>7. ASSUME NEW ok \in BOOLEAN, R!Restart(ok) \/ R!Reconcile(ok)
      PROVE  row'[q] \in {"failed", "none"}
  BY <1>1, <1>7 DEF R!Restart, R!Reconcile
<1>8. CASE R!Crash \/ R!PeerStart
  BY <1>8 DEF R!Crash, R!PeerStart
<1>10. ASSUME NEW ok \in BOOLEAN, R!PeerCompact(ok)
       PROVE  row'[q] \in {"failed", "none"}
  BY <1>10 DEF R!PeerCompact
<1>9. CASE R!ClearAllRuns \/ R!PeerReconcile
  BY <1>1, <1>9 DEF R!ClearAllRuns, R!PeerReconcile
<1> QED
  BY <1>3, <1>4, <1>5, <1>6, <1>7, <1>8, <1>9, <1>10 DEF R!Next

\* The same, as an action property of the specification: without a second process
\* neither a late future, nor a spawned repair, nor a reconciliation turns a failed
\* run into anything else.
THEOREM FailedRunsStay ==
    ASSUME R!JournalAssumption, Allowed["peer"] = 0
    PROVE  R!Spec => [][R!FailedStays]_(R!vars)
<1>1. R!Init => R!IndInv
  BY JournalStarts
<1>2. R!IndInv /\ [R!Next]_(R!vars) => R!IndInv'
  BY JournalSteps
<1>3. R!IndInv /\ [R!Next]_(R!vars) => [R!FailedStays]_(R!vars)
  BY FailedRowsStay
<1> QED
  BY <1>1, <1>2, <1>3, PTL DEF R!Spec
===============================================================================
