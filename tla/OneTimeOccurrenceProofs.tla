---------------------- MODULE OneTimeOccurrenceProofs ----------------------
(***************************************************************************)
(* Proofs about OneTimeOccurrence, for any set of processes, any lease     *)
(* length and any bounds: type correctness, the inductive invariant        *)
(* IndInv, the safety properties it implies, the finality of outcomes and  *)
(* the refinement of DispatchOnce.                                         *)
(***************************************************************************)
EXTENDS OneTimeOccurrence, TLAPS

Rows == ReceiptType \cup {NoReceipt}

\* Two rows that differ at most in the lease of an unfinished receipt.
SameClaim(a, b) ==
    /\ a = NoReceipt <=> b = NoReceipt
    /\ a # NoReceipt => /\ a.state = b.state
                        /\ a.owner = b.owner
                        /\ a.state \notin Live => a = b

\* Renewing or releasing a lease (renew_schedule_occurrence_lease and
\* release_schedule_occurrence_lease) leaves the rest of the row alone.
LEMMA LeaseOnly ==
    ASSUME TypeOK, NEW p \in Processes, NEW row \in Rows, NEW o
    PROVE  /\ Released(p, row, o) \in Rows /\ SameClaim(row, Released(p, row, o))
           /\ Renewed(p, row, o) \in Rows /\ SameClaim(row, Renewed(p, row, o))
BY NoReceiptAssumption, OccurrenceAssumption
   DEF TypeOK, Released, Renewed, Receipt, Rows, ReceiptType, SameClaim, Nonterminal

\* A transition (transition_schedule_occurrence) moves both rows of p's own
\* receipt out of the expected state, or neither.
LEMMA TransitionMoves ==
    ASSUME TypeOK, NEW p \in Processes, NEW from, NEW to \in Terminal \cup {"running"}, NEW o
    PROVE  /\ TransitionReceipt(p, from, to, o) \in Rows
           /\ \/ /\ TransitionReceipt(p, from, to, o) = receipt
                 /\ TransitionExecution(p, from, to, o) = execution
                 /\ ~(o = "ok" /\ Accepts(p, from))
              \/ /\ Owns(p) /\ receipt.state = from
                 /\ TransitionReceipt(p, from, to, o) # NoReceipt
                 /\ TransitionReceipt(p, from, to, o).state = to
                 /\ TransitionReceipt(p, from, to, o).owner = receipt.owner
                 /\ TransitionExecution(p, from, to, o) = to
<1>1. CASE Effective(o) /\ Accepts(p, from)
  <2>1. receipt \in ReceiptType
    BY <1>1 DEF TypeOK, Accepts, Owns
  <2>2. Moved(to) \in ReceiptType /\ Moved(to).state = to /\ Moved(to).owner = receipt.owner
    BY <2>1, OccurrenceAssumption DEF TypeOK, Moved, Receipt, ReceiptType, Live, Terminal, NoLease
  <2>3. QED
    BY <1>1, <2>2, NoReceiptAssumption
       DEF TransitionReceipt, TransitionExecution, Accepts, Rows
<1>2. CASE ~(Effective(o) /\ Accepts(p, from))
  BY <1>2 DEF TransitionReceipt, TransitionExecution, TypeOK, Rows, Effective
<1>3. QED
  BY <1>1, <1>2

\* The initial state is well typed.
LEMMA InitType == Init => TypeOK
<1> SUFFICES ASSUME Init PROVE TypeOK
  OBVIOUS
<1>1. /\ cursorFile \in BOOLEAN
      /\ cursor \in [Processes -> BOOLEAN]
      /\ healthy \in [Processes -> BOOLEAN]
  BY ZenonT(20) DEF Init
<1>2. QED
  BY <1>1 DEF Init, TypeOK, Tracked, Modes, Admissions, NoExecution

\* Triggers and admission keep the types.
LEMMA AdmitType ==
    ASSUME TypeOK, NEW p \in Processes, Admit(p) PROVE TypeOK'
<1>1. CASE Fire(p)
  BY <1>1 DEF TypeOK, Fire, journal, flags, admitting, dispatching, acking
<1>2. CASE Suppress(p)
  BY <1>2 DEF TypeOK, Suppress, Take, journal, flags, dispatching, acking
<1>3. ASSUME NEW history \in BOOLEAN, Unavailable(p, history) PROVE TypeOK'
  BY <1>3 DEF TypeOK, Unavailable, Take, Mark, journal, dispatching, acking
<1>4. ASSUME NEW written \in BOOLEAN, Refuse(p, written) PROVE TypeOK'
  BY <1>4 DEF TypeOK, Refuse, Take, AdvanceCursor, journal, dispatching, acking
<1>5. CASE Propose(p)
  <2>1. Receipt("reserved", Owner(p), clock + LeaseLength) \in ReceiptType
    BY OccurrenceAssumption DEF TypeOK, Receipt, Owner, Owners, ReceiptType, Live
  <2>2. QED
    BY <1>5, <2>1 DEF TypeOK, Propose, Take, Admissions, journal, flags, dispatching, acking
<1>6. ASSUME NEW o \in Outcomes, Reserve(p, o) PROVE TypeOK'
  BY <1>6 DEF TypeOK, Reserve, Mark, Admissions, journal, dispatching, acking
<1>7. ASSUME NEW written \in BOOLEAN, AdmitExisting(p, written) PROVE TypeOK'
  BY <1>7 DEF TypeOK, AdmitExisting, Mark, AdvanceCursor, EndAdmission, Admissions, journal,
     dispatching, acking
<1>8. ASSUME NEW found \in BOOLEAN, NEW written \in BOOLEAN, NEW r \in Outcomes,
             AdmitUnknown(p, found, written, r)
      PROVE  TypeOK'
  <2>1. Released(p, receipt, r) \in Rows
    BY LeaseOnly DEF TypeOK, Rows
  <2>2. QED
    BY <1>8, <2>1 DEF TypeOK, AdmitUnknown, Mark, AdvanceCursor, EndAdmission, Admissions,
       dispatching, acking, Rows
<1>9. ASSUME NEW written \in BOOLEAN, NEW r \in Outcomes, AdmitReserved(p, written, r)
      PROVE  TypeOK'
  <2>1. Released(p, receipt, r) \in Rows
    BY LeaseOnly DEF TypeOK, Rows
  <2>2. QED
    BY <1>9, <2>1 DEF TypeOK, AdmitReserved, Mark, AdvanceCursor, EndAdmission, Admissions,
       Tracked, acking, Rows
<1>10. QED
  BY <1>1, <1>2, <1>3, <1>4, <1>5, <1>6, <1>7, <1>8, <1>9 DEF Admit

\* The dispatch task keeps the types.
LEMMA RunType ==
    ASSUME TypeOK, NEW p \in Processes, Run(p) PROVE TypeOK'
<1>1. ASSUME NEW o \in Outcomes, Renew(p, o) PROVE TypeOK'
  <2>1. Renewed(p, receipt, o) \in Rows
    BY LeaseOnly DEF TypeOK, Rows
  <2>2. QED
    BY <1>1, <2>1 DEF TypeOK, Renew, Rows, flags, admitting, dispatching, acking
<1>2. ASSUME NEW o \in Outcomes, NEW r \in Outcomes, LoseLeaseWaiting(p, o, r) PROVE TypeOK'
  <2>1. Renewed(p, receipt, o) \in Rows
    BY LeaseOnly DEF TypeOK, Rows
  <2>2. Released(p, Renewed(p, receipt, o), r) \in Rows
    BY <2>1, LeaseOnly
  <2>3. QED
    BY <1>2, <2>2 DEF TypeOK, LoseLeaseWaiting, Mark, EndTask, Rows, admitting, acking
<1>3. ASSUME NEW o \in Outcomes, LoseLeaseDispatching(p, o) PROVE TypeOK'
  <2>1. Renewed(p, receipt, o) \in Rows
    BY LeaseOnly DEF TypeOK, Rows
  <2>2. QED
    BY <1>3, <2>1 DEF TypeOK, LoseLeaseDispatching, Mark, Rows, admitting, acking
<1>4. ASSUME NEW o \in Outcomes, NEW r \in Outcomes, Begin(p, o, r) PROVE TypeOK'
  <2> DEFINE moved == TransitionReceipt(p, "reserved", "running", o)
  <2>1. moved \in Rows
    BY TransitionMoves
  <2>2. Released(p, moved, r) \in Rows
    BY <2>1, LeaseOnly
  <2>3. TransitionExecution(p, "reserved", "running", o) \in {execution, "running"}
    BY DEF TransitionExecution
  <2> HIDE DEF moved
  <2>4. QED
    BY <1>4, <2>1, <2>2, <2>3
       DEF TypeOK, Begin, Mark, EndTask, Tracked, Rows, admitting, acking, moved
<1>5. CASE Dispatch(p)
  BY <1>5 DEF TypeOK, Dispatch, Tracked, journal, flags, admitting, acking
<1>6. ASSUME NEW r \in Outcomes, DispatchSkipped(p, r) PROVE TypeOK'
  <2>1. Released(p, receipt, r) \in Rows
    BY LeaseOnly DEF TypeOK, Rows
  <2>2. QED
    BY <1>6, <2>1 DEF TypeOK, DispatchSkipped, Mark, EndTask, Rows, admitting, acking
<1>7. ASSUME NEW result \in {"completed", "failed"}, DispatchReturns(p, result) PROVE TypeOK'
  BY <1>7 DEF TypeOK, DispatchReturns, EndTask, Tracked, journal, flags, admitting, acking
<1>8. ASSUME NEW o \in Outcomes, RecordOutcome(p, o) PROVE TypeOK'
  <2>1. task[p] \in Terminal
    BY <1>8 DEF RecordOutcome, Terminal
  <2>2. TransitionReceipt(p, "running", task[p], o) \in Rows
    BY <2>1, TransitionMoves
  <2>3. TransitionExecution(p, "running", task[p], o) \in {execution} \cup Terminal
    BY <2>1 DEF TransitionExecution
  <2>4. QED
    BY <1>8, <2>2, <2>3 DEF TypeOK, RecordOutcome, Mark, EndTask, Rows, admitting, acking
<1>9. QED
  BY <1>1, <1>2, <1>3, <1>4, <1>5, <1>6, <1>7, <1>8 DEF Run

\* Stopping and dying keep the types.
LEMMA HaltType ==
    ASSUME TypeOK, NEW p \in Processes, Halt(p) PROVE TypeOK'
<1>1. ASSUME NEW inFlight \in BOOLEAN, StopLoops(p, inFlight) PROVE TypeOK'
  BY <1>1 DEF TypeOK, StopLoops, Modes, Admissions, journal, flags, dispatching, acking
<1>2. ASSUME NEW r \in Outcomes, StopAdmissions(p, r) PROVE TypeOK'
  <2>1. Released(p, receipt, r) \in Rows
    BY LeaseOnly DEF TypeOK, Rows
  <2>2. QED
    BY <1>2, <2>1 DEF TypeOK, StopAdmissions, EndAdmission, Mark, Modes, Admissions, Rows,
       dispatching, acking
<1>3. ASSUME NEW inFlight \in BOOLEAN, StopTasks(p, inFlight) PROVE TypeOK'
  <2>1. /\ receipt' \in Rows
        /\ execution' \in {execution, "running"} \cup Terminal
    <3>1. CASE inFlight
      <4> DEFINE from == IF task[p] = "waiting" THEN "reserved" ELSE "running"
                 to == IF task[p] = "waiting" THEN "running" ELSE task[p]
      <4>1. /\ to \in Terminal \cup {"running"}
            /\ receipt' = TransitionReceipt(p, from, to, "ok")
            /\ execution' = TransitionExecution(p, from, to, "ok")
        BY <1>3, <3>1 DEF StopTasks, Terminal
      <4> HIDE DEF from, to
      <4>2. QED
        BY <4>1, TransitionMoves DEF TransitionExecution
    <3>2. CASE ~inFlight
      BY <1>3, <3>2 DEF StopTasks, journal, TypeOK, Rows
    <3>3. QED
      BY <3>1, <3>2
  <2>2. QED
    BY <1>3, <2>1 DEF TypeOK, StopTasks, Modes, Tracked, Rows, flags, admitting, acking
<1>4. ASSUME NEW o \in Outcomes, NEW r \in Outcomes, StopCancels(p, o, r) PROVE TypeOK'
  <2>1. /\ receipt' \in Rows
        /\ execution' \in {execution} \cup Terminal
    <3>1. PICK from : \/ UNCHANGED journal
                      \/ /\ execution' = TransitionExecution(p, from, "cancelled", o)
                         /\ receipt' \in {TransitionReceipt(p, from, "cancelled", o),
                               Released(p, TransitionReceipt(p, from, "cancelled", o), r)}
      BY <1>4 DEF StopCancels
    <3>2. "cancelled" \in Terminal
      BY DEF Terminal
    <3>3. QED
      BY <3>1, <3>2, TransitionMoves, LeaseOnly DEF TransitionExecution, journal, TypeOK, Rows
  <2>2. QED
    BY <1>4, <2>1 DEF TypeOK, StopCancels, EndTask, Mark, Modes, Rows, journal, admitting, acking
<1>5. CASE Exit(p)
  BY <1>5 DEF TypeOK, Exit, EndAdmission, EndTask, Modes, Admissions, journal
<1>6. QED
  BY <1>1, <1>2, <1>3, <1>4, <1>5 DEF Halt

\* Starting, listing and acknowledging keep the types.
LEMMA ServeType ==
    ASSUME TypeOK, NEW p \in Processes, Serve(p) PROVE TypeOK'
<1>1. ASSUME NEW readable \in BOOLEAN, NEW written \in BOOLEAN, Start(p, readable, written)
      PROVE  TypeOK'
  <2>1. status' \in [Processes -> {"ready", "consumed", "recovery", "blocked"}]
    BY <1>1 DEF TypeOK, Start, Mark, Reconciled
  <2>2. cursorFile' \in BOOLEAN /\ cursor' \in [Processes -> BOOLEAN]
    BY <1>1, Zenon DEF TypeOK, Start
  <2>3. QED
    BY <1>1, <2>1, <2>2 DEF TypeOK, Start, Modes, journal, admitting, dispatching, acking
<1>2. ASSUME NEW o \in Outcomes, Refresh(p, o) PROVE TypeOK'
  BY <1>2 DEF TypeOK, Refresh, Mark, journal, admitting, dispatching, acking
<1>3. CASE AckCheck(p)
  BY <1>3 DEF TypeOK, AckCheck, journal, flags, admitting, dispatching
<1>4. CASE AckStamp(p)
  BY <1>4 DEF TypeOK, AckStamp, journal, flags, admitting, dispatching
<1>5. ASSUME NEW o \in Outcomes, AckCommit(p, o) PROVE TypeOK'
  <2>1. /\ receipt' \in Rows
        /\ execution' \in {execution} \cup Terminal
    BY <1>5 DEF TypeOK, AckCommit, AckApplies, Eligible, Nonterminal, Receipt, ReceiptType,
       Terminal, NoLease, Rows, journal
  <2>2. QED
    BY <1>5, <2>1 DEF TypeOK, AckCommit, Mark, Rows, journal, admitting, dispatching
<1>6. ASSUME NEW written \in BOOLEAN, AckFinish(p, written) PROVE TypeOK'
  BY <1>6 DEF TypeOK, AckFinish, AdvanceCursor, Mark, journal, admitting, dispatching
<1>7. QED
  BY <1>1, <1>2, <1>3, <1>4, <1>5, <1>6 DEF Serve

\* Every step keeps the types.
LEMMA NextType == TypeOK /\ [Next]_vars => TypeOK'
<1> SUFFICES ASSUME TypeOK, [Next]_vars PROVE TypeOK'
  OBVIOUS
<1>1. CASE \E p \in Processes : Admit(p) \/ Run(p) \/ Halt(p) \/ Serve(p)
  BY <1>1, AdmitType, RunType, HaltType, ServeType
<1>2. CASE ClearHistory
  BY <1>2 DEF TypeOK, ClearHistory, flags, admitting, dispatching, acking
<1>3. CASE Tick
  BY <1>3 DEF TypeOK, Tick, journal, flags, admitting, dispatching, acking
<1>4. CASE UNCHANGED vars
  BY <1>4 DEF TypeOK, vars, journal, flags, admitting, dispatching, acking
<1>5. QED
  BY <1>1, <1>2, <1>3, <1>4 DEF Next
(***************************************************************************)
(* The inductive invariant.  Most steps are quiet: they move no task and   *)
(* no receipt forward.  The others work on the receipt they own.           *)
(***************************************************************************)
\* What a step keeps: a receipt keeps its owner and its outcome, and the
\* promise of DispatchOnce takes a step or none.
Kept ==
    /\ receipt # NoReceipt => /\ receipt' # NoReceipt
                              /\ receipt'.owner = receipt.owner
                              /\ receipt.state \in Terminal => receipt' = receipt
    /\ [Promise!Next]_(Promise!vars)

Permit == \E p \in Processes : task[p] = "entering"

\* A step that keeps the claim and enters nothing keeps the promise.
LEMMA ClaimKept ==
    ASSUME SameClaim(receipt, receipt'), dispatches' = dispatches, Permit' => Permit
    PROVE  Kept
<1>1. receipt # NoReceipt => /\ receipt' # NoReceipt
                             /\ receipt'.owner = receipt.owner
                             /\ receipt.state \in Terminal => receipt' = receipt
  BY DEF SameClaim, Terminal, Live
<1>2. [Promise!Next]_(Promise!vars)
  BY Zenon DEF SameClaim, Permit, Promise!Next, Promise!Withdraw, Promise!vars
<1>3. QED
  BY <1>1, <1>2 DEF Kept

\* Nothing the invariant speaks of advances: the receipt changes at most its
\* lease, tasks only end, admissions only end.
Quiet ==
    /\ SameClaim(receipt, receipt')
    /\ UNCHANGED <<execution, dispatches, instance>>
    /\ cursorFile => cursorFile'
    /\ \A q \in Processes :
          /\ mode'[q] = "down" => task'[q] = "none" /\ admission'[q] = "idle"
          /\ mode'[q] = "cancelling" => task'[q] = "aborted"
          /\ task'[q] \in {"none", "aborted", task[q]}
          /\ task'[q] # "none" => /\ task[q] # "none"
                                  /\ status'[q] # "ready"
                                  /\ admission'[q] \in {"idle", "interrupted"}
          /\ admission'[q] = "reserving" =>
                admission[q] = "reserving" /\ held'[q] = held[q]
          /\ admission'[q] = "reserved" => admission[q] = "reserved"

\* A quiet step preserves the invariant.
LEMMA QuietStep ==
    ASSUME IndInv, TypeOK', Quiet
    PROVE  IndInv' /\ Kept
<1>1. OwnershipInv'
  BY DEF Quiet, IndInv, TypeOK, OwnershipInv, SameClaim, Owns, Owner, ReceiptType, Owners
<1>2. TaskShutsAdmission'
  BY DEF Quiet, TaskShutsAdmission, TriggerBlocked
<1>3. DispatchIsRecorded'
  BY DEF Quiet, IndInv, DispatchIsRecorded, SameClaim, Owns, Owner
<1>4. ProgressInv'
  BY DEF Quiet, IndInv, ProgressInv, SameClaim
<1>5. AtMostOnce'
  BY DEF Quiet, IndInv, AtMostOnce
<1>6. PairedRows'
  BY DEF Quiet, IndInv, PairedRows, PairedExecution, SameClaim
<1>7. Kept
  BY ClaimKept DEF Quiet, Permit
<1>8. QED
  BY <1>1, <1>2, <1>3, <1>4, <1>5, <1>6, <1>7 DEF IndInv

\* Nobody else works on the receipt p owns.
LEMMA OneOwner ==
    ASSUME IndInv, NEW p \in Processes, NEW q \in Processes, Owns(p), p # q
    PROVE  task[q] = "none" /\ admission[q] # "reserved"
BY DEF IndInv, OwnershipInv, Owns, Owner

\* What a step of p on its own receipt leaves to check.
OwnerStep(p) ==
    /\ Owns(p)
    /\ receipt' # NoReceipt
    /\ receipt'.owner = receipt.owner
    /\ UNCHANGED instance
    /\ cursorFile => cursorFile'
    /\ \A q \in Processes \ {p} :
          /\ mode'[q] = mode[q]
          /\ task'[q] = task[q]
          /\ admission'[q] = admission[q]
          /\ held'[q] = held[q]
    /\ mode'[p] = "down" => task'[p] = "none" /\ admission'[p] = "idle"
    /\ mode'[p] = "cancelling" => task'[p] = "aborted"
    /\ admission'[p] = "reserving" => admission[p] = "reserving" /\ held'[p] = held[p]
    /\ task'[p] # "none" => status'[p] # "ready" /\ admission'[p] \in {"idle", "interrupted"}

\* How far such a step takes the receipt and the dispatcher.
Advances(p) ==
    \/ /\ SameClaim(receipt, receipt')
       /\ dispatches' = dispatches
       /\ task'[p] = "entering" => task[p] = "entering"
    \/ /\ receipt.state = "reserved" /\ receipt'.state = "running"
       /\ dispatches' = dispatches
       /\ task[p] # "entering"
    \/ /\ receipt' = receipt
       /\ dispatches' = dispatches + 1
       /\ task[p] = "entering" /\ task'[p] # "entering"
    \/ /\ receipt.state = "running" /\ receipt'.state \in {"completed", "failed"}
       /\ dispatches = 1 /\ dispatches' = dispatches
       /\ task[p] # "entering" /\ task'[p] # "entering"
    \/ /\ receipt.state \in {"reserved", "running"} /\ receipt'.state = "cancelled"
       /\ dispatches' = dispatches
       /\ task[p] # "entering" /\ task'[p] # "entering"

\* Each way the owner advances is a step of the promise.
LEMMA AdvanceKept ==
    ASSUME IndInv, NEW p \in Processes, OwnerStep(p), Advances(p)
    PROVE  Kept
<1>1. /\ Permit <=> task[p] = "entering"
      /\ Permit' <=> task'[p] = "entering"
  BY OneOwner DEF OwnerStep, Permit
<1>2. receipt # NoReceipt /\ receipt' # NoReceipt /\ receipt'.owner = receipt.owner
  BY DEF OwnerStep, Owns
<1>3. CASE SameClaim(receipt, receipt') /\ dispatches' = dispatches
           /\ (task'[p] = "entering" => task[p] = "entering")
  BY <1>1, <1>3, ClaimKept
<1>4. CASE /\ receipt.state = "reserved" /\ receipt'.state = "running"
           /\ dispatches' = dispatches
           /\ task[p] # "entering"
  <2>1. Promise!Begin
    BY <1>1, <1>2, <1>4, Zenon DEF Permit, Promise!Begin
  <2>2. QED
    BY <1>2, <1>4, <2>1 DEF Kept, Promise!Next, Terminal
<1>5. CASE /\ receipt' = receipt
           /\ dispatches' = dispatches + 1
           /\ task[p] = "entering" /\ task'[p] # "entering"
  <2>1. Promise!Enter
    BY <1>1, <1>2, <1>5, Zenon DEF Permit, Promise!Enter
  <2>2. QED
    BY <1>2, <1>5, <2>1 DEF Kept, Promise!Next
<1>6. CASE /\ receipt.state = "running" /\ receipt'.state \in {"completed", "failed"}
           /\ dispatches = 1 /\ dispatches' = dispatches
           /\ task[p] # "entering" /\ task'[p] # "entering"
  <2>1. Promise!Settle
    BY <1>1, <1>2, <1>6, Zenon DEF Permit, Promise!Settle
  <2>2. QED
    BY <1>2, <1>6, <2>1 DEF Kept, Promise!Next, Terminal
<1>7. CASE /\ receipt.state \in {"reserved", "running"} /\ receipt'.state = "cancelled"
           /\ dispatches' = dispatches
           /\ task[p] # "entering" /\ task'[p] # "entering"
  <2>1. Promise!Cancel
    BY <1>1, <1>2, <1>7, Zenon DEF Permit, Promise!Cancel, Promise!Open
  <2>2. QED
    BY <1>2, <1>7, <2>1 DEF Kept, Promise!Next, Terminal
<1>8. QED
  BY <1>3, <1>4, <1>5, <1>6, <1>7 DEF Advances

\* Such a step preserves the invariant when the rows, the task and the
\* dispatcher of p agree after it.
LEMMA OwnerKeepsInv ==
    ASSUME IndInv, TypeOK', NEW p \in Processes, OwnerStep(p), Advances(p),
           execution' \in PairedExecution(receipt)',
           dispatches' <= 1,
           receipt'.state = "reserved" => dispatches' = 0,
           receipt'.state \in {"completed", "failed"} => dispatches' = 1,
           task'[p] = "waiting" => cursorFile',
           task'[p] = "entering" => dispatches' = 0,
           task'[p] \in {"dispatching", "completed", "failed"} => dispatches' = 1,
           task'[p] \in {"entering", "dispatching", "completed", "failed"} =>
               receipt'.state \in {"running", "cancelled"} /\ cursorFile'
    PROVE  IndInv' /\ Kept
<1>1. \A q \in Processes \ {p} : task'[q] = "none" /\ admission'[q] # "reserved"
  BY OneOwner DEF OwnerStep
<1>2. OwnershipInv'
  <2>1. receipt'.owner[2] <= instance'[receipt'.owner[1]]
    BY DEF IndInv, OwnershipInv, OwnerStep, Owns
  <2>2. Owns(p)'
    BY DEF OwnerStep, Owns, Owner
  <2>3. ASSUME NEW q \in Processes, q # p
        PROVE  /\ (mode[q] = "down")' => task'[q] = "none" /\ admission'[q] = "idle"
               /\ (mode[q] = "cancelling")' => task'[q] = "aborted"
               /\ admission'[q] = "reserving" => /\ held'[q] # NoReceipt
                                                 /\ held'[q].state = "reserved"
                                                 /\ held'[q].owner = Owner(q)'
    BY <2>3, <1>1 DEF IndInv, OwnershipInv, OwnerStep, Owner
  <2>4. admission'[p] = "reserving" => /\ held'[p] # NoReceipt
                                       /\ held'[p].state = "reserved"
                                       /\ held'[p].owner = Owner(p)'
    BY DEF IndInv, OwnershipInv, OwnerStep, Owner
  <2>5. QED
    BY <1>1, <2>1, <2>2, <2>3, <2>4 DEF OwnershipInv, OwnerStep
<1>3. TaskShutsAdmission'
  BY <1>1 DEF OwnerStep, TaskShutsAdmission, TriggerBlocked
<1>4. DispatchIsRecorded'
  BY <1>1 DEF OwnerStep, DispatchIsRecorded, Owns, Owner
<1>5. ProgressInv'
  BY <1>1 DEF OwnerStep, ProgressInv
<1>6. AtMostOnce' /\ PairedRows'
  BY DEF OwnerStep, AtMostOnce, PairedRows
<1>7. QED
  BY <1>2, <1>3, <1>4, <1>5, <1>6, AdvanceKept DEF IndInv

\* Storing p's proposal: there was no receipt, hence no task anywhere.
LEMMA ClaimKeepsInv ==
    ASSUME IndInv, TypeOK', NEW p \in Processes,
           admission[p] = "reserving", receipt = NoReceipt,
           receipt' = held[p], execution' = "pending",
           UNCHANGED <<dispatches, instance, cursorFile, task>>,
           \A q \in Processes \ {p} :
              /\ mode'[q] = mode[q]
              /\ admission'[q] = admission[q]
              /\ held'[q] = held[q],
           mode'[p] \notin {"down", "cancelling"},
           admission'[p] # "reserving"
    PROVE  IndInv' /\ Kept
<1>1. /\ receipt' # NoReceipt
      /\ receipt'.state = "reserved"
      /\ receipt'.owner = Owner(p)
  BY DEF IndInv, OwnershipInv
<1>2. \A q \in Processes : task'[q] = "none" /\ admission[q] # "reserved"
  BY DEF IndInv, OwnershipInv, Owns
<1>3. OwnershipInv'
  <2>1. receipt'.owner[2] <= instance'[receipt'.owner[1]]
    BY <1>1 DEF IndInv, TypeOK, Owner
  <2>2. Owns(p)'
    BY <1>1 DEF Owns, Owner
  <2>3. ASSUME NEW q \in Processes, q # p
        PROVE  /\ (mode[q] = "down")' => admission'[q] = "idle"
               /\ mode'[q] # "cancelling"
               /\ admission'[q] # "reserved"
               /\ admission'[q] = "reserving" => /\ held'[q] # NoReceipt
                                                 /\ held'[q].state = "reserved"
                                                 /\ held'[q].owner = Owner(q)'
    BY <2>3, <1>2 DEF IndInv, OwnershipInv, Owner
  <2>4. QED
    BY <1>2, <2>1, <2>2, <2>3 DEF OwnershipInv
<1>4. TaskShutsAdmission' /\ DispatchIsRecorded'
  BY <1>2 DEF TaskShutsAdmission, DispatchIsRecorded
<1>5. ProgressInv' /\ AtMostOnce'
  BY <1>1, <1>2 DEF IndInv, ProgressInv, AtMostOnce
<1>6. PairedRows'
  BY <1>1 DEF PairedRows, PairedExecution
<1>7. Kept
  <2>1. ~Permit /\ ~Permit'
    BY <1>2 DEF Permit
  <2>2. Promise!Claim
    BY <1>1, <2>1, Zenon DEF Permit, Promise!Claim
  <2>3. QED
    BY <2>2 DEF Kept, Promise!Next
<1>8. QED
  BY <1>3, <1>4, <1>5, <1>6, <1>7 DEF IndInv

\* Triggers and admission preserve the invariant.
LEMMA AdmitKeepsInv ==
    ASSUME IndInv, NEW p \in Processes, Admit(p) PROVE IndInv' /\ Kept
<1>t. TypeOK /\ TypeOK'
  BY AdmitType DEF IndInv
<1>1. CASE Fire(p)
  <2>1. Quiet
    BY <1>1 DEF IndInv, OwnershipInv, TaskShutsAdmission, TriggerBlocked, Quiet, SameClaim, Fire,
       journal, flags, dispatching
  <2>2. QED
    BY <1>t, <2>1, QuietStep
<1>2. CASE Suppress(p)
  <2>1. Quiet
    BY <1>2 DEF IndInv, OwnershipInv, TaskShutsAdmission, TriggerBlocked, Quiet, SameClaim,
       Suppress, journal, flags, dispatching
  <2>2. QED
    BY <1>t, <2>1, QuietStep
<1>3. ASSUME NEW history \in BOOLEAN, Unavailable(p, history) PROVE IndInv' /\ Kept
  <2>1. Quiet
    BY <1>3, <1>t DEF TypeOK, IndInv, OwnershipInv, TaskShutsAdmission, TriggerBlocked, Quiet,
       SameClaim, Unavailable, Mark, journal, dispatching
  <2>2. QED
    BY <1>t, <2>1, QuietStep
<1>4. ASSUME NEW written \in BOOLEAN, Refuse(p, written) PROVE IndInv' /\ Kept
  <2>1. Quiet
    BY <1>4 DEF IndInv, OwnershipInv, TaskShutsAdmission, TriggerBlocked, Quiet,
       SameClaim, Refuse, AdvanceCursor, journal, dispatching
  <2>2. QED
    BY <1>t, <2>1, QuietStep
<1>5. CASE Propose(p)
  <2> DEFINE proposal == Receipt("reserved", Owner(p), clock + LeaseLength)
  <2>1. /\ UNCHANGED <<receipt, execution, cursorFile, dispatches, mode, instance, status, task>>
        /\ mode[p] = "up" /\ status[p] = "ready"
        /\ admission' = [admission EXCEPT ![p] = "reserving"]
        /\ held' = [held EXCEPT ![p] = proposal]
    BY <1>5 DEF Propose, Take, TriggerBlocked, journal, flags, dispatching
  <2>2. task[p] = "none"
    BY <2>1 DEF IndInv, TaskShutsAdmission, TriggerBlocked
  <2>3. proposal # NoReceipt /\ proposal.state = "reserved" /\ proposal.owner = Owner(p)
    BY <1>t, OccurrenceAssumption, NoReceiptAssumption
       DEF TypeOK, Receipt, ReceiptType, Owner, Owners, Live
  <2> HIDE DEF proposal
  <2>4. OwnershipInv'
    BY <1>t, <2>1, <2>2, <2>3 DEF TypeOK, IndInv, OwnershipInv, Owns, Owner
  <2>5. TaskShutsAdmission' /\ DispatchIsRecorded'
    BY <1>t, <2>1, <2>2 DEF TypeOK, IndInv, TaskShutsAdmission, TriggerBlocked,
       DispatchIsRecorded, Owns, Owner
  <2>6. ProgressInv' /\ AtMostOnce' /\ PairedRows'
    BY <2>1 DEF IndInv, ProgressInv, AtMostOnce, PairedRows, PairedExecution
  <2>7. Kept
    BY <2>1, ClaimKept DEF SameClaim, Permit
  <2>8. QED
    BY <1>t, <2>4, <2>5, <2>6, <2>7 DEF IndInv
<1>6. ASSUME NEW o \in Outcomes, Reserve(p, o) PROVE IndInv' /\ Kept
  <2>1. /\ admission[p] = "reserving" /\ task[p] = "none" /\ mode[p] \notin {"down", "cancelling"}
        /\ UNCHANGED <<cursorFile, dispatches, mode, instance, task>>
        /\ \A q \in Processes \ {p} :
              /\ admission'[q] = admission[q]
              /\ held'[q] = held[q]
              /\ status'[q] = status[q]
        /\ admission'[p] # "reserving"
    BY <1>6, <1>t DEF Reserve, IndInv, OwnershipInv, TaskShutsAdmission, TypeOK, Mark, dispatching
  <2>2. CASE Inserts /\ Effective(o)
    <3>1. receipt = NoReceipt /\ receipt' = held[p] /\ execution' = "pending"
      BY <2>2, <1>6 DEF Reserve, Inserts
    <3>2. QED
      BY <1>t, <2>1, <3>1, ClaimKeepsInv
  <2>3. CASE ~(Inserts /\ Effective(o))
    <3>1. UNCHANGED journal /\ admission'[p] # "reserved"
      BY <2>3, <1>6, <1>t DEF Reserve, TypeOK, Effective
    <3>2. Quiet
      BY <2>1, <3>1 DEF IndInv, OwnershipInv, TaskShutsAdmission, TriggerBlocked, Quiet,
         SameClaim, journal
    <3>3. QED
      BY <1>t, <3>2, QuietStep
  <2>4. QED
    BY <2>2, <2>3
<1>7. ASSUME NEW written \in BOOLEAN, AdmitExisting(p, written) PROVE IndInv' /\ Kept
  <2>1. Quiet
    BY <1>7, <1>t DEF TypeOK, IndInv, OwnershipInv, TaskShutsAdmission, TriggerBlocked, Quiet,
       SameClaim, AdmitExisting, AdvanceCursor, Mark, EndAdmission, journal, dispatching
  <2>2. QED
    BY <1>t, <2>1, QuietStep
<1>8. ASSUME NEW found \in BOOLEAN, NEW written \in BOOLEAN, NEW r \in Outcomes,
             AdmitUnknown(p, found, written, r)
      PROVE  IndInv' /\ Kept
  <2>1. SameClaim(receipt, receipt')
    <3>1. receipt' \in {receipt, Released(p, receipt, r)}
      BY <1>8 DEF AdmitUnknown
    <3>2. QED
      BY <3>1, <1>t, LeaseOnly DEF TypeOK, Rows, SameClaim
  <2>2. Quiet
    BY <1>8, <1>t, <2>1 DEF TypeOK, IndInv, OwnershipInv, TaskShutsAdmission, TriggerBlocked,
       Quiet, AdmitUnknown, AdvanceCursor, Mark, EndAdmission, dispatching
  <2>3. QED
    BY <1>t, <2>2, QuietStep
<1>9. ASSUME NEW written \in BOOLEAN, NEW r \in Outcomes, AdmitReserved(p, written, r)
      PROVE  IndInv' /\ Kept
  <2>1. CASE written
    <3>0. cursorFile'
      BY <1>9, <2>1, Zenon DEF AdmitReserved, AdvanceCursor
    <3>1. /\ Owns(p)
          /\ UNCHANGED <<receipt, execution, dispatches, mode, instance>>
          /\ task'[p] = "waiting" /\ status'[p] # "ready" /\ admission'[p] = "idle"
          /\ \A q \in Processes \ {p} :
                task'[q] = task[q] /\ admission'[q] = admission[q] /\ held'[q] = held[q]
      BY <1>9, <1>t, <2>1 DEF TypeOK, IndInv, OwnershipInv, AdmitReserved, AdvanceCursor, Mark,
         EndAdmission
    <3>2. mode[p] \notin {"down", "cancelling"}
      BY <1>9 DEF IndInv, OwnershipInv, TaskShutsAdmission, AdmitReserved
    <3>3. OwnerStep(p) /\ Advances(p)
      BY <3>0, <3>1, <3>2 DEF OwnerStep, Advances, SameClaim, Owns
    <3>4. /\ execution' \in PairedExecution(receipt)'
          /\ dispatches' <= 1
          /\ receipt'.state = "reserved" => dispatches' = 0
          /\ receipt'.state \in {"completed", "failed"} => dispatches' = 1
      BY <3>1 DEF IndInv, PairedRows, PairedExecution, AtMostOnce, ProgressInv, Owns
    <3>5. QED
      BY <1>t, <3>0, <3>1, <3>3, <3>4, OwnerKeepsInv
  <2>2. CASE ~written
    <3>1. SameClaim(receipt, receipt')
      BY <1>9, <2>2, <1>t, LeaseOnly DEF TypeOK, Rows, AdmitReserved
    <3>2. Quiet
      BY <1>9, <1>t, <2>2, <3>1 DEF TypeOK, IndInv, OwnershipInv, TaskShutsAdmission,
         TriggerBlocked, Quiet, AdmitReserved, AdvanceCursor, Mark, EndAdmission
    <3>3. QED
      BY <1>t, <3>2, QuietStep
  <2>3. QED
    BY <2>1, <2>2
<1>10. QED
  BY <1>1, <1>2, <1>3, <1>4, <1>5, <1>6, <1>7, <1>8, <1>9 DEF Admit

\* The dispatch task preserves the invariant.
LEMMA RunKeepsInv ==
    ASSUME IndInv, NEW p \in Processes, Run(p) PROVE IndInv' /\ Kept
<1>t. TypeOK /\ TypeOK'
  BY RunType DEF IndInv
<1>u. mode[p] \notin {"down", "cancelling"} /\ Owns(p)
  BY DEF IndInv, OwnershipInv, Run, Renew, LoseLeaseWaiting, LoseLeaseDispatching, Begin, Dispatch,
     DispatchSkipped, DispatchReturns, RecordOutcome
<1>v. task[p] # "none" /\ status[p] # "ready" /\ admission[p] \in {"idle", "interrupted"}
  BY DEF IndInv, TaskShutsAdmission, TriggerBlocked, Run, Renew, LoseLeaseWaiting,
     LoseLeaseDispatching, Begin, Dispatch, DispatchSkipped, DispatchReturns, RecordOutcome
<1>w. /\ execution \in PairedExecution(receipt)
      /\ dispatches <= 1
      /\ receipt.state = "reserved" => dispatches = 0
      /\ receipt.state \in {"completed", "failed"} => dispatches = 1
  BY <1>u DEF IndInv, PairedRows, PairedExecution, AtMostOnce, ProgressInv, Owns
<1>1. ASSUME NEW o \in Outcomes, Renew(p, o) PROVE IndInv' /\ Kept
  <2>1. SameClaim(receipt, receipt')
    BY <1>1, <1>t, LeaseOnly DEF TypeOK, Rows, Renew
  <2>2. Quiet
    BY <1>1, <1>t, <2>1 DEF TypeOK, IndInv, OwnershipInv, TaskShutsAdmission,
       TriggerBlocked, Quiet, Renew, flags, admitting, dispatching
  <2>3. QED
    BY <1>t, <2>2, QuietStep
<1>2. ASSUME NEW o \in Outcomes, NEW r \in Outcomes, LoseLeaseWaiting(p, o, r) PROVE IndInv' /\ Kept
  <2>1. SameClaim(receipt, receipt')
    <3> DEFINE renewed == Renewed(p, receipt, o)
    <3>1. renewed \in Rows /\ SameClaim(receipt, renewed)
      BY <1>t, LeaseOnly DEF TypeOK, Rows
    <3> HIDE DEF renewed
    <3>2. SameClaim(renewed, Released(p, renewed, r))
      BY <1>t, <3>1, LeaseOnly
    <3>3. receipt' = Released(p, renewed, r)
      BY <1>2 DEF LoseLeaseWaiting, renewed
    <3>4. QED
      BY <3>1, <3>2, <3>3 DEF SameClaim
  <2>2. Quiet
    BY <1>2, <1>t, <2>1 DEF TypeOK, IndInv, OwnershipInv, TaskShutsAdmission,
       TriggerBlocked, Quiet, LoseLeaseWaiting, Mark, EndTask, admitting
  <2>3. QED
    BY <1>t, <2>2, QuietStep
<1>3. ASSUME NEW o \in Outcomes, LoseLeaseDispatching(p, o) PROVE IndInv' /\ Kept
  <2>1. SameClaim(receipt, receipt')
    BY <1>3, <1>t, LeaseOnly DEF TypeOK, Rows, LoseLeaseDispatching
  <2>2. Quiet
    BY <1>3, <1>t, <2>1 DEF TypeOK, IndInv, OwnershipInv, TaskShutsAdmission,
       TriggerBlocked, Quiet, LoseLeaseDispatching, Mark, admitting
  <2>3. QED
    BY <1>t, <2>2, QuietStep
<1>4. ASSUME NEW o \in Outcomes, NEW r \in Outcomes, Begin(p, o, r) PROVE IndInv' /\ Kept
  <2> DEFINE moved == TransitionReceipt(p, "reserved", "running", o)
  <2>1. /\ moved \in Rows
        /\ \/ /\ moved = receipt
              /\ TransitionExecution(p, "reserved", "running", o) = execution
              /\ ~Applied(p, "reserved", o)
           \/ /\ receipt.state = "reserved"
              /\ moved # NoReceipt
              /\ moved.state = "running"
              /\ moved.owner = receipt.owner
              /\ TransitionExecution(p, "reserved", "running", o) = "running"
    BY <1>t, TransitionMoves DEF Applied
  <2> HIDE DEF moved
  <2>2. SameClaim(moved, Released(p, moved, r))
    BY <1>t, <2>1, LeaseOnly
  <2>3. /\ \/ /\ Applied(p, "reserved", o)
              /\ receipt' = moved
              /\ task'[p] = "entering"
              /\ status' = status
           \/ /\ ~Applied(p, "reserved", o)
              /\ receipt' = Released(p, moved, r)
              /\ task'[p] = "none"
        /\ execution' = TransitionExecution(p, "reserved", "running", o)
        /\ \A q \in Processes \ {p} : task'[q] = task[q]
        /\ UNCHANGED <<cursorFile, dispatches, mode, instance, admission, held>>
    BY <1>4, <1>t DEF Begin, TypeOK, EndTask, admitting, moved
  <2>4. SameClaim(moved, receipt')
    BY <2>2, <2>3 DEF SameClaim
  <2>5. task[p] = "waiting" /\ cursorFile
    BY <1>4 DEF Begin, IndInv, ProgressInv
  <2>6. OwnerStep(p) /\ Advances(p)
    <3>1. OwnerStep(p)
      BY <1>u, <1>v, <2>1, <2>3, <2>4 DEF OwnerStep, SameClaim, Owns
    <3>2. Advances(p)
      BY <1>u, <2>1, <2>3, <2>4, <2>5 DEF Advances, SameClaim, Owns
    <3>3. QED
      BY <3>1, <3>2
  <2>7. /\ receipt'.state = "reserved" => dispatches' = 0
        /\ receipt'.state \in {"completed", "failed"} => dispatches' = 1
        /\ execution' \in PairedExecution(receipt)'
    BY <1>u, <1>w, <2>1, <2>3, <2>4 DEF SameClaim, Owns, PairedExecution
  <2>8. QED
    BY <1>t, <1>w, <2>1, <2>3, <2>6, <2>5, <2>7, OwnerKeepsInv
<1>5. CASE Dispatch(p)
  <2>1. /\ UNCHANGED <<receipt, execution, cursorFile, mode, instance, status, admission, held>>
        /\ task[p] = "entering" /\ task'[p] = "dispatching"
        /\ dispatches' = dispatches + 1
        /\ \A q \in Processes \ {p} : task'[q] = task[q]
    BY <1>5, <1>t DEF Dispatch, TypeOK, journal, flags, admitting
  <2>2. /\ dispatches = 0
        /\ receipt.state \in {"running", "cancelled"} /\ cursorFile
    BY <2>1 DEF IndInv, ProgressInv, DispatchIsRecorded
  <2>3. OwnerStep(p) /\ Advances(p)
    BY <1>u, <1>v, <2>1 DEF OwnerStep, Advances, SameClaim, Owns
  <2>4. execution' \in PairedExecution(receipt)'
    BY <1>w, <2>1 DEF PairedExecution
  <2>5. QED
    BY <1>t, <2>1, <2>2, <2>3, <2>4, OwnerKeepsInv
<1>6. ASSUME NEW r \in Outcomes, DispatchSkipped(p, r) PROVE IndInv' /\ Kept
  <2>1. SameClaim(receipt, receipt')
    <3>1. SameClaim(receipt, receipt)
      BY DEF SameClaim
    <3>2. SameClaim(receipt, Released(p, receipt, r))
      BY <1>t, LeaseOnly DEF TypeOK, Rows
    <3>3. QED
      BY <1>6, <3>1, <3>2 DEF DispatchSkipped
  <2>2. Quiet
    BY <1>6, <1>t, <2>1 DEF TypeOK, IndInv, OwnershipInv, TaskShutsAdmission,
       TriggerBlocked, Quiet, DispatchSkipped, Mark, EndTask, admitting
  <2>3. QED
    BY <1>t, <2>2, QuietStep
<1>7. ASSUME NEW result \in {"completed", "failed"}, DispatchReturns(p, result) PROVE IndInv' /\ Kept
  <2>1. /\ UNCHANGED <<receipt, execution, cursorFile, dispatches, mode, instance, status,
                       admission, held>>
        /\ task[p] = "dispatching" /\ task'[p] \in {"none", "completed", "failed"}
        /\ \A q \in Processes \ {p} : task'[q] = task[q]
    BY <1>7, <1>t DEF DispatchReturns, EndTask, TypeOK, journal, flags, admitting
  <2>2. /\ dispatches = 1
        /\ receipt.state \in {"running", "cancelled"} /\ cursorFile
    BY <2>1 DEF IndInv, ProgressInv, DispatchIsRecorded
  <2>3. OwnerStep(p) /\ Advances(p)
    BY <1>u, <1>v, <2>1 DEF OwnerStep, Advances, SameClaim, Owns
  <2>4. execution' \in PairedExecution(receipt)'
    BY <1>w, <2>1 DEF PairedExecution
  <2>5. QED
    BY <1>t, <2>1, <2>2, <2>3, <2>4, OwnerKeepsInv
<1>8. ASSUME NEW o \in Outcomes, RecordOutcome(p, o) PROVE IndInv' /\ Kept
  <2>1. /\ task[p] \in {"completed", "failed"}
        /\ receipt' = TransitionReceipt(p, "running", task[p], o)
        /\ execution' = TransitionExecution(p, "running", task[p], o)
        /\ task'[p] = "none"
        /\ UNCHANGED <<cursorFile, dispatches, mode, instance, admission, held>>
        /\ \A q \in Processes \ {p} : task'[q] = task[q]
    BY <1>8, <1>t DEF RecordOutcome, EndTask, TypeOK, admitting
  <2>2. task[p] \in Terminal \cup {"running"}
    BY <2>1 DEF Terminal
  <2>3. \/ UNCHANGED <<receipt, execution>>
        \/ /\ receipt' # NoReceipt
           /\ receipt.state = "running"
           /\ receipt'.state = task[p]
           /\ receipt'.owner = receipt.owner
           /\ execution' = task[p]
    BY <1>t, <2>1, <2>2, TransitionMoves
  <2>4. dispatches = 1
    BY <2>1 DEF IndInv, ProgressInv
  <2>5. OwnerStep(p) /\ Advances(p)
    BY <1>u, <1>v, <2>1, <2>3, <2>4 DEF OwnerStep, Advances, SameClaim, Owns
  <2>6. /\ receipt'.state # "reserved"
        /\ execution' \in PairedExecution(receipt)'
    BY <1>w, <2>1, <2>3, <2>4 DEF PairedExecution
  <2>7. QED
    BY <1>t, <2>1, <2>4, <2>5, <2>6, OwnerKeepsInv
<1>9. QED
  BY <1>1, <1>2, <1>3, <1>4, <1>5, <1>6, <1>7, <1>8 DEF Run

\* Stopping the manager, and dying, preserve the invariant.
LEMMA HaltKeepsInv ==
    ASSUME IndInv, NEW p \in Processes, Halt(p) PROVE IndInv' /\ Kept
<1>t. TypeOK /\ TypeOK'
  BY HaltType DEF IndInv
<1>w. Owns(p) => /\ execution \in PairedExecution(receipt)
                 /\ dispatches <= 1
                 /\ receipt.state = "reserved" => dispatches = 0
                 /\ receipt.state \in {"completed", "failed"} => dispatches = 1
  BY DEF IndInv, PairedRows, PairedExecution, AtMostOnce, ProgressInv, Owns
<1>1. ASSUME NEW inFlight \in BOOLEAN, StopLoops(p, inFlight) PROVE IndInv' /\ Kept
  <2>1. /\ mode[p] = "up" /\ mode'[p] = "draining"
        /\ admission'[p] \in {"idle", "interrupted"}
        /\ UNCHANGED <<dispatches, instance, task, status, held>>
        /\ \A q \in Processes \ {p} : mode'[q] = mode[q] /\ admission'[q] = admission[q]
    BY <1>1, <1>t DEF StopLoops, TypeOK, flags, dispatching
  <2>2. CASE UNCHANGED journal
    <3>1. cursorFile => cursorFile'
      BY <1>1 DEF StopLoops
    <3>2. Quiet
      BY <2>1, <2>2, <3>1 DEF IndInv, OwnershipInv, TaskShutsAdmission, TriggerBlocked, Quiet,
         SameClaim, journal
    <3>3. QED
      BY <1>t, <3>2, QuietStep
  <2>3. CASE /\ admission[p] = "reserving" /\ Inserts
             /\ receipt' = held[p] /\ execution' = "pending" /\ UNCHANGED cursorFile
    BY <1>t, <2>1, <2>3, ClaimKeepsInv DEF Inserts
  <2>4. QED
    BY <1>1, <2>2, <2>3 DEF StopLoops, journal
<1>2. ASSUME NEW r \in Outcomes, StopAdmissions(p, r) PROVE IndInv' /\ Kept
  <2>1. SameClaim(receipt, receipt')
    <3>1. SameClaim(receipt, receipt)
      BY DEF SameClaim
    <3>2. SameClaim(receipt, Released(p, receipt, r))
      BY <1>t, LeaseOnly DEF TypeOK, Rows
    <3>3. QED
      BY <1>2, <3>1, <3>2 DEF StopAdmissions
  <2>2. Quiet
    BY <1>2, <1>t, <2>1 DEF TypeOK, IndInv, OwnershipInv, TaskShutsAdmission,
       TriggerBlocked, Quiet, StopAdmissions, Mark, EndAdmission, dispatching
  <2>3. QED
    BY <1>t, <2>2, QuietStep
<1>3. ASSUME NEW inFlight \in BOOLEAN, StopTasks(p, inFlight) PROVE IndInv' /\ Kept
  <2>1. /\ mode[p] # "down" /\ mode'[p] # "down"
        /\ mode'[p] = "cancelling" => task'[p] = "aborted"
        /\ task'[p] \in {"none", "aborted"} /\ (task'[p] # "none" => task[p] # "none")
        /\ UNCHANGED <<cursorFile, dispatches, instance, status, admission, held>>
        /\ \A q \in Processes \ {p} : mode'[q] = mode[q] /\ task'[q] = task[q]
    BY <1>3, <1>t DEF StopTasks, TypeOK, flags, admitting
  <2>2. CASE ~inFlight
    <3>1. UNCHANGED journal
      BY <1>3, <2>2 DEF StopTasks
    <3>2. Quiet
      BY <2>1, <3>1 DEF IndInv, OwnershipInv, TaskShutsAdmission, TriggerBlocked, Quiet,
         SameClaim, journal
    <3>3. QED
      BY <1>t, <3>2, QuietStep
  <2>3. CASE inFlight
    <3> DEFINE from == IF task[p] = "waiting" THEN "reserved" ELSE "running"
               to == IF task[p] = "waiting" THEN "running" ELSE task[p]
    <3>1. /\ task[p] \in {"waiting", "completed", "failed"}
          /\ receipt' = TransitionReceipt(p, from, to, "ok")
          /\ execution' = TransitionExecution(p, from, to, "ok")
      BY <1>3, <2>3 DEF StopTasks
    <3>2. /\ to \in Terminal \cup {"running"}
          /\ to \in {"completed", "failed"} => dispatches = 1
          /\ \/ from = "reserved" /\ to = "running"
             \/ from = "running" /\ to \in {"completed", "failed"}
      BY <3>1 DEF Terminal, IndInv, ProgressInv
    <3> HIDE DEF from, to
    <3>3. Owns(p) /\ status[p] # "ready" /\ admission[p] \in {"idle", "interrupted"}
      BY <3>1 DEF IndInv, OwnershipInv, TaskShutsAdmission, TriggerBlocked
    <3>4. \/ UNCHANGED <<receipt, execution>>
          \/ /\ receipt' # NoReceipt
             /\ receipt.state = from
             /\ receipt'.state = to
             /\ receipt'.owner = receipt.owner
             /\ execution' = to
      BY <1>t, <3>1, <3>2, TransitionMoves
    <3>5. OwnerStep(p) /\ Advances(p)
      BY <2>1, <3>1, <3>2, <3>3, <3>4 DEF OwnerStep, Advances, SameClaim, Owns
    <3>6. /\ receipt'.state = "reserved" => dispatches' = 0
          /\ receipt'.state \in {"completed", "failed"} => dispatches' = 1
          /\ execution' \in PairedExecution(receipt)'
      BY <1>w, <2>1, <3>2, <3>3, <3>4 DEF PairedExecution, Terminal
    <3>7. QED
      BY <1>t, <1>w, <2>1, <3>3, <3>5, <3>6, OwnerKeepsInv
  <2>4. QED
    BY <2>2, <2>3
<1>4. ASSUME NEW o \in Outcomes, NEW r \in Outcomes, StopCancels(p, o, r) PROVE IndInv' /\ Kept
  <2>1. /\ mode[p] = "cancelling" /\ mode'[p] = "stopped"
        /\ task[p] = "aborted" /\ task'[p] = "none"
        /\ UNCHANGED <<cursorFile, dispatches, instance, admission, held>>
        /\ \A q \in Processes \ {p} :
              mode'[q] = mode[q] /\ task'[q] = task[q] /\ status'[q] = status[q]
    BY <1>4, <1>t DEF StopCancels, EndTask, Mark, TypeOK, admitting, IndInv, OwnershipInv
  <2>2. PICK from \in Live :
                    \/ UNCHANGED journal
                    \/ /\ execution' = TransitionExecution(p, from, "cancelled", o)
                       /\ receipt' \in {TransitionReceipt(p, from, "cancelled", o),
                             Released(p, TransitionReceipt(p, from, "cancelled", o), r)}
    BY <1>4 DEF StopCancels, Live
  <2> DEFINE moved == TransitionReceipt(p, from, "cancelled", o)
  <2>3. /\ moved \in Rows
        /\ \/ moved = receipt /\ TransitionExecution(p, from, "cancelled", o) = execution
           \/ /\ Owns(p)
              /\ receipt.state \in Live
              /\ moved # NoReceipt
              /\ moved.state = "cancelled"
              /\ moved.owner = receipt.owner
              /\ TransitionExecution(p, from, "cancelled", o) = "cancelled"
    <3>1. "cancelled" \in Terminal \cup {"running"}
      BY DEF Terminal
    <3>2. QED
      BY <1>t, <3>1, TransitionMoves
  <2>4. receipt' \in {moved, Released(p, moved, r)} \/ UNCHANGED journal
    BY <2>2
  <2> HIDE DEF moved
  <2>5. SameClaim(moved, moved) /\ SameClaim(moved, Released(p, moved, r))
    BY <1>t, <2>3, LeaseOnly DEF SameClaim
  <2>6. \/ SameClaim(receipt, receipt') /\ UNCHANGED execution
        \/ /\ Owns(p)
           /\ receipt.state \in Live
           /\ receipt' # NoReceipt
           /\ receipt'.state = "cancelled"
           /\ receipt'.owner = receipt.owner
           /\ execution' = "cancelled"
    BY <2>2, <2>3, <2>4, <2>5 DEF SameClaim, journal
  <2>7. CASE SameClaim(receipt, receipt') /\ UNCHANGED execution
    <3>1. Quiet
      BY <2>1, <2>7 DEF IndInv, OwnershipInv, TaskShutsAdmission, TriggerBlocked, Quiet
    <3>2. QED
      BY <1>t, <3>1, QuietStep
  <2>8. CASE /\ Owns(p)
             /\ receipt.state \in Live
             /\ receipt' # NoReceipt
             /\ receipt'.state = "cancelled"
             /\ receipt'.owner = receipt.owner
             /\ execution' = "cancelled"
    <3>1. OwnerStep(p) /\ Advances(p)
      BY <2>1, <2>8 DEF OwnerStep, Advances, Live
    <3>2. execution' \in PairedExecution(receipt)'
      BY <2>8 DEF PairedExecution
    <3>3. QED
      BY <1>t, <1>w, <2>1, <2>8, <3>1, <3>2, OwnerKeepsInv
  <2>9. QED
    BY <2>6, <2>7, <2>8
<1>5. CASE Exit(p)
  <2>1. Quiet
    BY <1>5, <1>t DEF TypeOK, IndInv, OwnershipInv, TaskShutsAdmission, TriggerBlocked, Quiet,
       SameClaim, Exit, EndAdmission, EndTask, journal
  <2>2. QED
    BY <1>t, <2>1, QuietStep
<1>6. QED
  BY <1>1, <1>2, <1>3, <1>4, <1>5 DEF Halt

\* Starting, listing and acknowledging preserve the invariant.
LEMMA ServeKeepsInv ==
    ASSUME IndInv, NEW p \in Processes, Serve(p) PROVE IndInv' /\ Kept
<1>t. TypeOK /\ TypeOK'
  BY ServeType DEF IndInv
<1>1. ASSUME NEW readable \in BOOLEAN, NEW written \in BOOLEAN, Start(p, readable, written)
      PROVE  IndInv' /\ Kept
  <2>1. cursorFile => cursorFile'
    BY <1>1, Zenon DEF Start
  <2>2. /\ mode[p] = "down"
        /\ mode'[p] = "up" /\ instance'[p] = instance[p] + 1
        /\ UNCHANGED <<receipt, execution, dispatches, task, admission, held>>
        /\ \A q \in Processes \ {p} :
              /\ mode'[q] = mode[q]
              /\ instance'[q] = instance[q]
              /\ status'[q] = status[q]
    BY <1>1, <1>t DEF Start, Mark, TypeOK, journal, admitting, dispatching
  <2>3. task[p] = "none" /\ admission[p] = "idle"
    BY <2>2 DEF IndInv, OwnershipInv
  <2>4. \A q \in Processes \ {p} : Owner(q)' = Owner(q) /\ (Owns(q)' <=> Owns(q))
    BY <2>2 DEF Owner, Owns
  <2>5. OwnershipInv'
    <3>1. receipt # NoReceipt => receipt'.owner[2] <= instance'[receipt'.owner[1]]
      <4>1. ASSUME receipt # NoReceipt
            PROVE  /\ receipt.owner[1] \in Processes
                   /\ receipt.owner[2] \in Nat
                   /\ receipt.owner[2] <= instance[receipt.owner[1]]
        BY <1>t, <4>1 DEF TypeOK, ReceiptType, Owners, IndInv, OwnershipInv
      <4>2. QED
        BY <1>t, <2>2, <4>1 DEF TypeOK
    <3>2. ASSUME NEW q \in Processes \ {p}
          PROVE  /\ (mode[q] = "down")' => task'[q] = "none" /\ admission'[q] = "idle"
                 /\ (mode[q] = "cancelling")' => task'[q] = "aborted"
                 /\ (task[q] # "none")' => Owns(q)'
                 /\ admission'[q] = "reserving" => /\ held'[q] # NoReceipt
                                                   /\ held'[q].state = "reserved"
                                                   /\ held'[q].owner = Owner(q)'
                 /\ admission'[q] = "reserved" => Owns(q)'
      BY <2>2, <2>4 DEF IndInv, OwnershipInv
    <3>3. QED
      BY <2>2, <2>3, <3>1, <3>2 DEF OwnershipInv
  <2>6. TaskShutsAdmission'
    BY <2>2, <2>3 DEF IndInv, TaskShutsAdmission, TriggerBlocked
  <2>7. DispatchIsRecorded'
    BY <2>1, <2>2, <2>3, <2>4 DEF IndInv, DispatchIsRecorded
  <2>8. ProgressInv' /\ AtMostOnce' /\ PairedRows'
    BY <2>1, <2>2 DEF IndInv, ProgressInv, AtMostOnce, PairedRows, PairedExecution
  <2>9. Kept
    BY <2>2, ClaimKept DEF SameClaim, Permit
  <2>10. QED
    BY <1>t, <2>5, <2>6, <2>7, <2>8, <2>9 DEF IndInv
<1>2. ASSUME NEW o \in Outcomes, Refresh(p, o) PROVE IndInv' /\ Kept
  <2>1. Quiet
    BY <1>2, <1>t DEF TypeOK, IndInv, OwnershipInv, TaskShutsAdmission, TriggerBlocked, Quiet,
       SameClaim, Refresh, Mark, journal, admitting, dispatching
  <2>2. QED
    BY <1>t, <2>1, QuietStep
<1>3. CASE AckCheck(p)
  <2>1. Quiet
    BY <1>3 DEF IndInv, OwnershipInv, TaskShutsAdmission, TriggerBlocked, Quiet,
       SameClaim, AckCheck, journal, flags, admitting, dispatching
  <2>2. QED
    BY <1>t, <2>1, QuietStep
<1>4. CASE AckStamp(p)
  <2>1. Quiet
    BY <1>4 DEF IndInv, OwnershipInv, TaskShutsAdmission, TriggerBlocked, Quiet,
       SameClaim, AckStamp, journal, flags, admitting, dispatching
  <2>2. QED
    BY <1>t, <2>1, QuietStep
<1>5. ASSUME NEW o \in Outcomes, AckCommit(p, o) PROVE IndInv' /\ Kept
  <2>1. /\ UNCHANGED <<cursorFile, dispatches, mode, instance, admission, held, task>>
        /\ \A q \in Processes : status[q] # "ready" => status'[q] # "ready"
    BY <1>5, <1>t DEF AckCommit, TypeOK, Mark, admitting, dispatching
  <2>2. CASE UNCHANGED journal
    <3>1. Quiet
      BY <2>1, <2>2 DEF IndInv, OwnershipInv, TaskShutsAdmission, TriggerBlocked, Quiet,
         SameClaim, journal
    <3>2. QED
      BY <1>t, <3>1, QuietStep
  <2>3. CASE ~UNCHANGED journal
    <3>1. /\ receipt # NoReceipt /\ receipt.state \in Live
          /\ receipt' = Receipt("cancelled", receipt.owner, NoLease)
          /\ execution' = "cancelled"
      BY <1>5, <2>3 DEF AckCommit, AckApplies, Eligible, Nonterminal
    <3>2. receipt' # NoReceipt /\ receipt'.state = "cancelled" /\ receipt'.owner = receipt.owner
      <4>1. receipt' \in ReceiptType
        BY <1>t, <3>1 DEF TypeOK, Receipt, ReceiptType, NoLease, Terminal
      <4>2. QED
        BY <3>1, <4>1, NoReceiptAssumption DEF Receipt
    <3>3. \A q \in Processes : Owner(q)' = Owner(q) /\ (Owns(q)' <=> Owns(q))
      BY <2>1, <3>1, <3>2 DEF Owner, Owns
    <3>4. OwnershipInv'
      BY <2>1, <3>1, <3>2, <3>3 DEF IndInv, OwnershipInv
    <3>5. TaskShutsAdmission'
      BY <2>1 DEF IndInv, TaskShutsAdmission, TriggerBlocked
    <3>6. DispatchIsRecorded'
      BY <2>1, <3>2, <3>3 DEF IndInv, DispatchIsRecorded
    <3>7. ProgressInv' /\ AtMostOnce' /\ PairedRows'
      BY <2>1, <3>1, <3>2 DEF IndInv, ProgressInv, AtMostOnce, PairedRows, PairedExecution
    <3>8. Kept
      <4>1. Promise!Cancel
        BY <2>1, <3>1, <3>2, Zenon DEF Promise!Cancel, Promise!Open, Live
      <4>2. QED
        BY <3>1, <3>2, <4>1 DEF Kept, Promise!Next, Live, Terminal
    <3>9. QED
      BY <1>t, <3>4, <3>5, <3>6, <3>7, <3>8 DEF IndInv
  <2>4. QED
    BY <2>2, <2>3
<1>6. ASSUME NEW written \in BOOLEAN, AckFinish(p, written) PROVE IndInv' /\ Kept
  <2>1. cursorFile => cursorFile'
    BY <1>6, Zenon DEF AckFinish, AdvanceCursor
  <2>2. Quiet
    BY <1>6, <1>t, <2>1 DEF TypeOK, IndInv, OwnershipInv, TaskShutsAdmission, TriggerBlocked, Quiet,
       SameClaim, AckFinish, Mark, journal, admitting, dispatching
  <2>3. QED
    BY <1>t, <2>2, QuietStep
<1>7. QED
  BY <1>1, <1>2, <1>3, <1>4, <1>5, <1>6 DEF Serve

\* The invariant holds when nothing has happened yet.
LEMMA InitInv == Init => IndInv
<1> SUFFICES ASSUME Init PROVE IndInv
  OBVIOUS
<1>1. TypeOK
  BY InitType
<1>2. OwnershipInv /\ TaskShutsAdmission /\ DispatchIsRecorded
  BY DEF Init, OwnershipInv, TaskShutsAdmission, DispatchIsRecorded
<1>3. ProgressInv /\ AtMostOnce /\ PairedRows
  BY DEF Init, ProgressInv, AtMostOnce, PairedRows
<1>4. QED
  BY <1>1, <1>2, <1>3 DEF IndInv

\* Every step keeps the invariant, outcomes and the promise.
LEMMA NextInv == IndInv /\ [Next]_vars => IndInv' /\ Kept
<1> SUFFICES ASSUME IndInv, [Next]_vars PROVE IndInv' /\ Kept
  OBVIOUS
<1>t. TypeOK'
  BY NextType DEF IndInv
<1>1. CASE \E p \in Processes : Admit(p) \/ Run(p) \/ Halt(p) \/ Serve(p)
  BY <1>1, AdmitKeepsInv, RunKeepsInv, HaltKeepsInv, ServeKeepsInv
<1>2. CASE ClearHistory
  <2>1. /\ UNCHANGED <<receipt, cursorFile, dispatches, mode, instance, status, admission, held,
                       task>>
        /\ ~Nonterminal(receipt) /\ execution' = NoExecution
    BY <1>2 DEF ClearHistory, flags, admitting, dispatching
  <2>2. OwnershipInv' /\ TaskShutsAdmission' /\ DispatchIsRecorded'
    BY <2>1 DEF IndInv, OwnershipInv, TaskShutsAdmission, TriggerBlocked, DispatchIsRecorded,
       Owns, Owner
  <2>3. ProgressInv' /\ AtMostOnce'
    BY <2>1 DEF IndInv, ProgressInv, AtMostOnce
  <2>4. PairedRows'
    BY <2>1 DEF IndInv, TypeOK, ReceiptType, Nonterminal, Live, PairedRows, PairedExecution
  <2>5. Kept
    BY <2>1, ClaimKept DEF SameClaim, Permit
  <2>6. QED
    BY <1>t, <2>2, <2>3, <2>4, <2>5 DEF IndInv
<1>3. CASE Tick \/ UNCHANGED vars
  <2>1. Quiet
    BY <1>3 DEF Tick, vars, IndInv, OwnershipInv, TaskShutsAdmission, TriggerBlocked, Quiet,
       SameClaim, journal, flags, admitting, dispatching
  <2>2. QED
    BY <1>t, <2>1, QuietStep
<1>4. QED
  BY <1>1, <1>2, <1>3 DEF Next

\* The invariant holds in every reachable state.
THEOREM Invariance == Spec => []IndInv
<1>1. IndInv /\ [Next]_vars => IndInv'
  BY NextInv
<1>2. QED
  BY InitInv, <1>1, PTL DEF Spec

\* Every reachable state is well typed, for any number of processes,
\* restarts, leases and journal outcomes.
THEOREM TypeCorrectness == Spec => []TypeOK
<1>1. IndInv => TypeOK
  BY DEF IndInv
<1>2. QED
  BY <1>1, Invariance, PTL

\* run_one_time_dispatch never enters the workflow dispatcher twice for one
\* schedule, whatever the processes, crashes and journal errors.
THEOREM DispatchedAtMostOnce == Spec => []AtMostOnce
<1>1. IndInv => AtMostOnce
  BY DEF IndInv
<1>2. QED
  BY <1>1, Invariance, PTL

\* A task that reaches the dispatcher has its running receipt and its fire
\* on disk first.
THEOREM DispatchRecorded == Spec => []DispatchIsRecorded
<1>1. IndInv => DispatchIsRecorded
  BY DEF IndInv
<1>2. QED
  BY <1>1, Invariance, PTL

\* schedule_occurrences and schedule_executions never disagree.
THEOREM RowsArePaired == Spec => []PairedRows
<1>1. IndInv => PairedRows
  BY DEF IndInv
<1>2. QED
  BY <1>1, Invariance, PTL

\* No trigger of the schedule is admitted while its task is tracked.
THEOREM TaskExcludesAdmission == Spec => []TaskShutsAdmission
<1>1. IndInv => TaskShutsAdmission
  BY DEF IndInv
<1>2. QED
  BY <1>1, Invariance, PTL

\* No step takes a receipt away from its owner, and none replaces a recorded
\* outcome (transition_schedule_occurrence and
\* acknowledge_schedule_occurrence against each other).
THEOREM OutcomesAreFinal == Spec => OutcomeIsFinal
<1>1. IndInv /\ [Next]_vars =>
        [receipt # NoReceipt =>
            /\ receipt' # NoReceipt
            /\ receipt'.owner = receipt.owner
            /\ receipt.state \in Terminal => receipt' = receipt]_vars
  BY NextInv DEF Kept
<1>2. QED
  BY <1>1, Invariance, PTL DEF Spec, OutcomeIsFinal

\* The processes, whatever they do, implement DispatchOnce.
THEOREM Refinement == Spec => KeepsPromise
<1>1. Init => Promise!Init
  BY ZenonT(20) DEF Init, Promise!Init
<1>2. IndInv /\ [Next]_vars => [Promise!Next]_(Promise!vars)
  BY NextInv DEF Kept
<1>3. QED
  BY <1>1, <1>2, Invariance, PTL DEF Spec, KeepsPromise, Promise!Spec

(***************************************************************************)
(* Claims and leases: ClaimInv, and the two action properties about who    *)
(* may end an occurrence.                                                  *)
(***************************************************************************)
\* Every step of admission keeps the claims: what is marked consumed has a
\* receipt, or its cursor is in the file.
LEMMA AdmitKeepsClaims ==
    ASSUME IndInv, ClaimInv, Kept, TypeOK', NEW p \in Processes, Admit(p)
    PROVE  ClaimInv'
<1> USE DEF IndInv, TypeOK, ClaimInv, ConsumedHasEvidence, Kept, Mark
<1>1. CASE Fire(p)
  BY <1>1 DEF Fire, journal, flags, admitting, dispatching, acking
<1>2. CASE Suppress(p)
  BY <1>2 DEF Suppress, Take, journal, flags, dispatching, acking
<1>3. ASSUME NEW history \in BOOLEAN, Unavailable(p, history) PROVE ClaimInv'
  BY <1>3 DEF Unavailable, Take, journal, dispatching, acking
<1>4. ASSUME NEW written \in BOOLEAN, Refuse(p, written) PROVE ClaimInv'
  BY <1>4 DEF Refuse, Take, AdvanceCursor, journal, dispatching, acking
<1>5. CASE Propose(p)
  BY <1>5 DEF Propose, Take, journal, flags, dispatching, acking
<1>6. ASSUME NEW o \in Outcomes, Reserve(p, o) PROVE ClaimInv'
  BY <1>6 DEF Reserve, Inserts, journal, dispatching, acking
<1>7. ASSUME NEW written \in BOOLEAN, AdmitExisting(p, written) PROVE ClaimInv'
  BY <1>7 DEF AdmitExisting, AdvanceCursor, EndAdmission, journal, dispatching, acking
<1>8. ASSUME NEW found \in BOOLEAN, NEW written \in BOOLEAN, NEW r \in Outcomes,
             AdmitUnknown(p, found, written, r)
      PROVE  ClaimInv'
  BY <1>8 DEF AdmitUnknown, AdvanceCursor, EndAdmission, Owns, dispatching, acking
<1>9. ASSUME NEW written \in BOOLEAN, NEW r \in Outcomes, AdmitReserved(p, written, r)
      PROVE  ClaimInv'
  BY <1>9 DEF AdmitReserved, AdvanceCursor, EndAdmission, OwnershipInv, Owns, acking
<1>10. QED
  BY <1>1, <1>2, <1>3, <1>4, <1>5, <1>6, <1>7, <1>8, <1>9 DEF Admit

\* Every step of a dispatch task keeps the claims.
LEMMA RunKeepsClaims ==
    ASSUME IndInv, ClaimInv, Kept, TypeOK', NEW p \in Processes, Run(p)
    PROVE  ClaimInv'
<1> USE DEF IndInv, TypeOK, ClaimInv, ConsumedHasEvidence, Kept, Mark, EndTask
<1>1. ASSUME NEW o \in Outcomes, Renew(p, o) PROVE ClaimInv'
  BY <1>1 DEF Renew, flags, admitting, dispatching, acking
<1>2. ASSUME NEW o \in Outcomes, NEW r \in Outcomes, LoseLeaseWaiting(p, o, r) PROVE ClaimInv'
  BY <1>2 DEF LoseLeaseWaiting, admitting, acking
<1>3. ASSUME NEW o \in Outcomes, LoseLeaseDispatching(p, o) PROVE ClaimInv'
  BY <1>3 DEF LoseLeaseDispatching, admitting, acking
<1>4. ASSUME NEW o \in Outcomes, NEW r \in Outcomes, Begin(p, o, r) PROVE ClaimInv'
  BY <1>4 DEF Begin, admitting, acking
<1>5. CASE Dispatch(p)
  BY <1>5 DEF Dispatch, journal, flags, admitting, acking
<1>6. ASSUME NEW r \in Outcomes, DispatchSkipped(p, r) PROVE ClaimInv'
  BY <1>6 DEF DispatchSkipped, admitting, acking
<1>7. ASSUME NEW result \in {"completed", "failed"}, DispatchReturns(p, result) PROVE ClaimInv'
  BY <1>7 DEF DispatchReturns, journal, flags, admitting, acking
<1>8. ASSUME NEW o \in Outcomes, RecordOutcome(p, o) PROVE ClaimInv'
  BY <1>8 DEF RecordOutcome, OwnershipInv, Owns, admitting, acking
<1>9. QED
  BY <1>1, <1>2, <1>3, <1>4, <1>5, <1>6, <1>7, <1>8 DEF Run

\* Stopping a manager, or the death of its process, keeps the claims.
LEMMA HaltKeepsClaims ==
    ASSUME IndInv, ClaimInv, Kept, TypeOK', NEW p \in Processes, Halt(p)
    PROVE  ClaimInv'
<1> USE DEF IndInv, TypeOK, ClaimInv, ConsumedHasEvidence, Kept, Mark, EndTask, EndAdmission
<1>1. ASSUME NEW inFlight \in BOOLEAN, StopLoops(p, inFlight) PROVE ClaimInv'
  BY <1>1 DEF StopLoops, journal, flags, dispatching, acking
<1>2. ASSUME NEW r \in Outcomes, StopAdmissions(p, r) PROVE ClaimInv'
  BY <1>2 DEF StopAdmissions, dispatching, acking
<1>3. ASSUME NEW inFlight \in BOOLEAN, StopTasks(p, inFlight) PROVE ClaimInv'
  BY <1>3 DEF StopTasks, journal, flags, admitting, acking
<1>4. ASSUME NEW o \in Outcomes, NEW r \in Outcomes, StopCancels(p, o, r) PROVE ClaimInv'
  BY <1>4 DEF StopCancels, OwnershipInv, Owns, journal, admitting, acking
<1>5. CASE Exit(p)
  BY <1>5 DEF Exit, journal
<1>6. QED
  BY <1>1, <1>2, <1>3, <1>4, <1>5 DEF Halt

\* Startup, listings and acknowledgements keep the claims.
LEMMA ServeKeepsClaims ==
    ASSUME IndInv, ClaimInv, Kept, TypeOK', NEW p \in Processes, Serve(p)
    PROVE  ClaimInv'
<1> USE DEF IndInv, TypeOK, ClaimInv, ConsumedHasEvidence, Kept, Mark
<1>1. ASSUME NEW readable \in BOOLEAN, NEW written \in BOOLEAN, Start(p, readable, written)
      PROVE  ClaimInv'
  BY <1>1 DEF Start, Reconciled, Eligible, Nonterminal, journal, admitting, dispatching, acking
<1>2. ASSUME NEW o \in Outcomes, Refresh(p, o) PROVE ClaimInv'
  BY <1>2 DEF Refresh, journal, admitting, dispatching, acking
<1>3. CASE AckCheck(p)
  BY <1>3 DEF AckCheck, journal, flags, admitting, dispatching
<1>4. CASE AckStamp(p)
  BY <1>4 DEF AckStamp, journal, flags, admitting, dispatching
<1>5. ASSUME NEW o \in Outcomes, AckCommit(p, o) PROVE ClaimInv'
  BY <1>5 DEF AckCommit, admitting, dispatching, journal
<1>6. ASSUME NEW written \in BOOLEAN, AckFinish(p, written) PROVE ClaimInv'
  BY <1>6 DEF AckFinish, AdvanceCursor, journal, admitting, dispatching
<1>7. QED
  BY <1>1, <1>2, <1>3, <1>4, <1>5, <1>6 DEF Serve

\* Every step keeps the claims.
LEMMA NextClaims == IndInv /\ ClaimInv /\ [Next]_vars => ClaimInv'
<1> SUFFICES ASSUME IndInv, ClaimInv, [Next]_vars PROVE ClaimInv'
  OBVIOUS
<1>k. TypeOK' /\ Kept
  BY NextInv DEF IndInv
<1>1. CASE \E p \in Processes : Admit(p) \/ Run(p) \/ Halt(p) \/ Serve(p)
  BY <1>1, <1>k, AdmitKeepsClaims, RunKeepsClaims, HaltKeepsClaims, ServeKeepsClaims
<1>2. CASE ClearHistory
  BY <1>2 DEF ClearHistory, ClaimInv, ConsumedHasEvidence, flags, admitting, dispatching, acking
<1>3. CASE Tick
  BY <1>3 DEF Tick, IndInv, TypeOK, ClaimInv, ConsumedHasEvidence, journal, flags, admitting,
     dispatching, acking
<1>4. CASE UNCHANGED vars
  BY <1>4 DEF vars, ClaimInv, ConsumedHasEvidence, journal, flags, admitting, dispatching, acking
<1>5. QED
  BY <1>1, <1>2, <1>3, <1>4 DEF Next

\* Claims are founded in every reachable state.
THEOREM ClaimsInvariance == Spec => []ClaimInv
<1>1. Init => ClaimInv
  BY DEF Init, ClaimInv, ConsumedHasEvidence
<1>2. QED
  BY <1>1, NextClaims, Invariance, PTL DEF Spec

\* mark_consumed, wherever it is called, finds a receipt in the journal or
\* the fire in the schedule file: no schedule is dropped on a lost claim.
THEOREM ConsumptionHasEvidence == Spec => []ConsumedHasEvidence
<1>1. ClaimInv => ConsumedHasEvidence
  BY DEF ClaimInv
<1>2. QED
  BY <1>1, ClaimsInvariance, PTL

\* The step ends an unfinished occurrence.
Ends == Nonterminal(receipt) /\ receipt'.state \in Terminal

\* The owner's own task, its lease not lost, has a result or is being stopped.
OwnerEnds ==
    \E p \in Processes :
        Owns(p) /\ healthy[p] /\ task[p] \in {"completed", "failed", "aborted"}

\* An acknowledgement ends an occurrence whose lease was over when it was
\* stamped.
OperatorEnds ==
    \E q \in Processes :
        ack[q] = "stamped" /\ ack'[q] # "stamped" /\ receipt.lease <= ackAt[q]

\* A row that changes at most its lease does not end.
LEMMA SameClaimEndsNothing ==
    ASSUME SameClaim(receipt, receipt'), Ends PROVE FALSE
BY DEF SameClaim, Ends, Nonterminal, Live, Terminal

\* No step of admission ends an occurrence.
LEMMA AdmitEndsNothing ==
    ASSUME IndInv, NEW p \in Processes, Admit(p), Ends PROVE FALSE
<1>1. receipt \in Rows /\ receipt # NoReceipt
  BY DEF IndInv, TypeOK, Rows, Ends, Nonterminal
<1>2. CASE receipt' = receipt
  BY <1>2, SameClaimEndsNothing DEF SameClaim
<1>3. ASSUME NEW r, receipt' = Released(p, receipt, r) PROVE FALSE
  BY <1>1, <1>3, LeaseOnly, SameClaimEndsNothing DEF IndInv
<1>4. ASSUME NEW o \in Outcomes, Reserve(p, o) PROVE receipt' = receipt
  BY <1>1, <1>4 DEF Reserve, Inserts, journal
<1>5. ASSUME NEW found \in BOOLEAN, NEW written \in BOOLEAN, NEW r \in Outcomes,
             AdmitUnknown(p, found, written, r)
      PROVE  receipt' = receipt \/ receipt' = Released(p, receipt, r)
  BY <1>5 DEF AdmitUnknown
<1>6. ASSUME NEW written \in BOOLEAN, NEW r \in Outcomes, AdmitReserved(p, written, r)
      PROVE  receipt' = receipt \/ receipt' = Released(p, receipt, r)
  BY <1>6 DEF AdmitReserved
<1>7. CASE \/ Fire(p) \/ Suppress(p) \/ Propose(p)
           \/ \E history \in BOOLEAN : Unavailable(p, history)
           \/ \E written \in BOOLEAN : Refuse(p, written) \/ AdmitExisting(p, written)
  BY <1>2, <1>7 DEF Fire, Suppress, Propose, Unavailable, Refuse, AdmitExisting, journal
<1>8. QED
  BY <1>2, <1>3, <1>4, <1>5, <1>6, <1>7 DEF Admit

\* Of a dispatch task only a recorded result ends the occurrence.
LEMMA RunEnds ==
    ASSUME IndInv, ClaimInv, NEW p \in Processes, Run(p), Ends PROVE OwnerEnds
<1>1. receipt \in Rows /\ receipt # NoReceipt
  BY DEF IndInv, TypeOK, Rows, Ends, Nonterminal
<1>2. ASSUME receipt' = receipt PROVE FALSE
  BY <1>2, SameClaimEndsNothing DEF SameClaim
<1>3. ASSUME SameClaim(receipt, receipt') PROVE FALSE
  BY <1>3, SameClaimEndsNothing
<1>4. ASSUME NEW o \in Outcomes, Renew(p, o) \/ LoseLeaseDispatching(p, o) PROVE FALSE
  BY <1>1, <1>3, <1>4, LeaseOnly DEF Renew, LoseLeaseDispatching, IndInv
<1>5. ASSUME NEW o \in Outcomes, NEW r \in Outcomes, LoseLeaseWaiting(p, o, r) PROVE FALSE
  <2> DEFINE renewed == Renewed(p, receipt, o)
  <2>1. renewed \in Rows /\ SameClaim(receipt, renewed)
    BY <1>1, LeaseOnly DEF IndInv
  <2> HIDE DEF renewed
  <2>2. SameClaim(renewed, Released(p, renewed, r))
    BY <2>1, LeaseOnly DEF IndInv
  <2>3. receipt' = Released(p, renewed, r)
    BY <1>5 DEF LoseLeaseWaiting, renewed
  <2>4. QED
    BY <1>3, <2>1, <2>2, <2>3 DEF SameClaim
<1>6. ASSUME NEW o \in Outcomes, NEW r \in Outcomes, Begin(p, o, r) PROVE FALSE
  <2> DEFINE moved == TransitionReceipt(p, "reserved", "running", o)
  <2>1. moved \in Rows /\ (moved = receipt \/ (moved # NoReceipt /\ moved.state = "running"))
    BY TransitionMoves DEF IndInv
  <2> HIDE DEF moved
  <2>2. SameClaim(moved, Released(p, moved, r))
    BY <2>1, LeaseOnly DEF IndInv
  <2>3. receipt' = moved \/ receipt' = Released(p, moved, r)
    BY <1>6 DEF Begin, moved
  <2>4. QED
    BY <1>1, <2>1, <2>2, <2>3 DEF SameClaim, Ends, Nonterminal, Live, Terminal
<1>7. ASSUME NEW r \in Outcomes, DispatchSkipped(p, r) PROVE FALSE
  <2>1. receipt' = receipt \/ receipt' = Released(p, receipt, r)
    BY <1>7 DEF DispatchSkipped
  <2>2. SameClaim(receipt, Released(p, receipt, r))
    BY <1>1, LeaseOnly DEF IndInv
  <2>3. QED
    BY <1>2, <1>3, <2>1, <2>2
<1>8. CASE Dispatch(p) \/ \E result \in {"completed", "failed"} : DispatchReturns(p, result)
  BY <1>2, <1>8 DEF Dispatch, DispatchReturns, journal
<1>9. ASSUME NEW o \in Outcomes, RecordOutcome(p, o) PROVE OwnerEnds
  <2>1. task[p] \in {"completed", "failed"}
    BY <1>9 DEF RecordOutcome
  <2>2. Owns(p) /\ healthy[p]
    BY <2>1 DEF IndInv, OwnershipInv, ClaimInv
  <2>3. QED
    BY <2>1, <2>2 DEF OwnerEnds
<1>10. QED
  BY <1>4, <1>5, <1>6, <1>7, <1>8, <1>9 DEF Run

\* A stop ends the occurrence only for its own task, and only while that task
\* has its lease.
LEMMA HaltEnds ==
    ASSUME IndInv, ClaimInv, NEW p \in Processes, Halt(p), Ends PROVE OwnerEnds
<1>1. receipt \in Rows /\ receipt # NoReceipt
  BY DEF IndInv, TypeOK, Rows, Ends, Nonterminal
<1>2. ASSUME receipt' = receipt PROVE FALSE
  BY <1>2, SameClaimEndsNothing DEF SameClaim
<1>3. ASSUME SameClaim(receipt, receipt') PROVE FALSE
  BY <1>3, SameClaimEndsNothing
<1>4. ASSUME NEW inFlight \in BOOLEAN, StopLoops(p, inFlight) PROVE receipt' = receipt
  BY <1>1, <1>4 DEF StopLoops, Inserts, journal
<1>5. ASSUME NEW r \in Outcomes, StopAdmissions(p, r) PROVE FALSE
  <2>1. receipt' = receipt \/ receipt' = Released(p, receipt, r)
    BY <1>5 DEF StopAdmissions
  <2>2. SameClaim(receipt, Released(p, receipt, r))
    BY <1>1, LeaseOnly DEF IndInv
  <2>3. QED
    BY <1>2, <1>3, <2>1, <2>2
<1>6. ASSUME NEW inFlight \in BOOLEAN, StopTasks(p, inFlight) PROVE OwnerEnds
  <2>1. CASE task[p] \in {"completed", "failed"}
    BY <2>1 DEF OwnerEnds, IndInv, OwnershipInv, ClaimInv
  <2>2. CASE task[p] = "waiting"
    <3> DEFINE moved == TransitionReceipt(p, "reserved", "running", "ok")
    <3>1. moved = receipt \/ (moved # NoReceipt /\ moved.state = "running")
      BY TransitionMoves DEF IndInv
    <3>2. receipt' = receipt \/ receipt' = moved
      BY <1>6, <2>2 DEF StopTasks, journal
    <3> HIDE DEF moved
    <3>3. QED
      BY <1>2, <3>1, <3>2 DEF Ends, Terminal
  <2>3. CASE task[p] \notin {"waiting", "completed", "failed"}
    BY <1>2, <1>6, <2>3 DEF StopTasks, journal
  <2>4. QED
    BY <2>1, <2>2, <2>3
<1>7. ASSUME NEW o \in Outcomes, NEW r \in Outcomes, StopCancels(p, o, r) PROVE OwnerEnds
  <2>1. task[p] = "aborted" /\ Owns(p)
    BY <1>7 DEF StopCancels, IndInv, OwnershipInv
  <2>2. CASE healthy[p]
    BY <2>1, <2>2 DEF OwnerEnds
  <2>3. CASE ~healthy[p]
    BY <1>2, <1>7, <2>3 DEF StopCancels, journal
  <2>4. QED
    BY <2>2, <2>3
<1>8. CASE Exit(p)
  BY <1>2, <1>8 DEF Exit, journal
<1>9. QED
  BY <1>2, <1>4, <1>5, <1>6, <1>7, <1>8 DEF Halt

\* Of what the service does only an acknowledgement ends an occurrence, and
\* only one whose lease was over at its stamp.
LEMMA ServeEnds ==
    ASSUME IndInv, NEW p \in Processes, Serve(p), Ends PROVE OperatorEnds
<1>1. receipt # NoReceipt
  BY DEF Ends, Nonterminal
<1>2. ASSUME receipt' = receipt PROVE FALSE
  BY <1>2, SameClaimEndsNothing DEF SameClaim
<1>3. ASSUME NEW o \in Outcomes, AckCommit(p, o), receipt' # receipt PROVE OperatorEnds
  <2>1. ack[p] = "stamped" /\ Eligible(receipt, ackAt[p])
    BY <1>3 DEF AckCommit, AckApplies, journal
  <2>2. ack'[p] # "stamped"
    BY <1>3 DEF AckCommit, IndInv, TypeOK
  <2>3. QED
    BY <2>1, <2>2 DEF OperatorEnds, Eligible
<1>4. CASE \/ \E readable, written \in BOOLEAN : Start(p, readable, written)
           \/ \E o \in Outcomes : Refresh(p, o)
           \/ AckCheck(p) \/ AckStamp(p)
           \/ \E written \in BOOLEAN : AckFinish(p, written)
  BY <1>2, <1>4 DEF Start, Refresh, AckCheck, AckStamp, AckFinish, journal
<1>5. QED
  BY <1>2, <1>3, <1>4 DEF Serve

\* An occurrence is ended by its owner or by an operator, and by nobody else.
LEMMA WhoEnds ==
    ASSUME IndInv, ClaimInv, [Next]_vars, Ends PROVE OwnerEnds \/ OperatorEnds
<1>1. CASE \E p \in Processes : Admit(p) \/ Run(p) \/ Halt(p) \/ Serve(p)
  BY <1>1, AdmitEndsNothing, RunEnds, HaltEnds, ServeEnds
<1>2. CASE ClearHistory \/ Tick \/ UNCHANGED vars
  BY <1>2, SameClaimEndsNothing DEF ClearHistory, Tick, vars, journal, SameClaim
<1>3. QED
  BY <1>1, <1>2 DEF Next

\* acknowledge_schedule_occurrence compares the lease inside its transaction,
\* so no operator ends an occurrence whose owner renewed in the meantime.
THEOREM LiveLeasesAreRespected == Spec => LiveLeaseRespected
<1> DEFINE Respected ==
        (Nonterminal(receipt) /\ receipt.lease > clock /\ receipt'.state \in Terminal) =>
            \E p \in Processes : Owns(p) /\ task[p] \in {"completed", "failed", "aborted"}
<1>1. ASSUME IndInv, ClaimInv, [Next]_vars PROVE [Respected]_vars
  <2> SUFFICES ASSUME Ends, receipt.lease > clock
               PROVE  \E p \in Processes :
                          Owns(p) /\ task[p] \in {"completed", "failed", "aborted"}
    BY DEF Ends
  <2>1. ~OperatorEnds
    <3> SUFFICES ASSUME NEW q \in Processes, receipt.lease <= ackAt[q] PROVE FALSE
      BY DEF OperatorEnds
    <3>1. receipt.lease \in Int /\ ackAt[q] \in Nat /\ clock \in Nat /\ ackAt[q] <= clock
      BY <1>1 DEF IndInv, TypeOK, ReceiptType, Ends, Nonterminal, ClaimInv
    <3>2. QED
      BY <3>1
  <2>2. OwnerEnds
    BY <1>1, <2>1, WhoEnds
  <2>3. QED
    BY <2>2 DEF OwnerEnds
<1>2. QED
  BY <1>1, Invariance, ClaimsInvariance, PTL DEF Spec, LiveLeaseRespected

\* lease_healthy and terminal_allowed: a task that lost its lease ends the
\* occurrence neither by its result nor by being stopped.
THEOREM LostLeasesWriteNothing == Spec => LostLeaseWritesNothing
<1> DEFINE Nothing ==
        \A p \in Processes :
            (Owns(p) /\ ~healthy[p] /\ Nonterminal(receipt) /\ receipt'.state \in Terminal) =>
                \E q \in Processes : ack[q] = "stamped" /\ ack'[q] # "stamped"
<1>1. ASSUME IndInv, ClaimInv, [Next]_vars PROVE [Nothing]_vars
  <2> SUFFICES ASSUME NEW p \in Processes, Owns(p), ~healthy[p], Ends
               PROVE  \E q \in Processes : ack[q] = "stamped" /\ ack'[q] # "stamped"
    BY DEF Ends
  <2>1. ~OwnerEnds
    BY DEF OwnerEnds, Owns, Owner
  <2>2. OperatorEnds
    BY <1>1, <2>1, WhoEnds
  <2>3. QED
    BY <2>2 DEF OperatorEnds
<1>2. QED
  BY <1>1, Invariance, ClaimsInvariance, PTL DEF Spec, LostLeaseWritesNothing
=============================================================================
