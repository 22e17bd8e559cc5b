------------------------- MODULE ScheduleRetirement -------------------------
(***************************************************************************)
(* Retiring the file-backed schedules of a removed engine when the service  *)
(* starts.  Four durable places have to agree and none of them can be       *)
(* written together with another: the active schedule file, the archive     *)
(* file, the history rows and proof in SQLite, and the receipt whose phases  *)
(* drive the work; a completion certificate closes it.  A start that finds   *)
(* the receipt unfinished carries on from its phase, and a start that finds  *)
(* the places contradicting each other refuses to serve.                     *)
(*                                                                           *)
(* Once the retirement is complete the processes that serve the schedules    *)
(* write the active file, each guarded by the generation it saw last.  While *)
(* no process runs an operator may edit the file, restore copies or remove    *)
(* evidence.  An I/O error ends a start as a death does, before or after the  *)
(* write it reports.                                                         *)
(***************************************************************************)
EXTENDS Naturals, FiniteSets

CONSTANTS
    Procs,        \* service processes sharing the files and the database
    Ids,          \* schedule identities
    OldIds,       \* those whose schedule names the removed engine at first
    Storages,     \* what a start may find of the database
    MaxFaults,    \* bound: deaths and I/O errors
    MaxOffline,   \* bound: what the operator does while nothing runs
    MaxVersion    \* bound: versions of a schedule

RetirementAssumption ==
    /\ IsFiniteSet(Procs) /\ IsFiniteSet(Ids) /\ OldIds \subseteq Ids
    /\ Storages \subseteq {"available", "notConfigured", "unavailable"}
    /\ MaxFaults \in Nat /\ MaxOffline \in Nat /\ MaxVersion \in Nat \ {0}
    /\ "nobody" \notin Procs

Nobody == "nobody"

Entry == [id : Ids, engine : {"old", "new"}, version : 0..MaxVersion]

\* The phases of a receipt, in order; "none" is a receipt that does not exist.
Pending == <<"archive", "history", "rewrite", "completion", "completed">>

VARIABLES
    active,    \* the schedules of the active file
    archive,   \* the archive file: whether it exists, and its schedules
    receipt,   \* the receipt's phase and plan
    cert,      \* the operation the completion certificate names, 0 for none
    proof,     \* the operation and identities SQLite proves retired
    history,   \* identities that have live history rows
    ops,       \* operations begun so far
    lease,     \* who holds the schedule path lease
    pc,        \* where each process stands
    storage,   \* what its start found of the database
    served,    \* the schedules it registered
    seen,      \* the generation of the active file it expects
    banned,    \* the identities it refuses
    faults, offline,
    written    \* the schedules the accepted edits add up to

files == <<active, archive, receipt, cert>>
database == <<proof, history>>
memory == <<storage, served, seen, banned>>
bounds == <<faults, offline>>
vars == <<files, database, ops, lease, pc, memory, bounds, written>>

IdsOf(entries) == {e.id : e \in entries}

OldEntries(entries) == {e \in entries : e.engine = "old"}

NoReceipt ==
    [phase |-> "none", op |-> 0, pre |-> {}, post |-> {}, archived |-> {},
     ids |-> {}, history |-> "waived"]

NoProof == [op |-> 0, ids |-> {}]

FirstFile ==
    {[id |-> i, engine |-> IF i \in OldIds THEN "old" ELSE "new", version |-> 0] : i \in Ids}

TypeOK ==
    /\ active \subseteq Entry
    /\ archive \in [present : BOOLEAN, entries : SUBSET Entry]
    /\ receipt.phase \in {"none"} \cup {Pending[n] : n \in 1..5}
    /\ receipt.op \in 0..ops /\ receipt.ids \subseteq Ids
    /\ receipt.pre \subseteq Entry /\ receipt.post \subseteq Entry
    /\ receipt.history \in {"database", "waived", "empty"}
    /\ cert \in 0..ops /\ proof.op \in 0..ops /\ proof.ids \subseteq Ids
    /\ history \subseteq Ids /\ ops \in Nat
    /\ lease \in Procs \cup {Nobody}
    /\ pc \in [Procs -> {"down", "start", "loop", "mark", "serving"}]
    /\ \A p \in Procs : (lease = p) <=> pc[p] \in {"start", "loop", "mark"}
    /\ storage \in [Procs -> {"available", "notConfigured", "unavailable"}]
    /\ \A p \in Procs : served[p] \subseteq Entry /\ seen[p] \subseteq Entry /\ banned[p] \subseteq Ids
    /\ faults \in 0..MaxFaults /\ offline \in 0..MaxOffline
    /\ written \subseteq Entry

Init ==
    /\ active = FirstFile
    /\ archive = [present |-> FALSE, entries |-> {}]
    /\ receipt = NoReceipt /\ cert = 0
    /\ proof = NoProof /\ history = Ids
    /\ ops = 0 /\ lease = Nobody
    /\ pc = [p \in Procs |-> "down"]
    /\ storage = [p \in Procs |-> "unavailable"]
    /\ served = [p \in Procs |-> {}] /\ seen = [p \in Procs |-> {}]
    /\ banned = [p \in Procs |-> {}]
    /\ faults = 0 /\ offline = 0
    /\ written = {e \in FirstFile : e.engine = "new"}

-----------------------------------------------------------------------------
(* A start, from the lease to its first look at the evidence.                *)

\* acquire_schedule_path_lease; the lease is kept until the schedules found
\* are registered.
Acquire(p) ==
    /\ pc[p] = "down" /\ lease = Nobody
    /\ lease' = p /\ pc' = [pc EXCEPT ![p] = "start"]
    /\ \E s \in Storages : storage' = [storage EXCEPT ![p] = s]
    /\ UNCHANGED <<files, database, ops, served, seen, banned, bounds, written>>

\* An error of any kind: the start fails and gives the lease back.
Refuse(p) ==
    /\ pc' = [pc EXCEPT ![p] = "down"] /\ lease' = Nobody
    /\ UNCHANGED <<files, database, ops, memory, bounds, written>>

\* Mutant: only the engine a schedule names is looked at.
ProhibitedEngine(entries, ids) == OldEntries(entries) /= {}

\* prohibited_active_ids
Prohibited(entries, ids) == OldEntries(entries) /= {} \/ IdsOf(entries) \cap ids /= {}

\* reject_independent_evidence_without_receipt
NoEvidence(p) ==
    /\ ~archive.present /\ cert = 0
    /\ storage[p] = "available" => proof = NoProof
    /\ storage[p] /= "unavailable"

\* initial_receipt: the plan is the exact files before and after.
Plan(p) ==
    LET old == OldEntries(active)
    IN  [phase |-> "archive", op |-> ops + 1, pre |-> active, post |-> active \ old,
         archived |-> archive.entries \cup old, ids |-> IdsOf(old),
         history |-> IF storage[p] = "notConfigured" THEN "waived"
                     ELSE IF old = {} THEN "empty" ELSE "database"]

Begin(p) ==
    /\ pc[p] = "start"
    /\ \/ /\ receipt.phase /= "none"
          /\ pc' = [pc EXCEPT ![p] = "loop"]
          /\ UNCHANGED <<files, database, ops, lease, memory, bounds, written>>
       \/ /\ receipt.phase = "none" /\ NoEvidence(p)
          /\ receipt' = Plan(p) /\ ops' = ops + 1
          /\ pc' = [pc EXCEPT ![p] = "loop"]
          /\ UNCHANGED <<active, archive, cert, database, lease, memory, bounds, written>>
       \/ receipt.phase = "none" /\ ~NoEvidence(p) /\ Refuse(p)

-----------------------------------------------------------------------------
(* The phases.  "loop" looks at the evidence and does the phase's work,       *)
(* "mark" moves the receipt on.                                              *)

\* schedule_retirement_history_proof reports live rows of a proven identity.
ProofExact == proof.op = receipt.op /\ proof.ids = receipt.ids /\ history \cap proof.ids = {}

\* reconcile_durable_authorities: committed says whether the proof may be
\* missing, may exist, or must exist.
Reconciled(p, committed) ==
    \/ /\ receipt.history = "database" /\ storage[p] = "available"
       /\ \/ proof = NoProof /\ committed /= "must"
          \/ proof /= NoProof /\ ProofExact /\ committed /= "before"
    \/ receipt.history = "waived" /\ storage[p] = "notConfigured"
    \/ receipt.history = "empty" /\ storage[p] = "available" /\ proof = NoProof

ArchivePost == archive = [present |-> TRUE, entries |-> receipt.archived]

\* The start succeeds: what it found is registered and the lease given back.
Serve(p) ==
    /\ pc' = [pc EXCEPT ![p] = "serving"] /\ lease' = Nobody
    /\ served' = [served EXCEPT ![p] = active] /\ seen' = [seen EXCEPT ![p] = active]
    /\ banned' = [banned EXCEPT ![p] = receipt.ids]

\* reconcile_completed_evidence: a certificate ends the work in any phase.
CertifiedOk(p) ==
    /\ cert = receipt.op /\ Reconciled(p, "must")
    /\ ~Prohibited(active, receipt.ids) /\ ArchivePost

Certified(p) ==
    /\ pc[p] = "loop" /\ receipt.phase /= "completed" /\ cert /= 0
    /\ \/ /\ CertifiedOk(p)
          /\ receipt' = [receipt EXCEPT !.phase = "completed"]
          /\ Serve(p)
          /\ UNCHANGED <<active, archive, cert, database, ops, storage, bounds, written>>
       \/ ~CertifiedOk(p) /\ Refuse(p)

InPhase(p, phase) == pc[p] = "loop" /\ receipt.phase = phase /\ (cert = 0 \/ phase = "completed")

ToMark(p) == pc' = [pc EXCEPT ![p] = "mark"]

\* Mutant: the schedules leave the active file before they are archived.
ArchiveLast(p) ==
    /\ InPhase(p, "archive")
    /\ active' = receipt.post /\ ToMark(p)
    /\ UNCHANGED <<archive, receipt, cert, database, ops, lease, memory, bounds, written>>

\* Mutant: an archive that was already written is a conflict.
ArchiveOnce(p) ==
    /\ InPhase(p, "archive")
    /\ \/ /\ Reconciled(p, "before") /\ active = receipt.pre /\ ~archive.present
          /\ archive' = [present |-> TRUE, entries |-> receipt.archived]
          /\ ToMark(p)
          /\ UNCHANGED <<active, receipt, cert, database, ops, lease, memory, bounds, written>>
       \/ archive.present /\ Refuse(p)

\* The archive goes from its preimage, which is always absent, to its
\* postimage, or is the postimage already.
ArchiveReady(p) ==
    /\ Reconciled(p, "before") /\ active = receipt.pre
    /\ ~archive.present \/ ArchivePost

ArchiveStep(p) ==
    /\ InPhase(p, "archive")
    /\ \/ /\ ArchiveReady(p)
          /\ archive' = [present |-> TRUE, entries |-> receipt.archived]
          /\ ToMark(p)
          /\ UNCHANGED <<active, receipt, cert, database, ops, lease, memory, bounds, written>>
       \/ ~ArchiveReady(p) /\ Refuse(p)

HistoryReady(p) == Reconciled(p, "may") /\ active = receipt.pre /\ ArchivePost

\* archive_schedule_history_for_retired_engine_operation: rows and proof in
\* one transaction, or nothing when the proof is there.
HistoryStep(p) ==
    /\ InPhase(p, "history")
    /\ \/ /\ HistoryReady(p)
          /\ IF receipt.history = "database"
             THEN /\ proof' = [op |-> receipt.op, ids |-> receipt.ids]
                  /\ history' = history \ receipt.ids
             ELSE UNCHANGED database
          /\ ToMark(p)
          /\ UNCHANGED <<files, ops, lease, memory, bounds, written>>
       \/ ~HistoryReady(p) /\ Refuse(p)

RewriteReady(p) ==
    /\ Reconciled(p, "must") /\ ArchivePost
    /\ active \in {receipt.pre, receipt.post}

RewriteStep(p) ==
    /\ InPhase(p, "rewrite")
    /\ \/ /\ RewriteReady(p)
          /\ active' = receipt.post /\ ToMark(p)
          /\ UNCHANGED <<archive, receipt, cert, database, ops, lease, memory, bounds, written>>
       \/ ~RewriteReady(p) /\ Refuse(p)

CompletionReady(p) ==
    /\ Reconciled(p, "must")
    /\ ~Prohibited(active, receipt.ids) /\ active = receipt.post /\ ArchivePost

\* Mutant: the certificate is written without a last look at the files.
CompletionBlind(p) ==
    /\ InPhase(p, "completion")
    /\ cert' = receipt.op /\ ToMark(p)
    /\ UNCHANGED <<active, archive, receipt, database, ops, lease, memory, bounds, written>>

CompletionStep(p) ==
    /\ InPhase(p, "completion")
    /\ \/ /\ CompletionReady(p)
          /\ cert' = receipt.op /\ ToMark(p)
          /\ UNCHANGED <<active, archive, receipt, database, ops, lease, memory, bounds, written>>
       \/ ~CompletionReady(p) /\ Refuse(p)

\* transition: the receipt enters the phase after the one just done.
Mark(p) ==
    /\ pc[p] = "mark"
    /\ \E n \in 1..4 : /\ receipt.phase = Pending[n]
                       /\ receipt' = [receipt EXCEPT !.phase = Pending[n + 1]]
    /\ pc' = [pc EXCEPT ![p] = "loop"]
    /\ UNCHANGED <<active, archive, cert, database, ops, lease, memory, bounds, written>>

ServeReady(p) ==
    /\ Reconciled(p, "must") /\ ~Prohibited(active, receipt.ids)
    /\ ArchivePost /\ cert = receipt.op

CompletedStep(p) ==
    /\ InPhase(p, "completed")
    /\ \/ /\ ServeReady(p) /\ Serve(p)
          /\ UNCHANGED <<files, database, ops, storage, bounds, written>>
       \/ ~ServeReady(p) /\ Refuse(p)

-----------------------------------------------------------------------------
(* Serving processes write the active file.                                  *)

\* Mutant: what another process wrote meanwhile is not noticed.
CurrentAlways(p) == pc[p] = "serving" /\ lease = Nobody

\* require_expected_generation, under the lease
Current(p) == pc[p] = "serving" /\ lease = Nobody /\ seen[p] = active

Newest(entries, id) ==
    {e \in Entry : e.id = id /\ e.engine = "new"
                   /\ \A f \in entries : f.id = id => e.version = f.version + 1}

\* The file is written; the process accepts the new generation unless the
\* write reported an error after all.
Write(p, entries) ==
    /\ active' = entries
    /\ \/ /\ seen' = [seen EXCEPT ![p] = entries] /\ served' = [served EXCEPT ![p] = entries]
          /\ UNCHANGED faults
       \/ /\ faults < MaxFaults /\ faults' = faults + 1
          /\ UNCHANGED <<seen, served>>
    /\ UNCHANGED <<archive, receipt, cert, database, ops, lease, pc, storage, banned, offline>>

\* upsert_recovery: one schedule of the file is replaced.
Upsert(p, e) ==
    /\ Current(p) /\ e.id \notin banned[p]
    /\ e \in Newest(served[p], e.id)
    /\ Write(p, {f \in active : f.id /= e.id} \cup {e})
    /\ written' = {f \in written : f.id /= e.id} \cup {e}

\* replace_from_manager, after the manager removed a schedule
Remove(p, i) ==
    /\ Current(p) /\ i \in IdsOf(served[p])
    /\ LET rest == {f \in served[p] : f.id /= i}
       IN  IdsOf(rest) \cap banned[p] = {} /\ Write(p, rest)
    /\ written' = {f \in written : f.id /= i}

Stop(p) ==
    /\ pc[p] = "serving"
    /\ pc' = [pc EXCEPT ![p] = "down"]
    /\ UNCHANGED <<files, database, ops, lease, memory, bounds, written>>

-----------------------------------------------------------------------------
(* Deaths, and what an operator does while nothing runs.                     *)

Die(p) ==
    /\ pc[p] /= "down" /\ faults < MaxFaults
    /\ faults' = faults + 1
    /\ pc' = [pc EXCEPT ![p] = "down"]
    /\ lease' = IF lease = p THEN Nobody ELSE lease
    /\ UNCHANGED <<files, database, ops, memory, offline, written>>

Offline ==
    /\ \A p \in Procs : pc[p] = "down"
    /\ offline < MaxOffline /\ offline' = offline + 1
    /\ \/ /\ \E e \in Entry : /\ e.version = 0
                              /\ active' = {f \in active : f.id /= e.id} \cup {e}
          /\ UNCHANGED <<archive, receipt, cert, database>>
       \/ /\ active' = FirstFile /\ UNCHANGED <<archive, receipt, cert, database>>
       \/ /\ archive' = [present |-> FALSE, entries |-> {}]
          /\ UNCHANGED <<active, receipt, cert, database>>
       \/ /\ receipt' = NoReceipt /\ UNCHANGED <<active, archive, cert, database>>
       \/ /\ \E n \in 1..5 : /\ receipt.phase \in {Pending[k] : k \in n..5}
                             /\ receipt' = [receipt EXCEPT !.phase = Pending[n]]
          /\ UNCHANGED <<active, archive, cert, database>>
       \/ /\ cert' = 0 /\ UNCHANGED <<active, archive, receipt, database>>
       \/ /\ proof' = NoProof /\ history' = Ids /\ UNCHANGED files
    /\ UNCHANGED <<ops, lease, pc, memory, faults, written>>

-----------------------------------------------------------------------------

Retire(p) ==
    \/ Begin(p) \/ Certified(p) \/ ArchiveStep(p) \/ HistoryStep(p) \/ RewriteStep(p)
    \/ CompletionStep(p) \/ Mark(p) \/ CompletedStep(p)

Next ==
    \/ \E p \in Procs : Acquire(p) \/ Retire(p) \/ Stop(p) \/ Die(p)
    \/ \E p \in Procs, e \in Entry : Upsert(p, e)
    \/ \E p \in Procs, i \in Ids : Remove(p, i)
    \/ Offline

Spec == Init /\ [][Next]_vars

-----------------------------------------------------------------------------
(* What retirement promises.                                                 *)

\* A process serves no schedule of the removed engine and no schedule that
\* reuses an identity some evidence calls retired, whatever was restored,
\* removed or edited before it started (8.2: "permanent identity tombstone").
ServedAreLive ==
    \A p \in Procs : pc[p] = "serving" =>
        /\ OldEntries(served[p]) = {}
        /\ IdsOf(served[p]) \cap (receipt.ids \cup IdsOf(archive.entries)) = {}
        /\ storage[p] = "available" => IdsOf(served[p]) \cap proof.ids = {}

\* A retired definition is at all times in the active file or in the archive,
\* and it leaves the active file only when its history is archived as well
\* (8.2: "only after both archives are durable").
RetiredKept ==
    offline = 0 =>
        /\ OldEntries(FirstFile) \subseteq active \cup archive.entries
        /\ OldEntries(active) = {} /\ receipt.history = "database" =>
               history \cap OldIds = {} /\ proof.ids = OldIds

\* A certificate is written only over files and rows that bear it out.
BornOut ==
    cert' /= cert /\ cert' /= 0 =>
        /\ OldEntries(active) = {} /\ IdsOf(active) \cap receipt.ids = {}
        /\ archive.present /\ receipt.ids \subseteq IdsOf(archive.entries)
        /\ receipt.history = "database" => proof.op = cert' /\ history \cap receipt.ids = {}

\* No process overwrites an edit it has not seen: from completion on the file
\* is what the edits of all processes add up to (require_expected_generation).
NoLostEdit == offline = 0 /\ receipt.phase = "completed" => active = written

\* The promises together.
RetirementHolds == TypeOK /\ ServedAreLive /\ RetiredKept /\ NoLostEdit

-----------------------------------------------------------------------------
(* The inductive invariant.                                                  *)

Phases == {"archive", "history", "rewrite", "completion", "completed"}

Receipts ==
    [phase : Phases \cup {"none"}, op : Nat, pre : SUBSET Entry, post : SUBSET Entry,
     archived : SUBSET Entry, ids : SUBSET Ids, history : {"database", "waived", "empty"}]

Shape ==
    /\ TypeOK
    /\ receipt \in Receipts
    /\ proof \in [op : Nat, ids : SUBSET Ids]
    /\ served \in [Procs -> SUBSET Entry] /\ seen \in [Procs -> SUBSET Entry]
    /\ banned \in [Procs -> SUBSET Ids]

\* The archive a receipt plans holds the identities it retires.
EvidenceRests ==
    /\ ~archive.present => archive.entries = {}
    /\ IdsOf(receipt.archived) = receipt.ids

Live(entries) == OldEntries(entries) = {} /\ IdsOf(entries) \cap receipt.ids = {}

\* While a process serves, the evidence is complete and stays so.
ServingRests ==
    \A p \in Procs : pc[p] = "serving" =>
        /\ receipt.phase = "completed" /\ ArchivePost
        /\ Live(served[p]) /\ seen[p] = served[p] /\ banned[p] = receipt.ids
        /\ storage[p] = "available" => proof.ids \subseteq receipt.ids

Proved == receipt.history = "database" => proof.ids = OldIds /\ history \cap OldIds = {}

\* What the first receipt plans, when nobody touched the files.
PlanRests ==
    IF receipt.phase = "none"
    THEN receipt.history = "waived" /\ active = FirstFile
    ELSE /\ receipt.pre = FirstFile /\ receipt.post = FirstFile \ OldEntries(FirstFile)
         /\ receipt.archived = OldEntries(FirstFile) /\ receipt.ids = OldIds
         /\ receipt.history = "database" => OldEntries(FirstFile) # {}

\* What each phase finds done.
PhaseRests ==
    /\ receipt.phase \in {"archive", "history"} => active = receipt.pre
    /\ receipt.phase \notin {"none", "archive"} => ArchivePost
    /\ receipt.phase \in {"rewrite", "completion", "completed"} => Proved
    /\ receipt.phase = "rewrite" => active \in {receipt.pre, receipt.post}
    /\ receipt.phase = "completion" => active = receipt.post
    /\ receipt.phase \notin {"completion", "completed"} => cert = 0
    /\ IF receipt.phase = "completed" THEN active = written
       ELSE written = FirstFile \ OldEntries(FirstFile)

\* What a process has done when it moves the receipt on.
MarkRests ==
    \A p \in Procs : pc[p] = "mark" =>
        /\ receipt.phase = "archive" => ArchivePost
        /\ receipt.phase = "history" => Proved
        /\ receipt.phase = "rewrite" => active = receipt.post

\* Without an operator at the files.
Undisturbed == offline = 0 => PlanRests /\ PhaseRests /\ MarkRests

IndInv == Shape /\ EvidenceRests /\ ServingRests /\ Undisturbed
=============================================================================
