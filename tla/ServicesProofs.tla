---------------------------- MODULE ServicesProofs ----------------------------
(***************************************************************************)
(* Six services around the fuzzing loop, for any constants.                *)
(*                                                                         *)
(* Submissions (WorkOrderSubmissions): the deferred transaction keeps the  *)
(* submission limit, the ancestry and the identity of submissions.         *)
(*                                                                         *)
(* Remediation: at most one workflow runs for an operation, a verified     *)
(* claim was approved and proven stage by stage, and an outcome is final.  *)
(* Nearly every step changes one operation and the work of one process on  *)
(* it.  IndInv is split into what it says of each row, of each workflow    *)
(* and of how the two go together, and one lemma covers all such steps.    *)
(*                                                                         *)
(* IssueFiling: a crash has two issues only if a create landed although    *)
(* another attempt had searched in vain, everyone who is told of an issue  *)
(* is told of the recorded one, and a recorded issue is final.  Each lemma *)
(* is about one part of IndInv and has one step per action.                *)
(*                                                                         *)
(* HourlyAdmission: the executions of one process keep to the hourly limit *)
(* by themselves, those of all processes as long as every start was in     *)
(* SQLite when somebody looked.  What an admission counted covers the      *)
(* executions it admits.                                                   *)
(*                                                                         *)
(* EventSchedules: no execution has more than the allowed number behind    *)
(* it, none fires its own schedule, and two triggers of a schedule are a   *)
(* window apart.  The depth an event carries counts the executions behind. *)
(*                                                                         *)
(* ScheduleRetirement: no start serves a retired schedule, no retired      *)
(* schedule is without a copy, and a certificate is borne out.  A step is  *)
(* one of eleven kinds; Quiet covers those that touch no evidence.         *)
(***************************************************************************)
EXTENDS WorkOrderSubmissions, Sequences, FiniteSetTheorems, WellFoundedInduction, TLAPS

CONSTANTS Ops, Procs, MaxCorpus, Faults, Budget
VARIABLES operation, edited, corpus, work, running, left

M == INSTANCE Remediation WITH row <- operation, up <- running

CONSTANTS Attempts, MaxCrashes, LateLands
VARIABLES ledger, expired, at, proc, fence, issue, tracker, flying, emptied, overlap,
          crashes

F == INSTANCE IssueFiling WITH row <- ledger, stale <- expired

CONSTANTS MaxPerHour, Hour, MaxTime, Execs, MaxFaults, MaxDeaths
VARIABLES now, ex, row, adm, gone, loose, faults, deaths

H == INSTANCE HourlyAdmission

CONSTANTS Schedules, Listens, Debounces, Kinds, Outside, Slots, QueueCap, Cascade, Policy,
          PerTask, Events, Stops
VARIABLES clock, up, chan, queue, last, emit, task, exec, sent, events, stops

E == INSTANCE EventSchedules WITH now <- clock, MaxDepth <- Cascade

CONSTANTS Idents, OldIds, Storages, MaxOffline, MaxVersion
VARIABLES active, archive, receipt, cert, proof, history, ops, lease, pc, storage, served,
          generation, banned, mishaps, offline, written

Z == INSTANCE ScheduleRetirement WITH Ids <- Idents, seen <- generation, faults <- mishaps

-----------------------------------------------------------------------------
(* Submissions to work orders.                                               *)

\* A transaction that is not overtaken still finds what it checked; the table
\* is finite.
Inv ==
    /\ TypeOK
    /\ IsFiniteSet(sub)
    /\ SnapshotCurrent
    /\ LimitHolds
    /\ AncestryDurable
    /\ NoDuplicate

\* Of picks a subset, so it stays finite.
LEMMA OfFinite ==
    ASSUME NEW S, IsFiniteSet(S), NEW w
    PROVE  IsFiniteSet(Of(S, w)) /\ Cardinality(Of(S, w)) \in Nat
<1>1. Of(S, w) \subseteq S
    BY DEF Of
<1>2. IsFiniteSet(Of(S, w))
    BY <1>1, FS_Subset
<1>. QED
    BY <1>2, FS_CardinalityType

\* One row more in the table is at most one more of its own work order.
LEMMA OfAdd ==
    ASSUME NEW S, IsFiniteSet(S), NEW x, NEW w
    PROVE  /\ x.row.order = w =>
                Cardinality(Of(S \cup {x}, w)) <= Cardinality(Of(S, w)) + 1
           /\ x.row.order # w => Of(S \cup {x}, w) = Of(S, w)
<1>1. CASE x.row.order = w
    <2>1. Of(S \cup {x}, w) = Of(S, w) \cup {x}
        BY <1>1 DEF Of
    <2>2. IsFiniteSet(Of(S, w)) /\ Cardinality(Of(S, w)) \in Nat
        BY OfFinite
    <2>3. Cardinality(Of(S, w) \cup {x}) =
             IF x \in Of(S, w) THEN Cardinality(Of(S, w)) ELSE Cardinality(Of(S, w)) + 1
        BY <2>2, FS_AddElement
    <2>4. Cardinality(Of(S \cup {x}, w)) \in {Cardinality(Of(S, w)), Cardinality(Of(S, w)) + 1}
        BY <2>1, <2>3, Zenon
    <2>5. \A n \in Nat : \A m \in {n, n + 1} : m <= n + 1
        OBVIOUS
    <2>6. Cardinality(Of(S \cup {x}, w)) <= Cardinality(Of(S, w)) + 1
        BY <2>2, <2>4, <2>5, Zenon
    <2>. QED
        BY <1>1, <2>6
<1>2. CASE x.row.order # w
    BY <1>2 DEF Of
<1>. QED
    BY <1>1, <1>2

\* Removing a work order's rows never adds to another's.
LEMMA OfRemove ==
    ASSUME NEW S, IsFiniteSet(S), NEW v, NEW w
    PROVE  /\ IsFiniteSet(S \ Of(S, v))
           /\ Cardinality(Of(S \ Of(S, v), w)) <= Cardinality(Of(S, w))
<1>1. Of(S \ Of(S, v), w) \subseteq Of(S, w)
    BY DEF Of
<1>2. IsFiniteSet(Of(S, w))
    BY OfFinite
<1>3. Cardinality(Of(S \ Of(S, v), w)) <= Cardinality(Of(S, w))
    BY <1>1, <1>2, FS_Subset
<1>4. IsFiniteSet(S \ Of(S, v))
    BY FS_Subset, S \ Of(S, v) \subseteq S
<1>. QED
    BY <1>3, <1>4

\* The empty database satisfies the invariant.
LEMMA InitInv == Init => Inv
<1>. SUFFICES ASSUME Init PROVE Inv
    OBVIOUS
<1>1. IsFiniteSet(sub) /\ Cardinality({}) = 0
    BY FS_EmptySet DEF Init
<1>2. TypeOK
    BY SubmissionAssumption DEF Init, TypeOK, Open
<1>3. LimitHolds
    <2>1. \A w \in Orders : Of(sub, w) = {}
        BY DEF Init, Of
    <2>. QED
        BY <2>1, <1>1, SubmissionAssumption DEF LimitHolds
<1>4. SnapshotCurrent
    BY DEF Init, SnapshotCurrent
<1>. QED
    BY <1>1, <1>2, <1>3, <1>4 DEF Inv, Init, AncestryDurable, NoDuplicate

\* Publishing a work order overtakes every open import.
LEMMA PublishInv ==
    ASSUME Inv, NEW w \in Orders, Publish(w)
    PROVE  Inv'
<1>. USE DEF Inv
<1>1. TypeOK'
    BY DEF Publish, TypeOK, Open
<1>2. SnapshotCurrent'
    BY DEF Publish, SnapshotCurrent, Open
<1>3. LimitHolds'
    BY DEF Publish, LimitHolds
<1>4. AncestryDurable'
    BY DEF Publish, AncestryDurable
<1>5. NoDuplicate'
    BY DEF Publish, NoDuplicate
<1>6. IsFiniteSet(sub')
    BY DEF Publish
<1>. QED
    BY <1>1, <1>2, <1>3, <1>4, <1>5, <1>6

\* An import that passed its checks has them on the current table.
LEMMA ImportInv ==
    ASSUME Inv, NEW c \in Clients, NEW r \in Records, Import(c, r)
    PROVE  Inv'
<1>. USE DEF Inv
<1>0. r # None /\ txn'[c] = r /\ seen'[c] = sub
    <2>1. r # None
        BY NoneAssumption
    <2>2. txn' = [txn EXCEPT ![c] = r] /\ seen' = [seen EXCEPT ![c] = sub] /\ txn[c] = None
        BY DEF Import
    <2>. QED
        BY <2>1, <2>2 DEF TypeOK
<1>1. TypeOK'
    BY <1>0 DEF Import, TypeOK, Open
<1>2. SnapshotCurrent'
    <2>. SUFFICES ASSUME NEW d \in Clients, txn'[d] # None, d \notin stale'
                  PROVE  /\ seen'[d] = sub'
                         /\ txn'[d].order \in order'
                         /\ ~Exists(sub', txn'[d])
                         /\ ParentOk(sub', txn'[d])
                         /\ RoomLeft(sub', txn'[d])
        BY DEF SnapshotCurrent, Exists, ParentOk, RoomLeft, Of
    <2>1. CASE d = c
        BY <2>1, <1>0 DEF Import
    <2>2. CASE d # c
        BY <2>2 DEF Import, SnapshotCurrent, TypeOK
    <2>. QED
        BY <2>1, <2>2
<1>3. UNCHANGED <<order, sub>>
    BY DEF Import
<1>. QED
    BY <1>1, <1>2, <1>3 DEF LimitHolds, AncestryDurable, NoDuplicate

\* What an insert adds to the table.
LEMMA InsertAdds ==
    ASSUME Inv, NEW c \in Clients, Insert(c)
    PROVE  \E x \in Rows :
              /\ x.id = used + 1 /\ x.row = txn[c]
              /\ sub' = sub \cup {x}
              /\ used' = used + 1 /\ used' \in Ids
              /\ x.row.order \in order
              /\ ~Exists(sub, x.row) /\ ParentOk(sub, x.row) /\ RoomLeft(sub, x.row)
<1>. DEFINE x == [id |-> used + 1, row |-> txn[c]]
<1>1. txn[c] \in Records
    BY DEF Inv, TypeOK, Insert
<1>2. used + 1 \in Ids
    BY SubmissionAssumption DEF Inv, TypeOK, Insert, Ids
<1>3. x \in Rows
    BY <1>1, <1>2 DEF Rows
<1>4. /\ txn[c].order \in order
      /\ ~Exists(sub, txn[c]) /\ ParentOk(sub, txn[c]) /\ RoomLeft(sub, txn[c])
    BY DEF Inv, SnapshotCurrent, Insert
<1>5. x.id = used + 1 /\ x.row = txn[c]
    OBVIOUS
<1>6. sub' = sub \cup {x} /\ used' = used + 1
    BY DEF Insert
<1>. HIDE DEF x
<1>. QED
    BY <1>2, <1>3, <1>4, <1>5, <1>6

\* An insert keeps the limit, the ancestry and the identities, because its
\* checks were made on the very table it adds to.
LEMMA InsertInv ==
    ASSUME Inv, NEW c \in Clients, Insert(c)
    PROVE  Inv'
<1>1. PICK x \in Rows :
              /\ x.id = used + 1 /\ x.row = txn[c]
              /\ sub' = sub \cup {x}
              /\ used' = used + 1 /\ used' \in Ids
              /\ x.row.order \in order
              /\ ~Exists(sub, x.row) /\ ParentOk(sub, x.row) /\ RoomLeft(sub, x.row)
    BY InsertAdds
<1>2. /\ txn' = [txn EXCEPT ![c] = None] /\ seen' = [seen EXCEPT ![c] = {}]
      /\ stale' = Open \ {c} /\ order' = order
    BY DEF Insert, Close
<1>3. used \in Nat /\ sub \subseteq Rows /\ (\A y \in sub : y.id <= used)
    BY SubmissionAssumption DEF Inv, TypeOK
<1>4. \A y \in sub : y.id \in Nat /\ y.id # x.id
    BY <1>1, <1>3, SubmissionAssumption DEF Rows, Ids
<1>5. TypeOK'
    <2>1. order' \subseteq Orders /\ used' \in 0..MaxSub /\ sub' \subseteq Rows
        BY <1>1, <1>2, <1>3, SubmissionAssumption DEF Inv, TypeOK, Ids
    <2>2. txn' \in [Clients -> Records \cup {None}] /\ seen' \in [Clients -> SUBSET Rows]
        BY <1>2 DEF Inv, TypeOK
    <2>3. stale' \subseteq Open'
        BY <1>2 DEF Inv, TypeOK, Open
    <2>4. \A y \in sub' : y.id <= used'
        BY <1>1, <1>3, <1>4
    <2>5. \A y, z \in sub' : y.id = z.id => y = z
        BY <1>1, <1>4 DEF Inv, TypeOK
    <2>. QED
        BY <2>1, <2>2, <2>3, <2>4, <2>5 DEF TypeOK
<1>6. IsFiniteSet(sub')
    BY <1>1, FS_AddElement DEF Inv
<1>7. SnapshotCurrent'
    BY <1>2 DEF Inv, TypeOK, SnapshotCurrent, Open
<1>8. LimitHolds'
    <2>. SUFFICES ASSUME NEW w \in Orders PROVE Cardinality(Of(sub', w)) <= Limit
        BY DEF LimitHolds, Of
    <2>0. Cardinality(Of(sub, w)) \in Nat /\ Cardinality(Of(sub', w)) \in Nat
        BY OfFinite, <1>6 DEF Inv
    <2>1. CASE x.row.order = w
        <3>1. Cardinality(Of(sub', w)) <= Cardinality(Of(sub, w)) + 1
            BY <1>1, <2>1, OfAdd DEF Inv
        <3>2. Cardinality(Of(sub, w)) < Limit
            BY <1>1, <2>1 DEF RoomLeft
        <3>. QED
            BY <2>0, <3>1, <3>2, SubmissionAssumption
    <2>2. CASE x.row.order # w
        <3>1. Of(sub', w) = Of(sub, w)
            BY <1>1, <2>2, OfAdd DEF Inv
        <3>. QED
            BY <3>1 DEF Inv, LimitHolds
    <2>. QED
        BY <2>1, <2>2
<1>9. AncestryDurable'
    <2>. SUFFICES ASSUME NEW y \in sub'
                  PROVE  /\ y.row.order \in order
                         /\ y.row.parent # None => \E z \in sub' :
                               z.id = y.row.parent /\ z.row.order = y.row.order /\ z.id < y.id
        BY <1>2 DEF AncestryDurable
    <2>1. CASE y \in sub
        BY <2>1, <1>1 DEF Inv, AncestryDurable
    <2>2. CASE y = x
        <3>1. \A z \in sub : z.id < x.id
            BY <1>1, <1>3, <1>4
        <3>. QED
            BY <2>2, <3>1, <1>1 DEF ParentOk, Of
    <2>. QED
        BY <2>1, <2>2, <1>1
<1>10. NoDuplicate'
    BY <1>1 DEF Inv, NoDuplicate, Exists
<1>. QED
    BY <1>5, <1>6, <1>7, <1>8, <1>9, <1>10 DEF Inv

\* Giving an import up changes nothing in the table.
LEMMA RollbackInv ==
    ASSUME Inv, NEW c \in Clients, Rollback(c)
    PROVE  Inv'
<1>1. UNCHANGED <<order, sub, used>>
    BY DEF Rollback
<1>2. TypeOK'
    BY DEF Inv, Rollback, Close, TypeOK, Open
<1>3. SnapshotCurrent'
    <2>. SUFFICES ASSUME NEW d \in Clients, txn'[d] # None, d \notin stale'
                  PROVE  /\ seen'[d] = sub'
                         /\ txn'[d].order \in order'
                         /\ ~Exists(sub', txn'[d])
                         /\ ParentOk(sub', txn'[d])
                         /\ RoomLeft(sub', txn'[d])
        BY DEF SnapshotCurrent, Exists, ParentOk, RoomLeft, Of
    <2>1. d # c /\ txn'[d] = txn[d] /\ seen'[d] = seen[d] /\ d \notin stale
        BY DEF Inv, TypeOK, Rollback, Close
    <2>. QED
        BY <2>1, <1>1 DEF Inv, SnapshotCurrent
<1>. QED
    BY <1>1, <1>2, <1>3 DEF Inv, LimitHolds, AncestryDurable, NoDuplicate

\* Deleting a work order takes a whole family of submissions, so no parent is
\* lost, and overtakes every open import.
LEMMA DeleteInv ==
    ASSUME Inv, NEW v \in Orders, Delete(v)
    PROVE  Inv'
<1>1. /\ sub' = sub \ Of(sub, v) /\ order' = order \ {v} /\ stale' = Open
      /\ UNCHANGED <<used, txn, seen>>
    BY DEF Delete
<1>2. TypeOK'
    BY <1>1 DEF Inv, TypeOK, Open
<1>3. IsFiniteSet(sub')
    BY <1>1, OfRemove DEF Inv
<1>4. SnapshotCurrent'
    BY <1>1 DEF SnapshotCurrent, Open
<1>5. LimitHolds'
    <2>. SUFFICES ASSUME NEW w \in Orders PROVE Cardinality(Of(sub', w)) <= Limit
        BY DEF LimitHolds, Of
    <2>0. Cardinality(Of(sub, w)) \in Nat /\ Cardinality(Of(sub', w)) \in Nat
        BY OfFinite, <1>3 DEF Inv
    <2>1. Cardinality(Of(sub', w)) <= Cardinality(Of(sub, w))
        BY <1>1, OfRemove DEF Inv
    <2>2. Cardinality(Of(sub, w)) <= Limit
        BY DEF Inv, LimitHolds
    <2>. QED
        BY <2>0, <2>1, <2>2, SubmissionAssumption
<1>6. AncestryDurable'
    <2>. SUFFICES ASSUME NEW y \in sub'
                  PROVE  /\ y.row.order \in order'
                         /\ y.row.parent # None => \E z \in sub' :
                               z.id = y.row.parent /\ z.row.order = y.row.order /\ z.id < y.id
        BY DEF AncestryDurable
    <2>1. y \in sub /\ y.row.order # v
        BY <1>1 DEF Of
    <2>. QED
        BY <2>1, <1>1 DEF Inv, AncestryDurable, Of
<1>7. NoDuplicate'
    BY <1>1 DEF Inv, NoDuplicate
<1>. QED
    BY <1>2, <1>3, <1>4, <1>5, <1>6, <1>7 DEF Inv

\* Writes elsewhere only overtake open imports.
LEMMA OtherWriteInv ==
    ASSUME Inv, OtherWrite
    PROVE  Inv'
<1>1. UNCHANGED <<order, sub, used, txn, seen>> /\ stale' = Open
    BY DEF OtherWrite
<1>2. TypeOK'
    BY <1>1 DEF Inv, TypeOK, Open
<1>3. SnapshotCurrent'
    BY <1>1 DEF SnapshotCurrent, Open
<1>. QED
    BY <1>1, <1>2, <1>3 DEF Inv, LimitHolds, AncestryDurable, NoDuplicate

\* Every step keeps the invariant.
LEMMA NextInv == Inv /\ [Next]_vars => Inv'
<1>. SUFFICES ASSUME Inv, [Next]_vars PROVE Inv'
    OBVIOUS
<1>1. ASSUME NEW c \in Clients, Insert(c) PROVE Inv'
    BY <1>1, InsertInv
<1>2. ASSUME NEW c \in Clients, Rollback(c) PROVE Inv'
    BY <1>2, RollbackInv
<1>3. ASSUME NEW c \in Clients, NEW w \in Orders, NEW s \in Sources,
             NEW p \in Ids \cup {None}, Import(c, Record(w, s, p))
      PROVE  Inv'
    <2>1. Record(w, s, p) \in Records
        BY DEF Record, Records
    <2>. QED
        BY <1>3, <2>1, ImportInv
<1>4. ASSUME NEW w \in Orders, Publish(w) PROVE Inv'
    BY <1>4, PublishInv
<1>5. ASSUME NEW w \in Orders, Delete(w) PROVE Inv'
    BY <1>5, DeleteInv
<1>6. CASE OtherWrite
    BY <1>6, OtherWriteInv
<1>7. CASE UNCHANGED vars
    BY <1>7 DEF vars, Inv, TypeOK, Open, SnapshotCurrent, LimitHolds, AncestryDurable,
                NoDuplicate, Of, Exists, ParentOk, RoomLeft
<1>. QED
    BY <1>1, <1>2, <1>3, <1>4, <1>5, <1>6, <1>7 DEF Next

\* The table, the transactions and the snapshots keep their shapes.
THEOREM TypeCorrect == Spec => []TypeOK
<1>1. Inv => TypeOK
    BY DEF Inv
<1>. QED
    BY <1>1, InitInv, NextInv, PTL DEF Spec

\* No number of concurrent imports puts more submissions into a work order
\* than its limit (insert_harness_work_order_submission).
THEOREM LimitAlwaysHolds == Spec => []LimitHolds
<1>1. Inv => LimitHolds
    BY DEF Inv
<1>. QED
    BY <1>1, InitInv, NextInv, PTL DEF Spec

\* An accepted submission always has durable ancestry in its own work order.
THEOREM AncestryAlwaysDurable == Spec => []AncestryDurable
<1>1. Inv => AncestryDurable
    BY DEF Inv
<1>. QED
    BY <1>1, InitInv, NextInv, PTL DEF Spec

\* An import sent twice is stored once.
THEOREM NeverDuplicated == Spec => []NoDuplicate
<1>1. Inv => NoDuplicate
    BY DEF Inv
<1>. QED
    BY <1>1, InitInv, NextInv, PTL DEF Spec

\* Everything the run checks of the table in every state: the limit, the
\* durable ancestry and the single copy hold together, for any number of
\* imports and whatever other connections commit in between.
THEOREM SubmissionsAlwaysHold == Spec => []SubmissionsHold
<1>1. Inv => SubmissionsHold
    BY DEF Inv, SubmissionsHold
<1>. QED
    BY <1>1, InitInv, NextInv, PTL DEF Spec

-----------------------------------------------------------------------------
(* The depth of a submission.  Parents have smaller identifiers, so the    *)
(* recursion of submission_repair_depth is well founded, and the ancestors *)
(* of a submission are distinct rows of its own work order.                *)

\* A set of natural numbers that is not empty has a least element.
LEMMA LeastNumber ==
    ASSUME NEW T \in SUBSET Nat, T # {}
    PROVE  \E n \in T : \A m \in T : n <= m
<1>. DEFINE R == OpToRel(<, Nat)
<1>1. IsWellFoundedOn(R, Nat)
    BY NatLessThanWellFounded
<1>2. \A m, n \in Nat : m < n => <<m, n>> \in R
    BY DEF OpToRel
<1>. HIDE DEF R
<1>3. PICK n \in T : \A m \in T : ~(<<m, n>> \in R)
    BY <1>1, WFMin
<1>4. ASSUME NEW m \in T PROVE n <= m
    <2>1. n \in Nat /\ m \in Nat
        OBVIOUS
    <2>2. ~(m < n)
        BY <1>2, <1>3, <2>1
    <2>. QED
        BY <2>1, <2>2
<1>. QED
    BY <1>4

\* The parents of submission i, as submission_repair_depth reads them.
Up(i) == {x.row.parent : x \in {y \in sub : y.id = i}} \ {None}

\* The parent the recursion goes on with.
Parent(i) == CHOOSE p \in Up(i) : TRUE

\* f is right about the depth of every submission up to n.
DepthTo(f, n) ==
    \A i \in Ids : i <= n => f[i] = IF Up(i) = {} THEN 0 ELSE 1 + f[Parent(i)]

\* A submission's parent was stored before it.
LEMMA ParentIsSmaller ==
    ASSUME TypeOK, AncestryDurable, NEW x \in sub, Up(x.id) # {}
    PROVE  /\ Parent(x.id) \in Ids /\ Parent(x.id) < x.id
           /\ \E y \in sub : y.id = Parent(x.id) /\ y.row.order = x.row.order
<1>1. Parent(x.id) \in Up(x.id)
    BY DEF Parent
<1>. HIDE DEF Parent
<1>2. PICK z \in sub : z.id = x.id /\ z.row.parent = Parent(x.id) /\ z.row.parent # None
    BY <1>1 DEF Up
<1>3. z = x
    BY <1>2 DEF TypeOK
<1>4. PICK y \in sub : y.id = x.row.parent /\ y.row.order = x.row.order /\ y.id < x.id
    BY <1>2, <1>3 DEF AncestryDurable
<1>5. y.id \in Ids
    BY DEF TypeOK, Rows
<1>. QED
    BY <1>2, <1>3, <1>4, <1>5

\* Whatever i is, its parent, when it has one, is smaller.
LEMMA UpIsSmaller ==
    ASSUME TypeOK, AncestryDurable, NEW i \in Ids, Up(i) # {}
    PROVE  Parent(i) \in Ids /\ Parent(i) < i
<1>1. PICK x \in sub : x.id = i
    BY DEF Up
<1>. QED
    BY <1>1, ParentIsSmaller

\* Depths exist up to every n.
LEMMA DepthsExist ==
    ASSUME TypeOK, AncestryDurable, NEW n \in Nat
    PROVE  \E f \in [Ids -> Nat] : DepthTo(f, n)
<1>. DEFINE T == {m \in Nat : ~\E f \in [Ids -> Nat] : DepthTo(f, m)}
<1>. SUFFICES ASSUME T # {} PROVE FALSE
    OBVIOUS
<1>1. PICK k \in T : \A m \in T : k <= m
    BY LeastNumber
<1>. HIDE DEF T
<1>2. k \in Nat /\ ~\E f \in [Ids -> Nat] : DepthTo(f, k)
    BY <1>1 DEF T
<1>3. CASE k = 0
    <2>1. DepthTo([i \in Ids |-> 0], 0)
        BY DEF DepthTo, Ids
    <2>2. [i \in Ids |-> 0] \in [Ids -> Nat]
        OBVIOUS
    <2>. QED
        BY <1>2, <1>3, <2>1, <2>2
<1>4. CASE k # 0
    <2>1. k - 1 \in Nat /\ k - 1 \notin T
        BY <1>1, <1>2, <1>4
    <2>2. PICK f \in [Ids -> Nat] : DepthTo(f, k - 1)
        BY <2>1 DEF T
    <2>. DEFINE d == IF Up(k) = {} THEN 0 ELSE 1 + f[Parent(k)]
                g == [f EXCEPT ![k] = d]
    <2>3. k \in Ids => d \in Nat
        BY UpIsSmaller
    <2>4. g \in [Ids -> Nat]
        BY <2>3
    <2>5. ASSUME NEW i \in Ids, i <= k
          PROVE  g[i] = IF Up(i) = {} THEN 0 ELSE 1 + g[Parent(i)]
        <3>0. i \in Nat /\ k \in Nat
            BY <1>2 DEF Ids
        <3>1. Up(i) # {} => Parent(i) \in Ids /\ Parent(i) < i /\ Parent(i) \in Nat
            BY UpIsSmaller DEF Ids
        <3>2. Up(i) # {} => g[Parent(i)] = f[Parent(i)]
            BY <2>5, <3>0, <3>1
        <3>3. CASE i = k
            <4>1. g[i] = d
                BY <3>3
            <4>. QED
                BY <3>2, <3>3, <4>1
        <3>4. CASE i # k
            <4>1. i <= k - 1 /\ g[i] = f[i]
                BY <2>5, <3>0, <3>4
            <4>2. f[i] = IF Up(i) = {} THEN 0 ELSE 1 + f[Parent(i)]
                BY <2>2, <4>1 DEF DepthTo
            <4>. QED
                BY <3>2, <4>1, <4>2
        <3>. QED
            BY <3>3, <3>4
    <2>. HIDE DEF g
    <2>6. DepthTo(g, k)
        BY <2>5 DEF DepthTo
    <2>. QED
        BY <1>2, <2>4, <2>6
<1>. QED
    BY <1>3, <1>4

\* The defining equation of Depth.
LEMMA DepthDef ==
    ASSUME TypeOK, AncestryDurable, NEW i \in Ids
    PROVE  Depth[i] = IF Up(i) = {} THEN 0 ELSE 1 + Depth[Parent(i)]
<1>1. MaxSub \in Nat
    BY SubmissionAssumption
<1>2. PICK f \in [Ids -> Nat] : DepthTo(f, MaxSub)
    BY <1>1, DepthsExist
<1>3. \A j \in Ids : j <= MaxSub
    BY <1>1 DEF Ids
<1>4. f = [j \in Ids |-> IF Up(j) = {} THEN 0 ELSE 1 + f[Parent(j)]]
    <2>1. \A j \in Ids : f[j] = IF Up(j) = {} THEN 0 ELSE 1 + f[Parent(j)]
        BY <1>2, <1>3 DEF DepthTo
    <2>. QED
        BY <2>1
<1>5. Depth = [j \in Ids |-> IF Up(j) = {} THEN 0 ELSE 1 + Depth[Parent(j)]]
    <2>. DEFINE D == CHOOSE h : h = [j \in Ids |-> IF Up(j) = {} THEN 0 ELSE 1 + h[Parent(j)]]
    <2>1. Depth = D
        BY DEF Depth, Up, Parent
    <2>2. D = [j \in Ids |-> IF Up(j) = {} THEN 0 ELSE 1 + D[Parent(j)]]
        BY <1>4
    <2>. QED
        BY <2>1, <2>2
<1>. QED
    BY <1>5

\* The submissions of x's work order up to x itself.
UpTo(x) == {y \in Of(sub, x.row.order) : y.id <= x.id}

\* A submission has fewer ancestors than its work order has submissions up to
\* it.
LEMMA DepthCounts ==
    ASSUME Inv, NEW x \in sub
    PROVE  Depth[x.id] \in Nat /\ Depth[x.id] < Cardinality(UpTo(x))
<1>. DEFINE Good(z) == Depth[z.id] \in Nat /\ Depth[z.id] < Cardinality(UpTo(z))
            T == {z.id : z \in {y \in sub : ~Good(y)}}
<1>. SUFFICES ASSUME T # {} PROVE FALSE
    OBVIOUS
<1>0. /\ \A z \in sub : z.id \in Nat /\ z.id \in Ids
      /\ \A z \in sub : IsFiniteSet(UpTo(z)) /\ Cardinality(UpTo(z)) \in Nat
    <2>1. \A z \in sub : z.id \in Ids
        BY DEF Inv, TypeOK, Rows
    <2>2. ASSUME NEW z \in sub PROVE IsFiniteSet(UpTo(z)) /\ Cardinality(UpTo(z)) \in Nat
        <3>1. IsFiniteSet(Of(sub, z.row.order)) /\ UpTo(z) \subseteq Of(sub, z.row.order)
            BY OfFinite DEF Inv, UpTo
        <3>. QED
            BY <3>1, FS_Subset, FS_CardinalityType
    <2>. QED
        BY <2>1, <2>2 DEF Ids
<1>1. PICK k \in T : \A m \in T : k <= m
    <2>1. T \in SUBSET Nat
        BY <1>0
    <2>. QED
        BY <2>1, LeastNumber
<1>2. PICK z \in sub : z.id = k /\ ~Good(z)
    BY <1>1
<1>3. \A y \in sub : y.id < z.id => Good(y)
    BY <1>0, <1>1, <1>2
<1>. HIDE DEF T
<1>4. Depth[z.id] = IF Up(z.id) = {} THEN 0 ELSE 1 + Depth[Parent(z.id)]
    BY <1>0, DepthDef DEF Inv
<1>5. z \in UpTo(z)
    BY <1>0 DEF UpTo, Of
<1>6. CASE Up(z.id) = {}
    <2>1. Cardinality(UpTo(z)) # 0
        BY <1>0, <1>5, FS_EmptySet
    <2>. QED
        BY <1>0, <1>2, <1>4, <1>6, <2>1
<1>7. CASE Up(z.id) # {}
    <2>1. PICK y \in sub : y.id = Parent(z.id) /\ y.row.order = z.row.order
        BY <1>7, ParentIsSmaller DEF Inv
    <2>2. y.id < z.id
        BY <1>7, <2>1, ParentIsSmaller DEF Inv
    <2>3. Good(y)
        BY <1>3, <2>2
    <2>4. UpTo(y) \subseteq UpTo(z) \ {z}
        BY <1>0, <2>1, <2>2 DEF UpTo, Of
    <2>5. Cardinality(UpTo(z) \ {z}) = Cardinality(UpTo(z)) - 1 /\ IsFiniteSet(UpTo(z) \ {z})
        BY <1>0, <1>5, FS_RemoveElement
    <2>6. Cardinality(UpTo(y)) <= Cardinality(UpTo(z)) - 1
        BY <2>4, <2>5, FS_Subset
    <2>7. Depth[z.id] = 1 + Depth[y.id]
        BY <1>4, <1>7, <2>1
    <2>. QED
        BY <1>0, <1>2, <2>3, <2>6, <2>7
<1>. QED
    BY <1>6, <1>7

\* submission_repair_depth never refuses a stored submission as too deep: the
\* limit on a work order's submissions bounds their depth as well.
THEOREM DepthAlwaysQualifies == Spec => []DepthQualifies
<1>1. ASSUME Inv PROVE DepthQualifies
    <2>. SUFFICES ASSUME NEW x \in sub PROVE Depth[x.id] < Limit
        BY DEF DepthQualifies
    <2>1. Depth[x.id] \in Nat /\ Depth[x.id] < Cardinality(UpTo(x))
        BY <1>1, DepthCounts
    <2>2. UpTo(x) \subseteq Of(sub, x.row.order) /\ IsFiniteSet(Of(sub, x.row.order))
        BY <1>1, OfFinite DEF UpTo, Inv
    <2>3. Cardinality(UpTo(x)) <= Cardinality(Of(sub, x.row.order)) /\ IsFiniteSet(UpTo(x))
        BY <2>2, FS_Subset
    <2>4. x.row.order \in Orders
        BY <1>1 DEF Inv, TypeOK, Rows, Records
    <2>5. Cardinality(Of(sub, x.row.order)) <= Limit
        BY <1>1, <2>4 DEF Inv, LimitHolds
    <2>6. /\ Cardinality(UpTo(x)) \in Nat /\ Cardinality(Of(sub, x.row.order)) \in Nat
          /\ Limit \in Nat
        BY <2>2, <2>3, FS_CardinalityType, SubmissionAssumption
    <2>. QED
        BY <2>1, <2>3, <2>5, <2>6
<1>. QED
    BY <1>1, InitInv, NextInv, PTL DEF Spec

-----------------------------------------------------------------------------
(* Remediation operations.                                                   *)

Outcome4 == {"verified", "rejected", "inconclusive", "interrupted"}

\* What IndInv says of one row.
RowOK(r) ==
    r # None =>
        /\ r.stage = M!Complete <=> r.status \in Outcome4
        /\ r.status = "running" => r.stage \in 1..M!FollowUp
        /\ r.status \in {"approved", "running"} => r.approved
        /\ r.status = "verified" =>
              /\ r.approved
              /\ r.evidence = [i \in 1..M!FollowUp |-> "passed"]
              /\ r.ran # None

\* What it says of one workflow.
WorkOK(w) ==
    w # None =>
        /\ Len(w.done) <= M!FollowUp
        /\ \A i \in 1..(Len(w.done) - 1) : w.done[i] = "passed"
        /\ w.at = "stage" => /\ Len(w.done) < M!FollowUp
                             /\ \A i \in 1..Len(w.done) : w.done[i] = "passed"
        /\ w.at \in {"claim", "preflight"} => w.done = <<>>
        /\ Len(w.done) >= 4 => w.ran # None

Busy(w) == w # None /\ w.at # "claim"

\* The types, and the two together.
Shapes ==
    /\ operation \in [Ops -> M!Operations \cup {None}]
    /\ work \in [Procs -> [Ops -> M!Workflows \cup {None}]]
    /\ edited \in BOOLEAN
    /\ corpus \in 0..MaxCorpus
    /\ running \subseteq Procs
    /\ left \in [Faults -> Nat]

LocalOK ==
    /\ \A o \in Ops : RowOK(operation[o])
    /\ \A p \in Procs, o \in Ops : WorkOK(work[p][o]) /\ (work[p][o] # None => p \in running)

Links == M!OneWorker /\ M!ClaimedOnce

\* The split loses nothing.
LEMMA Split == M!IndInv <=> Shapes /\ LocalOK /\ Links
<1>1. ASSUME M!IndInv PROVE Shapes /\ Links
  BY <1>1 DEF M!IndInv, M!RemediationHolds, M!TypeOK, Shapes, Links
<1>2. ASSUME M!IndInv, NEW o \in Ops PROVE RowOK(operation[o])
  BY <1>2 DEF M!IndInv, M!RemediationHolds, M!TypeOK, RowOK, Outcome4, M!VerifiedIsProven, M!ApprovedByPerson
<1>3. ASSUME M!IndInv, NEW p \in Procs, NEW o \in Ops
      PROVE  WorkOK(work[p][o]) /\ (work[p][o] # None => p \in running)
  BY <1>3 DEF M!IndInv, M!RemediationHolds, M!TypeOK, WorkOK, M!StagesInOrder, M!EvidenceSoFar, M!At
<1>4. ASSUME Shapes, LocalOK PROVE M!TypeOK
  <2>1. \A o \in Ops : RowOK(operation[o])
    BY <1>4 DEF LocalOK
  <2>2. \A p \in Procs, o \in Ops : work[p][o] # None => Len(work[p][o].done) <= M!FollowUp /\ p \in running
    BY <1>4 DEF LocalOK, WorkOK
  <2> QED
    BY <1>4, <2>1, <2>2 DEF Shapes, M!TypeOK, RowOK, Outcome4
<1>5. ASSUME LocalOK PROVE M!VerifiedIsProven /\ M!ApprovedByPerson
  BY <1>5 DEF LocalOK, RowOK, M!VerifiedIsProven, M!ApprovedByPerson
<1>6. ASSUME LocalOK PROVE M!StagesInOrder /\ M!EvidenceSoFar
  <2>1. \A p \in Procs, o \in Ops : WorkOK(work[p][o])
    BY <1>6 DEF LocalOK
  <2> QED
    BY <2>1 DEF WorkOK, M!StagesInOrder, M!EvidenceSoFar, M!At
<1> QED
  BY <1>1, <1>2, <1>3, <1>4, <1>5, <1>6 DEF M!IndInv, M!RemediationHolds, LocalOK, Links

\* The same of the next state.
LEMMA SplitNext == M!IndInv' <=> Shapes' /\ LocalOK' /\ Links'
BY Split, PTL

\* One row and one workflow change.
OneStep(p, o, r, w) ==
    /\ operation' = [operation EXCEPT ![o] = r]
    /\ work' = [work EXCEPT ![p][o] = w]
    /\ running' = running

\* The change is one IndInv allows: an operation that was claimed is not open
\* again, and a workflow begins only by claiming an approved one.
Allowed(p, o, r, w) ==
    /\ r \in M!Operations \cup {None} /\ RowOK(r)
    /\ w \in M!Workflows \cup {None} /\ WorkOK(w)
    /\ w # None => p \in running /\ r # None
    /\ operation[o] # None => r # None
    /\ operation[o] # None /\ operation[o].status \notin {"draft", "approved"} =>
          r.status \notin {"draft", "approved"}
    /\ Busy(w) => /\ r.status \notin {"draft", "approved"}
                  /\ Busy(work[p][o]) \/ operation[o].status = "approved"

\* Such a change keeps the invariant.
LEMMA StepKeeps ==
    ASSUME M!IndInv, NEW p \in Procs, NEW o \in Ops, NEW r, NEW w,
           OneStep(p, o, r, w), Allowed(p, o, r, w),
           edited' \in BOOLEAN, corpus' \in 0..MaxCorpus, left' \in [Faults -> Nat]
    PROVE  M!IndInv'
<1>0. Shapes /\ LocalOK /\ Links
  BY Split
<1>1. /\ \A n \in Ops : operation'[n] = IF n = o THEN r ELSE operation[n]
      /\ \A q \in Procs, n \in Ops : work'[q][n] = IF q = p /\ n = o THEN w ELSE work[q][n]
  BY <1>0 DEF Shapes, OneStep
<1>2. Shapes'
  BY <1>0 DEF Shapes, OneStep, Allowed
<1>3. LocalOK'
  <2>1. ASSUME NEW n \in Ops PROVE RowOK(operation'[n])
    BY <1>0, <1>1 DEF LocalOK, Allowed
  <2>2. ASSUME NEW q \in Procs, NEW n \in Ops
        PROVE  WorkOK(work'[q][n]) /\ (work'[q][n] # None => q \in running')
    BY <1>0, <1>1 DEF LocalOK, Allowed, OneStep
  <2> QED
    BY <2>1, <2>2 DEF LocalOK, RowOK, WorkOK
<1>4. M!ClaimedOnce'
  <2> SUFFICES ASSUME NEW q \in Procs, NEW n \in Ops
               PROVE  /\ work'[q][n] # None => operation'[n] # None
                      /\ Busy(work'[q][n]) => operation'[n].status \notin {"draft", "approved"}
    BY DEF M!ClaimedOnce, M!Works, Busy
  <2>1. CASE n # o
    BY <1>0, <1>1, <2>1 DEF Links, M!ClaimedOnce, M!Works, Busy
  <2>2. CASE n = o /\ q # p
    BY <1>0, <1>1, <2>2 DEF Links, M!ClaimedOnce, M!Works, Busy, Allowed
  <2>3. CASE n = o /\ q = p
    BY <1>1, <2>3 DEF Allowed
  <2> QED
    BY <2>1, <2>2, <2>3
<1>5. M!OneWorker'
  <2> SUFFICES ASSUME NEW n \in Ops, NEW a \in Procs, NEW b \in Procs,
                      Busy(work'[a][n]), Busy(work'[b][n])
               PROVE  a = b
    BY DEF M!OneWorker, M!Works, Busy
  <2>1. CASE n # o
    BY <1>0, <1>1, <2>1 DEF Links, M!OneWorker, M!Works, Busy
  <2>2. CASE n = o /\ Busy(w) /\ ~Busy(work[p][o])
    <3>1. operation[o].status = "approved"
      BY <2>2 DEF Allowed
    <3>2. \A q \in Procs : ~Busy(work[q][o])
      BY <1>0, <3>1 DEF Links, M!ClaimedOnce, M!Works, Busy
    <3> QED
      BY <1>1, <2>2, <3>2
  <2>3. CASE n = o /\ (Busy(w) => Busy(work[p][o]))
    BY <1>0, <1>1, <2>3 DEF Links, M!OneWorker, M!Works, Busy
  <2> QED
    BY <2>1, <2>2, <2>3
<1> QED
  BY <1>2, <1>3, <1>4, <1>5, SplitNext DEF Links

-----------------------------------------------------------------------------
\* Budgets stay numbers.
LEMMA SpendTyped ==
    ASSUME left \in [Faults -> Nat], NEW f, M!Spend(f)
    PROVE  left' \in [Faults -> Nat]
BY DEF M!Spend

\* No row or workflow is None by accident.
LEMMA Shaped ==
    ASSUME M!RemediationAssumption, NEW status \in M!Statuses, NEW stage \in M!Review..M!Complete,
           NEW bound \in 0..MaxCorpus, NEW approved \in BOOLEAN, NEW evidence \in Seq(M!Results),
           NEW ran \in M!Corpora, NEW place \in M!Places
    PROVE  /\ M!Row(status, stage, bound, approved, evidence, ran) \in M!Operations
           /\ M!Row(status, stage, bound, approved, evidence, ran) # None
           /\ M!Work(place, evidence, ran) \in M!Workflows
           /\ M!Work(place, evidence, ran) # None
BY DEF M!RemediationAssumption, M!Row, M!Work, M!Operations, M!Workflows

\* The initial state satisfies the invariant.
LEMMA RemediationInit == ASSUME M!RemediationAssumption PROVE M!Init => M!IndInv
<1> SUFFICES ASSUME M!Init PROVE M!IndInv
  OBVIOUS
<1>1. Shapes
  <2>1. edited \in BOOLEAN
    BY Zenon DEF M!Init
  <2> QED
    BY <2>1 DEF M!Init, Shapes, M!RemediationAssumption
<1>2. LocalOK /\ Links
  BY DEF M!Init, LocalOK, Links, RowOK, WorkOK, M!OneWorker, M!ClaimedOnce, M!Works
<1> QED
  BY <1>1, <1>2, Split

\* Drafting and approving: the steps of a person.
LEMMA PersonInv ==
    ASSUME M!RemediationAssumption, M!IndInv, NEW o \in Ops, M!Draft(o) \/ M!Approve(o)
    PROVE  M!IndInv'
<1>0. Shapes /\ LocalOK /\ Links
  BY Split
<1>1. UNCHANGED <<edited, corpus, work, running, left>>
  BY DEF M!Draft, M!Approve
<1> DEFINE status == IF operation[o] = None THEN "draft" ELSE "approved"
           bound == IF operation[o] = None THEN corpus ELSE operation[o].corpus
           r == M!Row(status, M!Review, bound, operation[o] # None, <<>>, None)
<1>2. operation' = [operation EXCEPT ![o] = r] /\ (operation[o] # None => operation[o].status = "draft")
  <2>1. CASE M!Draft(o)
    BY <2>1 DEF M!Draft
  <2>2. CASE M!Approve(o)
    BY <2>2 DEF M!Approve
  <2> QED
    BY <2>1, <2>2
<1>3. /\ status \in M!Statuses /\ bound \in 0..MaxCorpus /\ M!Review \in M!Review..M!Complete
      /\ <<>> \in Seq(M!Results) /\ None \in M!Corpora /\ (operation[o] # None) \in BOOLEAN
  BY <1>0 DEF Shapes, M!Statuses, M!Operations, M!Review, M!Complete, M!Corpora
<1>4. r \in M!Operations /\ r # None
  <2> HIDE DEF status, bound
  <2> QED
    BY <1>3, Shaped DEF M!Places
<1>5. RowOK(r) /\ r.status = status
  <2>1. r.status = status /\ r.stage = M!Review /\ (operation[o] # None => r.approved)
    BY DEF M!Row
  <2>2. status \in {"draft", "approved"} /\ (status = "approved" => operation[o] # None)
    OBVIOUS
  <2> HIDE DEF r, status
  <2> QED
    BY <2>1, <2>2 DEF RowOK, Outcome4, M!Review, M!Complete
<1>6. \A p \in Procs : ~M!Works(p, o)
  BY <1>0, <1>2 DEF Links, M!ClaimedOnce, M!Works
<1> HIDE DEF r, status
<1>7. Shapes'
  BY <1>0, <1>1, <1>2, <1>4 DEF Shapes
<1>8. \A n \in Ops : operation'[n] = IF n = o THEN r ELSE operation[n]
  BY <1>0, <1>2 DEF Shapes
<1>9. LocalOK'
  <2>1. ASSUME NEW n \in Ops PROVE RowOK(operation'[n])
    BY <1>0, <1>5, <1>8 DEF LocalOK
  <2>2. ASSUME NEW q \in Procs, NEW n \in Ops
        PROVE  WorkOK(work'[q][n]) /\ (work'[q][n] # None => q \in running')
    BY <1>0, <1>1 DEF LocalOK
  <2> QED
    BY <2>1, <2>2 DEF LocalOK, RowOK, WorkOK
<1>10. Links'
  BY <1>0, <1>1, <1>4, <1>6, <1>8 DEF Links, M!OneWorker, M!ClaimedOnce, M!Works
<1> QED
  BY <1>7, <1>9, <1>10, SplitNext

\* Asking for a start, and being refused or dropped: the row stays.
LEMMA AskInv ==
    ASSUME M!RemediationAssumption, M!IndInv, NEW p \in Procs, NEW o \in Ops,
           M!AskStart(p, o) \/ M!ClaimRefused(p, o)
    PROVE  M!IndInv'
<1>0. Shapes /\ LocalOK /\ Links
  BY Split
<1> DEFINE w == IF M!AskStart(p, o) THEN M!Work("claim", <<>>, None) ELSE None
<1>1. w \in M!Workflows \cup {None} /\ WorkOK(w) /\ ~Busy(w)
  BY DEF M!RemediationAssumption, M!Work, M!Workflows, M!Places, M!Corpora, WorkOK, Busy, M!FollowUp
<1>2. OneStep(p, o, operation[o], w) /\ UNCHANGED <<edited, corpus, left>>
  BY <1>0 DEF M!AskStart, M!ClaimRefused, M!Do, OneStep, Shapes
<1>3. w # None => p \in running /\ operation[o] # None
  BY DEF M!AskStart
<1> HIDE DEF w
<1>4. Allowed(p, o, operation[o], w)
  BY <1>0, <1>1, <1>3 DEF Shapes, LocalOK, Allowed
<1> QED
  BY <1>0, <1>2, <1>4, StepKeeps DEF Shapes

\* claim_remediation_operation, its caller there or dropped.
LEMMA ClaimInv ==
    ASSUME M!RemediationAssumption, M!IndInv, NEW p \in Procs, NEW o \in Ops,
           M!Claim(p, o) \/ M!ClaimDropped(p, o)
    PROVE  M!IndInv'
<1>0. Shapes /\ LocalOK /\ Links
  BY Split
<1>1. operation[o] # None /\ operation[o] \in M!Operations /\ RowOK(operation[o]) /\ p \in running
  BY <1>0 DEF M!Claim, M!ClaimDropped, M!At, Links, M!ClaimedOnce, Shapes, LocalOK
<1> DEFINE r == M!Row("running", 1, operation[o].corpus, operation[o].approved, <<>>, None)
           w == M!Work("preflight", <<>>, None)
<1>2. r \in M!Operations /\ r # None /\ w \in M!Workflows /\ w # None
  <2>1. /\ "running" \in M!Statuses /\ 1 \in M!Review..M!Complete /\ operation[o].corpus \in 0..MaxCorpus
        /\ operation[o].approved \in BOOLEAN /\ <<>> \in Seq(M!Results) /\ None \in M!Corpora
        /\ "preflight" \in M!Places
    BY <1>1 DEF M!Statuses, M!Review, M!Complete, M!Operations, M!Corpora, M!Places
  <2> QED
    BY <2>1, Shaped
<1>3. WorkOK(w) /\ r.status = "running"
  BY DEF WorkOK, M!Work, M!Row, M!FollowUp
<1>4. M!Claimable(o) => RowOK(r)
  BY <1>1 DEF RowOK, M!Row, M!Claimable, Outcome4, M!Complete, M!FollowUp
<1>5. left' \in [Faults -> Nat] /\ UNCHANGED <<edited, corpus>>
  BY <1>0, SpendTyped DEF M!Claim, M!ClaimDropped, Shapes
<1> HIDE DEF r, w
<1>6. CASE M!Claim(p, o)
  <2>1. OneStep(p, o, r, w)
    BY <1>6 DEF M!Claim, M!Claimed, M!Do, OneStep, r, w
  <2>2. M!Claimable(o) /\ operation[o].status = "approved"
    BY <1>6 DEF M!Claim, M!Claimable
  <2>3. Allowed(p, o, r, w)
    BY <1>1, <1>2, <1>3, <1>4, <2>2 DEF Allowed
  <2> QED
    BY <1>0, <1>5, <2>1, <2>3, StepKeeps DEF Shapes
<1>7. ASSUME M!Claimable(o), M!Claimed(o), M!Do(p, o, None), running' = running PROVE M!IndInv'
  <2>1. OneStep(p, o, r, None)
    BY <1>7 DEF M!Claimed, M!Do, OneStep, r
  <2>2. Allowed(p, o, r, None)
    BY <1>1, <1>2, <1>3, <1>4, <1>7 DEF Allowed, WorkOK, Busy
  <2> QED
    BY <1>0, <1>5, <2>1, <2>2, StepKeeps DEF Shapes
<1>8. ASSUME operation' = operation, M!Do(p, o, None), running' = running PROVE M!IndInv'
  <2>1. OneStep(p, o, operation[o], None)
    BY <1>0, <1>8 DEF M!Do, OneStep, Shapes
  <2>2. Allowed(p, o, operation[o], None)
    BY <1>1 DEF Allowed, WorkOK, Busy
  <2> QED
    BY <1>0, <1>5, <2>1, <2>2, StepKeeps DEF Shapes
<1> QED
  BY <1>6, <1>7, <1>8 DEF M!ClaimDropped

-----------------------------------------------------------------------------
(* The workflow.                                                            *)

\* A workflow under way has its operation, and its process runs.
LEMMA WorkerFacts ==
    ASSUME M!IndInv, NEW p \in Procs, NEW o \in Ops, work[p][o] # None
    PROVE  /\ operation[o] # None /\ operation[o] \in M!Operations /\ RowOK(operation[o])
           /\ work[p][o] \in M!Workflows /\ WorkOK(work[p][o])
           /\ p \in running
           /\ Busy(work[p][o]) => operation[o].status \notin {"draft", "approved"}
<1>0. Shapes /\ LocalOK /\ Links
  BY Split
<1> QED
  BY <1>0 DEF Shapes, LocalOK, Links, M!ClaimedOnce, M!Works, Busy

\* A workflow that goes on to w while its row stays.
LEMMA GoesOn ==
    ASSUME M!IndInv, NEW p \in Procs, NEW o \in Ops, Busy(work[p][o]),
           NEW w \in M!Workflows \cup {None}, WorkOK(w),
           operation' = operation, M!Do(p, o, w), running' = running,
           edited' \in BOOLEAN, corpus' \in 0..MaxCorpus, left' \in [Faults -> Nat]
    PROVE  M!IndInv'
<1>0. Shapes
  BY Split
<1>1. /\ operation[o] # None /\ operation[o] \in M!Operations /\ RowOK(operation[o]) /\ p \in running
      /\ operation[o].status \notin {"draft", "approved"}
  BY WorkerFacts DEF Busy
<1>2. OneStep(p, o, operation[o], w)
  BY <1>0 DEF OneStep, M!Do, Shapes
<1>3. Allowed(p, o, operation[o], w)
  BY <1>1 DEF Allowed
<1> QED
  BY <1>2, <1>3, StepKeeps

\* The preflight comparisons.
LEMMA PreflightInv ==
    ASSUME M!RemediationAssumption, M!IndInv, NEW p \in Procs, NEW o \in Ops,
           M!Preflight(p, o) \/ M!PreflightFails(p, o)
    PROVE  M!IndInv'
<1>0. Shapes
  BY Split
<1>1. Busy(work[p][o])
  BY DEF M!Preflight, M!PreflightFails, M!At, Busy
<1>2. PICK next \in {"stage", "inconclusive", "fail_closed"} : M!Do(p, o, M!Work(next, <<>>, None))
  BY DEF M!Preflight, M!PreflightFails
<1>3. M!Work(next, <<>>, None) \in M!Workflows \cup {None} /\ WorkOK(M!Work(next, <<>>, None))
  BY DEF M!Work, M!Workflows, M!Places, M!Corpora, WorkOK, M!FollowUp
<1>4. UNCHANGED <<operation, edited, corpus, running, left>>
  BY DEF M!Preflight, M!PreflightFails
<1> QED
  BY <1>0, <1>1, <1>2, <1>3, <1>4, GoesOn DEF Shapes

\* One stage in the sandbox, and advance_best_effort.
LEMMA StageInv ==
    ASSUME M!RemediationAssumption, M!IndInv, NEW p \in Procs, NEW o \in Ops,
           NEW result \in {"passed", "failed", "inconclusive"}, M!Stage(p, o, result)
    PROVE  M!IndInv'
<1>0. Shapes
  BY Split
<1> DEFINE v == work[p][o]
           stage == Len(v.done) + 1
           ran == IF stage = 4 THEN corpus ELSE v.ran
           w == M!Work(IF M!Halts(result, stage) THEN "finish" ELSE "stage", Append(v.done, result), ran)
<1>1. M!At(p, o, "stage") /\ Busy(v) /\ v # None /\ v.at = "stage"
  BY DEF M!Stage, M!At, Busy
<1>2. /\ operation[o] # None /\ operation[o] \in M!Operations /\ RowOK(operation[o])
      /\ v \in M!Workflows /\ WorkOK(v) /\ p \in running /\ operation[o].status \notin {"draft", "approved"}
  BY <1>1, WorkerFacts
<1>3. /\ v.done \in Seq(M!Results) /\ Len(v.done) \in Nat /\ Len(v.done) < M!FollowUp
      /\ \A i \in 1..Len(v.done) : v.done[i] = "passed"
      /\ Len(v.done) >= 4 => v.ran # None
      /\ v.ran \in M!Corpora
  BY <1>1, <1>2 DEF WorkOK, M!Workflows
<1>4. corpus \in 0..MaxCorpus /\ corpus \in M!Corpora /\ corpus # None
  BY <1>0 DEF Shapes, M!Corpora, M!RemediationAssumption
<1>5. w \in M!Workflows
  BY <1>3, <1>4 DEF M!Work, M!Workflows, M!Places, M!Results
<1>6. /\ w.done = Append(v.done, result) /\ w.ran = ran
      /\ w.at = IF M!Halts(result, stage) THEN "finish" ELSE "stage"
  BY DEF M!Work
<1>7. WorkOK(w)
  <2> DEFINE d == Append(v.done, result)
  <2>1. Len(d) = Len(v.done) + 1 /\ \A i \in 1..Len(v.done) : d[i] = v.done[i]
    BY <1>3 DEF M!Results
  <2>2. d[Len(v.done) + 1] = result
    BY <1>3 DEF M!Results
  <2>3. stage >= 4 => ran # None
    <3>1. CASE stage = 4
      BY <1>4, <3>1
    <3>2. CASE stage # 4
      BY <1>3, <3>2
    <3> QED
      BY <3>1, <3>2
  <2> HIDE DEF d
  <2>4. w.at = "stage" => result = "passed" /\ stage # M!FollowUp
    BY <1>6 DEF M!Halts
  <2>5. w.done = d /\ w.at \notin {"claim", "preflight"}
    BY <1>6 DEF d
  <2>6. Len(w.done) <= M!FollowUp /\ (Len(w.done) >= 4 => w.ran # None)
    BY <1>3, <1>6, <2>1, <2>3, <2>5 DEF M!FollowUp
  <2>7. \A i \in 1..(Len(w.done) - 1) : w.done[i] = "passed"
    BY <1>3, <2>1, <2>5
  <2>8. ASSUME w.at = "stage"
        PROVE  Len(w.done) < M!FollowUp /\ \A i \in 1..Len(w.done) : w.done[i] = "passed"
    <3>1. result = "passed" /\ Len(v.done) + 1 # M!FollowUp /\ w.done = d
      BY <2>4, <2>5, <2>8
    <3>2. Len(d) < M!FollowUp
      BY <1>3, <2>1, <3>1 DEF M!FollowUp
    <3>3. ASSUME NEW i \in 1..Len(d) PROVE d[i] = "passed"
      <4>1. i \in 1..Len(v.done) \/ i = Len(v.done) + 1
        BY <1>3, <2>1
      <4> QED
        BY <1>3, <2>1, <2>2, <3>1, <4>1
    <3> QED
      BY <3>1, <3>2, <3>3
  <2> QED
    BY <2>5, <2>6, <2>7, <2>8 DEF WorkOK
<1>8. M!Do(p, o, w) /\ UNCHANGED <<edited, running>>
  BY DEF M!Stage
<1>9. corpus' \in 0..MaxCorpus
  BY <1>4 DEF M!Stage, M!RemediationAssumption
<1>10. /\ left' \in [Faults -> Nat]
       /\ operation' = operation \/ (stage < M!FollowUp /\ M!Advance(o, stage))
  BY <1>0, SpendTyped DEF M!Stage, Shapes
<1> HIDE DEF w
<1>11. CASE operation' = operation
  BY <1>0, <1>1, <1>5, <1>7, <1>8, <1>9, <1>10, <1>11, GoesOn DEF Shapes
<1>12. CASE operation' # operation
  <2> DEFINE r == M!Row("running", stage + 1, operation[o].corpus, operation[o].approved, <<>>, None)
  <2>1. operation[o].status = "running" /\ operation' = [operation EXCEPT ![o] = r] /\ stage < M!FollowUp
    BY <1>10, <1>12 DEF M!Advance
  <2>2. r \in M!Operations /\ r # None
    <3>1. /\ "running" \in M!Statuses /\ stage + 1 \in M!Review..M!Complete
          /\ operation[o].corpus \in 0..MaxCorpus /\ operation[o].approved \in BOOLEAN
          /\ <<>> \in Seq(M!Results) /\ None \in M!Corpora /\ "stage" \in M!Places
      <4>1. stage + 1 \in M!Review..M!Complete
        BY <1>3, <2>1 DEF M!Review, M!Complete, M!FollowUp
      <4>2. operation[o].corpus \in 0..MaxCorpus /\ operation[o].approved \in BOOLEAN
        BY <1>2 DEF M!Operations
      <4> QED
        BY <4>1, <4>2 DEF M!Statuses, M!Corpora, M!Places
    <3> HIDE DEF stage
    <3> QED
      BY <3>1, Shaped
  <2>3. RowOK(r) /\ r.status = "running"
    <3>1. operation[o].approved
      BY <1>2, <2>1 DEF RowOK
    <3>2. r.status = "running" /\ r.stage = stage + 1 /\ r.approved = operation[o].approved
      BY DEF M!Row
    <3>3. stage + 1 \in 1..M!FollowUp /\ stage + 1 # M!Complete
      BY <1>3, <2>1 DEF M!FollowUp, M!Complete
    <3> HIDE DEF r, stage
    <3> QED
      BY <3>1, <3>2, <3>3 DEF RowOK, Outcome4
  <2> HIDE DEF r, stage
  <2>4. OneStep(p, o, r, w)
    BY <1>8, <2>1 DEF OneStep, M!Do
  <2>5. Allowed(p, o, r, w)
    BY <1>1, <1>2, <1>5, <1>7, <2>2, <2>3 DEF Allowed
  <2> QED
    BY <1>0, <1>8, <1>9, <1>10, <2>4, <2>5, StepKeeps DEF Shapes
<1> QED
  BY <1>11, <1>12

\* The outcome of the stages: verified means that all five passed.
LEMMA DerivedProven ==
    ASSUME NEW done \in Seq(M!Results), Len(done) <= M!FollowUp
    PROVE  /\ M!Derived(done) \in {"verified", "rejected", "inconclusive"}
           /\ M!Derived(done) = "verified" =>
                 Len(done) = M!FollowUp /\ done = [i \in 1..M!FollowUp |-> "passed"]
<1>1. M!Derived(done) \in {"verified", "rejected", "inconclusive"}
  BY DEF M!Derived
<1>2. ASSUME M!Derived(done) = "verified"
      PROVE  Len(done) = M!FollowUp /\ done = [i \in 1..M!FollowUp |-> "passed"]
  <2>1. /\ Len(done) = M!FollowUp
        /\ \A i \in 1..Len(done) : done[i] # "inconclusive" /\ done[i] # "failed"
    BY <1>2 DEF M!Derived
  <2>2. \A i \in 1..Len(done) : done[i] \in M!Results
    OBVIOUS
  <2>3. \A i \in 1..M!FollowUp : done[i] = "passed"
    BY <2>1, <2>2 DEF M!Results
  <2>4. done = [i \in 1..M!FollowUp |-> done[i]]
    BY <2>1
  <2> QED
    BY <2>1, <2>3, <2>4
<1> QED
  BY <1>1, <1>2

\* finish_remediation_operation, working, too late or failing.
LEMMA FinishInv ==
    ASSUME M!RemediationAssumption, M!IndInv, NEW p \in Procs, NEW o \in Ops,
           M!Finish(p, o) \/ M!FinishFails(p, o)
    PROVE  M!IndInv'
<1>0. Shapes
  BY Split
<1> DEFINE v == work[p][o]
           closed == M!Work("fail_closed", <<>>, None)
           r == M!Row(M!Outcome(p, o), M!Complete, operation[o].corpus, operation[o].approved, v.done, v.ran)
<1>1. v # None /\ Busy(v) /\ v.at \in {"finish", "inconclusive", "fail_closed"}
  BY DEF M!Finish, M!FinishFails, M!At, Busy
<1>2. /\ operation[o] # None /\ operation[o] \in M!Operations /\ RowOK(operation[o])
      /\ v \in M!Workflows /\ WorkOK(v) /\ p \in running /\ operation[o].status \notin {"draft", "approved"}
  BY <1>1, WorkerFacts
<1>3. closed \in M!Workflows /\ WorkOK(closed) /\ WorkOK(None)
  BY DEF M!Work, M!Workflows, M!Places, M!Corpora, WorkOK, M!FollowUp
<1>4. /\ UNCHANGED <<edited, corpus, running>>
      /\ left' \in [Faults -> Nat]
  BY <1>0, SpendTyped DEF M!Finish, M!FinishFails, Shapes
<1>5. CASE operation' = operation /\ \E w \in {closed, None} : M!Do(p, o, w)
  BY <1>0, <1>1, <1>3, <1>4, <1>5, GoesOn DEF Shapes
<1>6. CASE operation[o].status = "running" /\ operation' = [operation EXCEPT ![o] = r] /\ M!Do(p, o, None)
  <2>1. v.done \in Seq(M!Results) /\ v.ran \in M!Corpora /\ Len(v.done) <= M!FollowUp
    BY <1>1, <1>2 DEF M!Workflows, WorkOK
  <2>2. /\ M!Outcome(p, o) \in {"verified", "rejected", "inconclusive"}
        /\ M!Outcome(p, o) = "verified" =>
              Len(v.done) = M!FollowUp /\ v.done = [i \in 1..M!FollowUp |-> "passed"]
    BY <2>1, DerivedProven DEF M!Outcome
  <2>3. operation[o].approved /\ operation[o].approved \in BOOLEAN /\ operation[o].corpus \in 0..MaxCorpus
    BY <1>2, <1>6 DEF RowOK, M!Operations
  <2>4. M!Outcome(p, o) = "verified" => v.ran # None
    <3>1. Len(v.done) >= 4 => v.ran # None
      BY <1>1, <1>2 DEF WorkOK
    <3>2. Len(v.done) = M!FollowUp => Len(v.done) >= 4
      BY DEF M!FollowUp
    <3> HIDE DEF v
    <3> QED
      BY <2>2, <3>1, <3>2, Zenon
  <2>5. r \in M!Operations /\ r # None
    <3>1. M!Outcome(p, o) \in M!Statuses /\ M!Complete \in M!Review..M!Complete /\ "finish" \in M!Places
      BY <2>2 DEF M!Statuses, M!Review, M!Complete, M!Places
    <3> HIDE DEF v
    <3> QED
      BY <2>1, <2>3, <3>1, Shaped
  <2>6. /\ r.status = M!Outcome(p, o) /\ r.stage = M!Complete /\ r.approved = operation[o].approved
        /\ r.evidence = v.done /\ r.ran = v.ran
    BY DEF M!Row
  <2> HIDE DEF r
  <2>7. RowOK(r) /\ r.status \notin {"draft", "approved"}
    BY <2>2, <2>3, <2>4, <2>6 DEF RowOK, Outcome4, M!Complete
  <2>8. OneStep(p, o, r, None)
    BY <1>4, <1>6 DEF OneStep, M!Do
  <2>9. Allowed(p, o, r, None)
    BY <1>3, <2>5, <2>7 DEF Allowed, Busy
  <2> QED
    BY <1>0, <1>4, <2>8, <2>9, StepKeeps DEF Shapes
<1>7. CASE M!FinishFails(p, o)
  BY <1>5, <1>7 DEF M!FinishFails
<1>8. CASE M!Finish(p, o)
  BY <1>5, <1>6, <1>8 DEF M!Finish, M!Publish
<1> QED
  BY <1>7, <1>8

-----------------------------------------------------------------------------
(* Processes.                                                               *)

\* A process goes: its workflows are gone with it.
LEMMA GoneInv ==
    ASSUME M!IndInv, NEW p \in Procs, running' = running \ {p}, operation' = operation,
           edited' = edited, corpus' = corpus, left' \in [Faults -> Nat],
           work' = [work EXCEPT ![p] = [o \in Ops |-> None]]
    PROVE  M!IndInv'
<1>0. Shapes /\ LocalOK /\ Links
  BY Split
<1>1. \A q \in Procs, n \in Ops : work'[q][n] = IF q = p THEN None ELSE work[q][n]
  BY <1>0 DEF Shapes
<1>2. Shapes'
  BY <1>0 DEF Shapes
<1>3. LocalOK'
  <2>1. \A n \in Ops : RowOK(operation'[n])
    BY <1>0 DEF LocalOK
  <2>2. ASSUME NEW q \in Procs, NEW n \in Ops
        PROVE  WorkOK(work'[q][n]) /\ (work'[q][n] # None => q \in running')
    BY <1>0, <1>1 DEF LocalOK, WorkOK
  <2> QED
    BY <2>1, <2>2 DEF LocalOK, RowOK, WorkOK
<1>4. Links'
  BY <1>0, <1>1 DEF Links, M!OneWorker, M!ClaimedOnce, M!Works
<1> QED
  BY <1>2, <1>3, <1>4, SplitNext

\* A process that exits has no workflow to lose.
LEMMA ExitInv ==
    ASSUME M!IndInv, NEW p \in Procs, M!Exit(p) PROVE M!IndInv'
<1>0. Shapes
  BY Split
<1>1. work = [work EXCEPT ![p] = [o \in Ops |-> None]]
  <2>1. work[p] = [o \in Ops |-> None]
    <3>1. work[p] = [o \in Ops |-> work[p][o]]
      BY <1>0 DEF Shapes
    <3> QED
      BY <3>1 DEF M!Exit
  <2> QED
    BY <1>0, <2>1 DEF Shapes
<1> QED
  BY <1>0, <1>1, GoneInv DEF M!Exit, Shapes

\* recover_interrupted_remediations: a process starts and ends what it finds
\* running, its own and that of others.
LEMMA StartInv ==
    ASSUME M!RemediationAssumption, M!IndInv, NEW p \in Procs, M!Start(p) PROVE M!IndInv'
<1>0. Shapes /\ LocalOK /\ Links
  BY Split
<1>1. /\ running' = running \cup {p} /\ UNCHANGED <<edited, corpus, work>>
      /\ left' \in [Faults -> Nat]
      /\ operation' = operation \/ operation' = M!Recovered
  BY <1>0, SpendTyped DEF M!Start, Shapes
<1> DEFINE Ended(n) == M!Row("interrupted", M!Complete, operation[n].corpus, operation[n].approved, <<>>, None)
<1>2. ASSUME NEW n \in Ops, operation[n] # None
      PROVE  /\ Ended(n) \in M!Operations /\ Ended(n) # None /\ RowOK(Ended(n))
             /\ Ended(n).status = "interrupted"
  <2>1. /\ "interrupted" \in M!Statuses /\ M!Complete \in M!Review..M!Complete /\ "stage" \in M!Places
        /\ <<>> \in Seq(M!Results) /\ None \in M!Corpora
    BY DEF M!Statuses, M!Review, M!Complete, M!Places, M!Corpora
  <2>2. operation[n].corpus \in 0..MaxCorpus /\ operation[n].approved \in BOOLEAN
    BY <1>0, <1>2 DEF Shapes, M!Operations
  <2>3. Ended(n) \in M!Operations /\ Ended(n) # None
    BY <2>1, <2>2, Shaped
  <2>4. Ended(n).status = "interrupted" /\ Ended(n).stage = M!Complete
    BY DEF M!Row
  <2> HIDE DEF Ended
  <2>5. RowOK(Ended(n))
    BY <2>4 DEF RowOK, Outcome4, M!Complete
  <2> QED
    BY <2>3, <2>4, <2>5
<1>3. ASSUME NEW n \in Ops
      PROVE  \/ operation'[n] = operation[n]
             \/ operation[n] # None /\ operation'[n] = Ended(n)
  BY <1>1 DEF M!Recovered
<1> HIDE DEF Ended
<1>4. operation' \in [Ops -> M!Operations \cup {None}]
  <2>1. M!Recovered \in [Ops -> M!Operations \cup {None}]
    <3>1. ASSUME NEW n \in Ops
          PROVE  (IF operation[n] # None /\ operation[n].status = "running" THEN Ended(n) ELSE operation[n])
                    \in M!Operations \cup {None}
      BY <1>0, <1>2 DEF Shapes
    <3> QED
      BY <3>1 DEF M!Recovered, Ended
  <2> QED
    BY <1>0, <1>1, <2>1 DEF Shapes
<1>5. Shapes'
  BY <1>0, <1>1, <1>4 DEF Shapes
<1>6. LocalOK'
  <2>1. ASSUME NEW n \in Ops PROVE RowOK(operation'[n])
    BY <1>0, <1>2, <1>3 DEF LocalOK
  <2>2. ASSUME NEW q \in Procs, NEW n \in Ops
        PROVE  WorkOK(work'[q][n]) /\ (work'[q][n] # None => q \in running')
    BY <1>0, <1>1 DEF LocalOK
  <2> QED
    BY <2>1, <2>2 DEF LocalOK, RowOK, WorkOK
<1>7. Links'
  <2>1. ASSUME NEW q \in Procs, NEW n \in Ops
        PROVE  /\ work'[q][n] # None => operation'[n] # None
               /\ M!Works(q, n)' => operation'[n].status \notin {"draft", "approved"}
    BY <1>0, <1>1, <1>2, <1>3 DEF Links, M!ClaimedOnce, M!Works
  <2>2. M!OneWorker'
    BY <1>0, <1>1 DEF Links, M!OneWorker, M!Works
  <2> QED
    BY <2>1, <2>2 DEF Links, M!ClaimedOnce
<1> QED
  BY <1>5, <1>6, <1>7, SplitNext

\* Every step keeps the invariant.
LEMMA RemediationNext == ASSUME M!RemediationAssumption PROVE M!IndInv /\ [M!Next]_M!vars => M!IndInv'
<1> SUFFICES ASSUME M!IndInv, [M!Next]_M!vars PROVE M!IndInv'
  OBVIOUS
<1>0. Shapes
  BY Split
<1>1. ASSUME NEW o \in Ops, M!Draft(o) \/ M!Approve(o) PROVE M!IndInv'
  BY <1>1, PersonInv
<1>2. ASSUME NEW p \in Procs, NEW o \in Ops, M!AskStart(p, o) \/ M!Run(p, o) \/ M!ClaimDropped(p, o)
      PROVE  M!IndInv'
  BY <1>2, AskInv, ClaimInv, PreflightInv, StageInv, FinishInv DEF M!Run
<1>3. ASSUME NEW p \in Procs, M!Crash(p) PROVE M!IndInv'
  BY <1>0, <1>3, SpendTyped, GoneInv DEF M!Crash, Shapes
<1>4. ASSUME NEW p \in Procs, M!Start(p) \/ M!Exit(p) PROVE M!IndInv'
  BY <1>4, StartInv, ExitInv
<1>5. CASE M!EditSource \/ UNCHANGED M!vars
  <2>1. UNCHANGED <<operation, corpus, work, running>> /\ left' \in [Faults -> Nat]
    BY <1>0, <1>5, SpendTyped DEF M!EditSource, M!vars, Shapes
  <2>2. edited' \in BOOLEAN
    BY <1>0, <1>5, Zenon DEF M!EditSource, M!vars, Shapes
  <2>3. Shapes'
    BY <1>0, <2>1, <2>2 DEF Shapes
  <2>4. LocalOK'
    BY <2>1, Split DEF LocalOK, RowOK, WorkOK
  <2>5. Links'
    BY <2>1, Split DEF Links, M!OneWorker, M!ClaimedOnce, M!Works
  <2> QED
    BY <2>3, <2>4, <2>5, SplitNext
<1> QED
  BY <1>1, <1>2, <1>3, <1>4, <1>5 DEF M!Next

\* Operations and workflows are well typed, at most one workflow runs for an
\* operation (claim_remediation_operation), a verified claim was approved and
\* passed its five stages in one workflow (verification_status), and stages
\* run in order (run_verification_stages).
THEOREM RemediationAlwaysHolds ==
    ASSUME M!RemediationAssumption PROVE M!Spec => []M!RemediationHolds
<1>1. M!Init => M!IndInv
  BY RemediationInit
<1>2. M!IndInv /\ [M!Next]_M!vars => M!IndInv'
  BY RemediationNext
<1>3. M!IndInv => M!RemediationHolds
  BY DEF M!IndInv
<1> QED
  BY <1>1, <1>2, <1>3, PTL DEF M!Spec

\* A late workflow, a second caller and the recovery of another process leave
\* an outcome alone (finish_remediation_operation).
THEOREM OutcomesStay ==
    ASSUME M!RemediationAssumption PROVE M!Spec => [][M!OutcomeStays]_M!vars
<1>1. M!Init => M!IndInv
  BY RemediationInit
<1>2. M!IndInv /\ [M!Next]_M!vars => M!IndInv'
  BY RemediationNext
<1>3. M!IndInv /\ [M!Next]_M!vars => [M!OutcomeStays]_M!vars
  <2> SUFFICES ASSUME M!IndInv, M!Next, NEW n \in Ops, operation[n] # None, operation[n].stage = M!Complete
               PROVE  operation'[n] = operation[n]
    BY DEF M!OutcomeStays
  <2>0. Shapes /\ RowOK(operation[n])
    BY Split DEF LocalOK
  <2>1. operation[n].status \in Outcome4
    BY <2>0 DEF RowOK
  <2>2. CASE operation' = operation
    BY <2>2
  <2>3. ASSUME NEW o \in Ops, NEW r, operation' = [operation EXCEPT ![o] = r],
               operation[o] = None \/ operation[o].status \in {"draft", "approved", "running"}
        PROVE  operation'[n] = operation[n]
    BY <2>0, <2>1, <2>3 DEF Shapes, Outcome4
  <2>4. ASSUME NEW o \in Ops, M!Draft(o) \/ M!Approve(o) PROVE operation'[n] = operation[n]
    BY <2>3, <2>4 DEF M!Draft, M!Approve
  <2>5. ASSUME NEW p \in Procs, NEW o \in Ops,
               M!AskStart(p, o) \/ M!Run(p, o) \/ M!ClaimDropped(p, o)
        PROVE  operation'[n] = operation[n]
    <3>1. CASE M!Claim(p, o) \/ M!ClaimDropped(p, o)
      BY <2>2, <2>3, <3>1 DEF M!Claim, M!ClaimDropped, M!Claimed, M!Claimable
    <3>2. ASSUME NEW result \in {"passed", "failed", "inconclusive"}, M!Stage(p, o, result)
          PROVE  operation'[n] = operation[n]
      BY <2>2, <2>3, <3>2 DEF M!Stage, M!Advance
    <3>3. CASE M!Finish(p, o)
      BY <2>2, <2>3, <3>3 DEF M!Finish, M!Publish
    <3>4. CASE \/ M!AskStart(p, o) \/ M!ClaimRefused(p, o) \/ M!Preflight(p, o)
               \/ M!PreflightFails(p, o) \/ M!FinishFails(p, o)
      BY <2>2, <3>4 DEF M!AskStart, M!ClaimRefused, M!Preflight, M!PreflightFails, M!FinishFails
    <3> QED
      BY <2>5, <3>1, <3>2, <3>3, <3>4 DEF M!Run
  <2>6. ASSUME NEW p \in Procs, M!Crash(p) \/ M!Start(p) \/ M!Exit(p) PROVE operation'[n] = operation[n]
    BY <2>1, <2>6 DEF M!Crash, M!Start, M!Exit, M!Recovered, Outcome4
  <2>7. CASE M!EditSource
    BY <2>7 DEF M!EditSource
  <2> QED
    BY <2>4, <2>5, <2>6, <2>7 DEF M!Next
<1> QED
  BY <1>1, <1>2, <1>3, PTL DEF M!Spec

-----------------------------------------------------------------------------
(* The filing of issues.                                                     *)

\* The types: an attempt that has not sent its request has none under way.
LEMMA TypeOKKeeps == F!FilingAssumption /\ F!IndInv /\ [F!Next]_F!vars => F!TypeOK'
<1> SUFFICES ASSUME F!FilingAssumption, F!IndInv, [F!Next]_F!vars PROVE F!TypeOK'
  OBVIOUS
<1> USE DEF F!IndInv, F!TypeOK, F!Unsent, F!FilingAssumption, F!attempt, F!remote, F!Goto, F!Learn, F!Waiting, F!Running, F!Finished, F!Nothing
<1>1. ASSUME NEW a \in Attempts, NEW p \in Procs, F!Start(a, p) PROVE F!TypeOK'
  BY <1>1 DEF F!Start
<1>2. ASSUME NEW a \in Attempts, F!Lock(a) PROVE F!TypeOK'
  BY <1>2 DEF F!Lock
<1>3. ASSUME NEW a \in Attempts, F!Claim(a) PROVE F!TypeOK'
  <2>1. CASE ledger.state = F!Nothing
    <3>1. ledger' = [state |-> "claimed", holder |-> a, issue |-> F!Nothing]
      BY <1>3, <2>1 DEF F!Claim
    <3>2. ledger' \in [state : {F!Nothing, "claimed", "done"},
                  holder : Attempts \cup {F!Nothing}, issue : Attempts \cup {F!Nothing}]
      BY <3>1
    <3> QED
      BY <1>3, <2>1, <3>2 DEF F!Claim
  <2>2. CASE ledger.state = "done"
    BY <1>3, <2>2 DEF F!Claim
  <2>3. CASE ledger.state = "claimed"
    BY <1>3, <2>3 DEF F!Claim
  <2> QED
    BY <1>3, <2>1, <2>2, <2>3 DEF F!Claim
<1>4. ASSUME NEW a \in Attempts, F!Search(a) PROVE F!TypeOK'
  BY <1>4 DEF F!Search
<1>5. ASSUME NEW a \in Attempts, F!Send(a) PROVE F!TypeOK'
  BY <1>5 DEF F!Send
<1>6. ASSUME NEW a \in Attempts, F!Land(a) PROVE F!TypeOK'
  BY <1>6 DEF F!Land
<1>7. ASSUME NEW a \in Attempts, F!Created(a) PROVE F!TypeOK'
  BY <1>7 DEF F!Created
<1>8. ASSUME NEW a \in Attempts, F!CreateFails(a) PROVE F!TypeOK'
  BY <1>8 DEF F!CreateFails
<1>9. ASSUME NEW a \in Attempts, F!Reconcile(a) PROVE F!TypeOK'
  BY <1>9 DEF F!Reconcile
<1>10. ASSUME NEW a \in Attempts, F!Reclaim(a) PROVE F!TypeOK'
  <2>1. CASE ledger.state = "claimed" /\ expired
    <3>1. ledger' = [ledger EXCEPT !.holder = a]
      BY <1>10, <2>1 DEF F!Reclaim
    <3>2. ledger' \in [state : {F!Nothing, "claimed", "done"},
                  holder : Attempts \cup {F!Nothing}, issue : Attempts \cup {F!Nothing}]
      BY <3>1
    <3>3. /\ expired' = FALSE
          /\ fence' = [fence EXCEPT ![a] = a] /\ at' = [at EXCEPT ![a] = "create"]
          /\ UNCHANGED <<issue, proc, F!remote, crashes>>
      BY <1>10, <2>1 DEF F!Reclaim
    <3> QED
      BY <3>2, <3>3
  <2>2. CASE ledger.state = "done"
    BY <1>10, <2>2 DEF F!Reclaim
  <2>3. CASE ledger.state = "claimed" /\ ~expired
    BY <1>10, <2>3 DEF F!Reclaim
  <2> QED
    BY <1>10, <2>1, <2>2, <2>3 DEF F!Reclaim
<1>11. ASSUME NEW a \in Attempts, F!Complete(a) PROVE F!TypeOK'
  BY <1>11 DEF F!Complete
<1>12. ASSUME NEW a \in Attempts, F!StoreFails(a) PROVE F!TypeOK'
  BY <1>12 DEF F!StoreFails
<1>13. ASSUME NEW a \in Attempts, F!Forget(a) PROVE F!TypeOK'
  BY <1>13 DEF F!Forget
<1>14. ASSUME NEW p \in Procs, F!Crash(p) PROVE F!TypeOK'
  BY <1>14 DEF F!Crash
<1>15. ASSUME F!Expire PROVE F!TypeOK'
  BY <1>15 DEF F!Expire
<1>16. CASE UNCHANGED F!vars
  BY <1>16 DEF F!vars
<1> QED
  BY <1>1, <1>2, <1>3, <1>4, <1>5, <1>6, <1>7, <1>8, <1>9, <1>10, <1>11, <1>12, <1>13, <1>14, <1>15, <1>16 DEF F!Next, F!Step

\* An attempt that has yet to send its request has no issue and none under way.
LEMMA UnsentKeeps == F!FilingAssumption /\ F!IndInv /\ [F!Next]_F!vars => F!Unsent'
<1> SUFFICES ASSUME F!FilingAssumption, F!IndInv, [F!Next]_F!vars PROVE F!Unsent'
  OBVIOUS
<1> USE DEF F!IndInv, F!TypeOK, F!Unsent, F!FilingAssumption, F!attempt, F!remote, F!Goto, F!Learn, F!Waiting, F!Running, F!Finished, F!Nothing
<1>1. ASSUME NEW a \in Attempts, NEW p \in Procs, F!Start(a, p) PROVE F!Unsent'
  BY <1>1 DEF F!Start
<1>2. ASSUME NEW a \in Attempts, F!Lock(a) PROVE F!Unsent'
  BY <1>2 DEF F!Lock
<1>3. ASSUME NEW a \in Attempts, F!Claim(a) PROVE F!Unsent'
  BY <1>3 DEF F!Claim
<1>4. ASSUME NEW a \in Attempts, F!Search(a) PROVE F!Unsent'
  BY <1>4 DEF F!Search
<1>5. ASSUME NEW a \in Attempts, F!Send(a) PROVE F!Unsent'
  BY <1>5 DEF F!Send
<1>6. ASSUME NEW a \in Attempts, F!Land(a) PROVE F!Unsent'
  BY <1>6 DEF F!Land
<1>7. ASSUME NEW a \in Attempts, F!Created(a) PROVE F!Unsent'
  BY <1>7 DEF F!Created
<1>8. ASSUME NEW a \in Attempts, F!CreateFails(a) PROVE F!Unsent'
  BY <1>8 DEF F!CreateFails
<1>9. ASSUME NEW a \in Attempts, F!Reconcile(a) PROVE F!Unsent'
  BY <1>9 DEF F!Reconcile
<1>10. ASSUME NEW a \in Attempts, F!Reclaim(a) PROVE F!Unsent'
  BY <1>10 DEF F!Reclaim
<1>11. ASSUME NEW a \in Attempts, F!Complete(a) PROVE F!Unsent'
  BY <1>11 DEF F!Complete
<1>12. ASSUME NEW a \in Attempts, F!StoreFails(a) PROVE F!Unsent'
  BY <1>12 DEF F!StoreFails
<1>13. ASSUME NEW a \in Attempts, F!Forget(a) PROVE F!Unsent'
  BY <1>13 DEF F!Forget
<1>14. ASSUME NEW p \in Procs, F!Crash(p) PROVE F!Unsent'
  BY <1>14 DEF F!Crash
<1>15. ASSUME F!Expire PROVE F!Unsent'
  BY <1>15 DEF F!Expire
<1>16. CASE UNCHANGED F!vars
  BY <1>16 DEF F!vars
<1> QED
  BY <1>1, <1>2, <1>3, <1>4, <1>5, <1>6, <1>7, <1>8, <1>9, <1>10, <1>11, <1>12, <1>13, <1>14, <1>15, <1>16 DEF F!Next, F!Step

\* One attempt at most may make an issue without having searched: the insert of
\* the claim lets one in, and whoever takes the claim over has searched in vain.
LEMMA OneMakerKeeps == F!FilingAssumption /\ F!IndInv /\ [F!Next]_F!vars => F!OneMaker'
<1> SUFFICES ASSUME F!FilingAssumption, F!IndInv, [F!Next]_F!vars PROVE F!OneMaker'
  OBVIOUS
<1> USE DEF F!IndInv, F!TypeOK, F!OneMaker, F!Unclaimed, F!Maker, F!Unsent, F!FilingAssumption, F!attempt, F!remote, F!Goto, F!Learn, F!Waiting, F!Running, F!Finished, F!Nothing
<1>1. ASSUME NEW a \in Attempts, NEW p \in Procs, F!Start(a, p) PROVE F!OneMaker'
  BY <1>1 DEF F!Start
<1>2. ASSUME NEW a \in Attempts, F!Lock(a) PROVE F!OneMaker'
  BY <1>2 DEF F!Lock
<1>3. ASSUME NEW a \in Attempts, F!Claim(a) PROVE F!OneMaker'
  BY <1>3 DEF F!Claim
<1>4. ASSUME NEW a \in Attempts, F!Search(a) PROVE F!OneMaker'
  BY <1>4 DEF F!Search
<1>5. ASSUME NEW a \in Attempts, F!Send(a) PROVE F!OneMaker'
  BY <1>5 DEF F!Send
<1>6. ASSUME NEW a \in Attempts, F!Land(a) PROVE F!OneMaker'
  BY <1>6 DEF F!Land
<1>7. ASSUME NEW a \in Attempts, F!Created(a) PROVE F!OneMaker'
  BY <1>7 DEF F!Created
<1>8. ASSUME NEW a \in Attempts, F!CreateFails(a) PROVE F!OneMaker'
  BY <1>8 DEF F!CreateFails
<1>9. ASSUME NEW a \in Attempts, F!Reconcile(a) PROVE F!OneMaker'
  BY <1>9 DEF F!Reconcile
<1>10. ASSUME NEW a \in Attempts, F!Reclaim(a) PROVE F!OneMaker'
  <2>1. a \in emptied
    BY <1>10 DEF F!Reclaim, F!Searched
  <2>2. CASE ledger.state = "claimed" /\ expired
    BY <1>10, <2>1, <2>2 DEF F!Reclaim
  <2>3. CASE ledger.state = "done"
    BY <1>10, <2>3 DEF F!Reclaim
  <2>4. CASE ledger.state = "claimed" /\ ~expired
    BY <1>10, <2>4 DEF F!Reclaim
  <2> QED
    BY <1>10, <2>2, <2>3, <2>4 DEF F!Reclaim
<1>11. ASSUME NEW a \in Attempts, F!Complete(a) PROVE F!OneMaker'
  BY <1>11 DEF F!Complete
<1>12. ASSUME NEW a \in Attempts, F!StoreFails(a) PROVE F!OneMaker'
  BY <1>12 DEF F!StoreFails
<1>13. ASSUME NEW a \in Attempts, F!Forget(a) PROVE F!OneMaker'
  BY <1>13 DEF F!Forget
<1>14. ASSUME NEW p \in Procs, F!Crash(p) PROVE F!OneMaker'
  BY <1>14 DEF F!Crash
<1>15. ASSUME F!Expire PROVE F!OneMaker'
  BY <1>15 DEF F!Expire
<1>16. CASE UNCHANGED F!vars
  BY <1>16 DEF F!vars
<1> QED
  BY <1>1, <1>2, <1>3, <1>4, <1>5, <1>6, <1>7, <1>8, <1>9, <1>10, <1>11, <1>12, <1>13, <1>14, <1>15, <1>16 DEF F!Next, F!Step

\* While nothing overlapped, at most one issue exists.
LEMMA SearchedKeeps == F!FilingAssumption /\ F!IndInv /\ [F!Next]_F!vars => F!Searched'
<1> SUFFICES ASSUME F!FilingAssumption, F!IndInv, [F!Next]_F!vars PROVE F!Searched'
  OBVIOUS
<1> USE DEF F!IndInv, F!TypeOK, F!Searched, F!OneMaker, F!Maker, F!Unsent, F!FilingAssumption, F!attempt, F!remote, F!Goto, F!Learn, F!Waiting, F!Running, F!Finished, F!Nothing
<1>1. ASSUME NEW a \in Attempts, NEW p \in Procs, F!Start(a, p) PROVE F!Searched'
  BY <1>1 DEF F!Start
<1>2. ASSUME NEW a \in Attempts, F!Lock(a) PROVE F!Searched'
  BY <1>2 DEF F!Lock
<1>3. ASSUME NEW a \in Attempts, F!Claim(a) PROVE F!Searched'
  BY <1>3 DEF F!Claim
<1>4. ASSUME NEW a \in Attempts, F!Search(a) PROVE F!Searched'
  BY <1>4 DEF F!Search
<1>5. ASSUME NEW a \in Attempts, F!Send(a) PROVE F!Searched'
  BY <1>5 DEF F!Send
<1>6. ASSUME NEW a \in Attempts, F!Land(a) PROVE F!Searched'
  <2>1. emptied' = emptied /\ at' = at /\ tracker' = tracker \cup {a} /\ a \in flying
    BY <1>6 DEF F!Land
  <2>2. ASSUME ~overlap' PROVE ~overlap /\ \A e \in emptied : e = a
    BY <1>6, <2>2 DEF F!Land
  <2>3. ASSUME ~overlap', NEW i \in tracker PROVE i = a
    <3>1. CASE emptied = {}
      BY <2>1, <3>1
    <3>2. CASE emptied # {}
      BY <2>2, <2>3, <3>2
    <3> QED
      BY <3>1, <3>2
  <2> QED
    BY <2>1, <2>2, <2>3
<1>7. ASSUME NEW a \in Attempts, F!Created(a) PROVE F!Searched'
  BY <1>7 DEF F!Created
<1>8. ASSUME NEW a \in Attempts, F!CreateFails(a) PROVE F!Searched'
  BY <1>8 DEF F!CreateFails
<1>9. ASSUME NEW a \in Attempts, F!Reconcile(a) PROVE F!Searched'
  BY <1>9 DEF F!Reconcile
<1>10. ASSUME NEW a \in Attempts, F!Reclaim(a) PROVE F!Searched'
  BY <1>10 DEF F!Reclaim
<1>11. ASSUME NEW a \in Attempts, F!Complete(a) PROVE F!Searched'
  BY <1>11 DEF F!Complete
<1>12. ASSUME NEW a \in Attempts, F!StoreFails(a) PROVE F!Searched'
  BY <1>12 DEF F!StoreFails
<1>13. ASSUME NEW a \in Attempts, F!Forget(a) PROVE F!Searched'
  BY <1>13 DEF F!Forget
<1>14. ASSUME NEW p \in Procs, F!Crash(p) PROVE F!Searched'
  BY <1>14 DEF F!Crash
<1>15. ASSUME F!Expire PROVE F!Searched'
  BY <1>15 DEF F!Expire
<1>16. CASE UNCHANGED F!vars
  BY <1>16 DEF F!vars
<1> QED
  BY <1>1, <1>2, <1>3, <1>4, <1>5, <1>6, <1>7, <1>8, <1>9, <1>10, <1>11, <1>12, <1>13, <1>14, <1>15, <1>16 DEF F!Next, F!Step

\* Nothing is searched or sent before the key is claimed.
LEMMA UnclaimedKeeps == F!FilingAssumption /\ F!IndInv /\ [F!Next]_F!vars => F!Unclaimed'
<1> SUFFICES ASSUME F!FilingAssumption, F!IndInv, [F!Next]_F!vars PROVE F!Unclaimed'
  OBVIOUS
<1> USE DEF F!IndInv, F!TypeOK, F!Unclaimed, F!Unsent, F!FilingAssumption, F!attempt, F!remote, F!Goto, F!Learn, F!Waiting, F!Running, F!Finished, F!Nothing
<1>1. ASSUME NEW a \in Attempts, NEW p \in Procs, F!Start(a, p) PROVE F!Unclaimed'
  BY <1>1 DEF F!Start
<1>2. ASSUME NEW a \in Attempts, F!Lock(a) PROVE F!Unclaimed'
  BY <1>2 DEF F!Lock
<1>3. ASSUME NEW a \in Attempts, F!Claim(a) PROVE F!Unclaimed'
  BY <1>3 DEF F!Claim
<1>4. ASSUME NEW a \in Attempts, F!Search(a) PROVE F!Unclaimed'
  BY <1>4 DEF F!Search
<1>5. ASSUME NEW a \in Attempts, F!Send(a) PROVE F!Unclaimed'
  BY <1>5 DEF F!Send
<1>6. ASSUME NEW a \in Attempts, F!Land(a) PROVE F!Unclaimed'
  BY <1>6 DEF F!Land
<1>7. ASSUME NEW a \in Attempts, F!Created(a) PROVE F!Unclaimed'
  BY <1>7 DEF F!Created
<1>8. ASSUME NEW a \in Attempts, F!CreateFails(a) PROVE F!Unclaimed'
  BY <1>8 DEF F!CreateFails
<1>9. ASSUME NEW a \in Attempts, F!Reconcile(a) PROVE F!Unclaimed'
  BY <1>9 DEF F!Reconcile
<1>10. ASSUME NEW a \in Attempts, F!Reclaim(a) PROVE F!Unclaimed'
  BY <1>10 DEF F!Reclaim
<1>11. ASSUME NEW a \in Attempts, F!Complete(a) PROVE F!Unclaimed'
  BY <1>11 DEF F!Complete
<1>12. ASSUME NEW a \in Attempts, F!StoreFails(a) PROVE F!Unclaimed'
  BY <1>12 DEF F!StoreFails
<1>13. ASSUME NEW a \in Attempts, F!Forget(a) PROVE F!Unclaimed'
  BY <1>13 DEF F!Forget
<1>14. ASSUME NEW p \in Procs, F!Crash(p) PROVE F!Unclaimed'
  BY <1>14 DEF F!Crash
<1>15. ASSUME F!Expire PROVE F!Unclaimed'
  BY <1>15 DEF F!Expire
<1>16. CASE UNCHANGED F!vars
  BY <1>16 DEF F!vars
<1> QED
  BY <1>1, <1>2, <1>3, <1>4, <1>5, <1>6, <1>7, <1>8, <1>9, <1>10, <1>11, <1>12, <1>13, <1>14, <1>15, <1>16 DEF F!Next, F!Step

\* What is recorded exists.
LEMMA RecordedKeeps == F!FilingAssumption /\ F!IndInv /\ [F!Next]_F!vars => F!Recorded'
<1> SUFFICES ASSUME F!FilingAssumption, F!IndInv, [F!Next]_F!vars PROVE F!Recorded'
  OBVIOUS
<1> USE DEF F!IndInv, F!TypeOK, F!Recorded, F!FilingAssumption, F!attempt, F!remote, F!Goto, F!Learn, F!Waiting, F!Running, F!Finished, F!Nothing
<1>1. ASSUME NEW a \in Attempts, NEW p \in Procs, F!Start(a, p) PROVE F!Recorded'
  BY <1>1 DEF F!Start
<1>2. ASSUME NEW a \in Attempts, F!Lock(a) PROVE F!Recorded'
  BY <1>2 DEF F!Lock
<1>3. ASSUME NEW a \in Attempts, F!Claim(a) PROVE F!Recorded'
  BY <1>3 DEF F!Claim
<1>4. ASSUME NEW a \in Attempts, F!Search(a) PROVE F!Recorded'
  BY <1>4 DEF F!Search
<1>5. ASSUME NEW a \in Attempts, F!Send(a) PROVE F!Recorded'
  BY <1>5 DEF F!Send
<1>6. ASSUME NEW a \in Attempts, F!Land(a) PROVE F!Recorded'
  BY <1>6 DEF F!Land
<1>7. ASSUME NEW a \in Attempts, F!Created(a) PROVE F!Recorded'
  BY <1>7 DEF F!Created
<1>8. ASSUME NEW a \in Attempts, F!CreateFails(a) PROVE F!Recorded'
  BY <1>8 DEF F!CreateFails
<1>9. ASSUME NEW a \in Attempts, F!Reconcile(a) PROVE F!Recorded'
  BY <1>9 DEF F!Reconcile
<1>10. ASSUME NEW a \in Attempts, F!Reclaim(a) PROVE F!Recorded'
  BY <1>10 DEF F!Reclaim
<1>11. ASSUME NEW a \in Attempts, F!Complete(a) PROVE F!Recorded'
  <2>1. CASE ledger.state = "claimed" /\ ledger.holder = fence[a]
    BY <1>11, <2>1 DEF F!Complete
  <2>2. CASE ledger' = ledger
    BY <1>11, <2>2 DEF F!Complete
  <2> QED
    BY <1>11, <2>1, <2>2 DEF F!Complete
<1>12. ASSUME NEW a \in Attempts, F!StoreFails(a) PROVE F!Recorded'
  BY <1>12 DEF F!StoreFails
<1>13. ASSUME NEW a \in Attempts, F!Forget(a) PROVE F!Recorded'
  BY <1>13 DEF F!Forget
<1>14. ASSUME NEW p \in Procs, F!Crash(p) PROVE F!Recorded'
  BY <1>14 DEF F!Crash
<1>15. ASSUME F!Expire PROVE F!Recorded'
  BY <1>15 DEF F!Expire
<1>16. CASE UNCHANGED F!vars
  BY <1>16 DEF F!vars
<1> QED
  BY <1>1, <1>2, <1>3, <1>4, <1>5, <1>6, <1>7, <1>8, <1>9, <1>10, <1>11, <1>12, <1>13, <1>14, <1>15, <1>16 DEF F!Next, F!Step

\* Everyone who is told of an issue is told of the recorded one.
LEMMA AgreementKeeps == F!FilingAssumption /\ F!IndInv /\ [F!Next]_F!vars => F!Agreement'
<1> SUFFICES ASSUME F!FilingAssumption, F!IndInv, [F!Next]_F!vars PROVE F!Agreement'
  OBVIOUS
<1> USE DEF F!IndInv, F!TypeOK, F!Agreement, F!Recorded, F!FilingAssumption, F!attempt, F!remote, F!Goto, F!Learn, F!Waiting, F!Running, F!Finished, F!Nothing
<1>1. ASSUME NEW a \in Attempts, NEW p \in Procs, F!Start(a, p) PROVE F!Agreement'
  BY <1>1 DEF F!Start
<1>2. ASSUME NEW a \in Attempts, F!Lock(a) PROVE F!Agreement'
  BY <1>2 DEF F!Lock
<1>3. ASSUME NEW a \in Attempts, F!Claim(a) PROVE F!Agreement'
  BY <1>3 DEF F!Claim
<1>4. ASSUME NEW a \in Attempts, F!Search(a) PROVE F!Agreement'
  BY <1>4 DEF F!Search
<1>5. ASSUME NEW a \in Attempts, F!Send(a) PROVE F!Agreement'
  BY <1>5 DEF F!Send
<1>6. ASSUME NEW a \in Attempts, F!Land(a) PROVE F!Agreement'
  BY <1>6 DEF F!Land
<1>7. ASSUME NEW a \in Attempts, F!Created(a) PROVE F!Agreement'
  BY <1>7 DEF F!Created
<1>8. ASSUME NEW a \in Attempts, F!CreateFails(a) PROVE F!Agreement'
  BY <1>8 DEF F!CreateFails
<1>9. ASSUME NEW a \in Attempts, F!Reconcile(a) PROVE F!Agreement'
  BY <1>9 DEF F!Reconcile
<1>10. ASSUME NEW a \in Attempts, F!Reclaim(a) PROVE F!Agreement'
  BY <1>10 DEF F!Reclaim
<1>11. ASSUME NEW a \in Attempts, F!Complete(a) PROVE F!Agreement'
  <2>1. CASE ledger.state = "claimed" /\ ledger.holder = fence[a]
    <3>1. /\ ledger' = [ledger EXCEPT !.state = "done", !.issue = issue[a]]
          /\ at' = [at EXCEPT ![a] = "returned"]
          /\ issue' = issue /\ tracker' = tracker /\ at[a] = "record"
      BY <1>11, <2>1 DEF F!Complete
    <3>2. ledger'.state = "done" /\ ledger'.issue = issue[a] /\ issue[a] \in tracker
      BY <3>1 DEF F!Recorded
    <3>3. \A b \in Attempts : at'[b] = "returned" => b = a
      BY <2>1, <3>1
    <3> QED
      BY <3>1, <3>2, <3>3
  <2>2. CASE ~(ledger.state = "claimed" /\ ledger.holder = fence[a])
    <3>1. at[a] = "record" /\ tracker' = tracker /\ ledger' = ledger
      BY <1>11, <2>2 DEF F!Complete
    <3>2. CASE at' = [at EXCEPT ![a] = "failed"] /\ issue' = issue
      BY <2>2, <3>1, <3>2
    <3>3. CASE /\ ledger.state = "done" /\ issue' = [issue EXCEPT ![a] = ledger.issue]
               /\ at' = [at EXCEPT ![a] = "returned"]
      BY <3>1, <3>3 DEF F!Recorded
    <3> QED
      BY <1>11, <2>2, <3>2, <3>3 DEF F!Complete
  <2> QED
    BY <1>11, <2>1, <2>2 DEF F!Complete
<1>12. ASSUME NEW a \in Attempts, F!StoreFails(a) PROVE F!Agreement'
  BY <1>12 DEF F!StoreFails
<1>13. ASSUME NEW a \in Attempts, F!Forget(a) PROVE F!Agreement'
  BY <1>13 DEF F!Forget
<1>14. ASSUME NEW p \in Procs, F!Crash(p) PROVE F!Agreement'
  BY <1>14 DEF F!Crash
<1>15. ASSUME F!Expire PROVE F!Agreement'
  BY <1>15 DEF F!Expire
<1>16. CASE UNCHANGED F!vars
  BY <1>16 DEF F!vars
<1> QED
  BY <1>1, <1>2, <1>3, <1>4, <1>5, <1>6, <1>7, <1>8, <1>9, <1>10, <1>11, <1>12, <1>13, <1>14, <1>15, <1>16 DEF F!Next, F!Step

-----------------------------------------------------------------------------

\* Nothing is filed at first.
LEMMA FilingInit == F!FilingAssumption /\ F!Init => F!IndInv
<1> SUFFICES ASSUME F!FilingAssumption, F!Init PROVE F!IndInv
  OBVIOUS
<1>1. F!TypeOK
  <2>1. 0 \in 0..MaxCrashes
    BY DEF F!FilingAssumption
  <2>2. ledger \in [state : {F!Nothing, "claimed", "done"},
                holder : Attempts \cup {F!Nothing}, issue : Attempts \cup {F!Nothing}]
    BY DEF F!Init
  <2>3. \A a \in Attempts : at[a] = F!Nothing
    BY DEF F!Init
  <2> QED
    BY <2>1, <2>2, <2>3 DEF F!Init, F!TypeOK
<1>2. /\ tracker = {} /\ flying = {} /\ emptied = {} /\ ledger.state = F!Nothing
      /\ \A a \in Attempts : at[a] = F!Nothing
  BY DEF F!Init
<1> QED
  BY <1>1, <1>2 DEF F!IndInv, F!Unsent, F!OneMaker, F!Maker, F!Searched, F!Unclaimed, F!Recorded,
                    F!Agreement, F!Finished, F!Nothing

\* IndInv is inductive.
LEMMA Filing == ASSUME F!FilingAssumption PROVE F!Spec => []F!IndInv
<1>1. F!Init => F!IndInv
  BY FilingInit
<1>2. F!IndInv /\ [F!Next]_F!vars => F!IndInv'
  BY TypeOKKeeps, UnsentKeeps, OneMakerKeeps, SearchedKeeps, UnclaimedKeeps,
     RecordedKeeps, AgreementKeeps DEF F!IndInv
<1> QED
  BY <1>1, <1>2, PTL DEF F!Spec

\* All issues being the same one, there is one at most.
LEMMA OneIssue == F!IndInv => F!DuplicateOnlyInOverlap
BY DEF F!IndInv, F!Searched, F!DuplicateOnlyInOverlap

\* In every state the types hold, a second issue comes of an overlap only, and
\* everyone who was told of an issue was told of the recorded one
\* (file_issue_exactly_once, record_filed_issue).
THEOREM FilingAlwaysAgrees == ASSUME F!FilingAssumption PROVE F!Spec => []F!FilingAgrees
<1>1. F!IndInv => F!FilingAgrees
  BY OneIssue DEF F!IndInv, F!FilingAgrees
<1> QED
  BY <1>1, Filing, PTL

\* A step leaves a recorded issue as it is.
LEMMA StepLeavesDone == [F!Next]_F!vars => F!DoneStays
<1> SUFFICES ASSUME [F!Next]_F!vars, ledger.state = "done" PROVE ledger' = ledger
  BY DEF F!DoneStays
<1>1. ASSUME NEW a \in Attempts, F!Complete(a) PROVE ledger' = ledger
  BY <1>1 DEF F!Complete
<1>2. ASSUME NEW a \in Attempts, F!Claim(a) \/ F!Reclaim(a) PROVE ledger' = ledger
  BY <1>2 DEF F!Claim, F!Reclaim, F!Nothing
<1>3. ASSUME NEW a \in Attempts,
             \/ F!Lock(a) \/ F!Search(a) \/ F!Send(a) \/ F!Created(a) \/ F!CreateFails(a)
             \/ F!Reconcile(a) \/ F!StoreFails(a) \/ F!Land(a) \/ F!Forget(a)
      PROVE  ledger' = ledger
  BY <1>3 DEF F!Lock, F!Search, F!Send, F!Created, F!CreateFails, F!Reconcile, F!StoreFails, F!Land, F!Forget
<1>4. ASSUME NEW a \in Attempts, NEW p \in Procs, F!Start(a, p) PROVE ledger' = ledger
  BY <1>4 DEF F!Start
<1>5. ASSUME NEW p \in Procs, F!Crash(p) PROVE ledger' = ledger
  BY <1>5 DEF F!Crash
<1>6. CASE F!Expire \/ UNCHANGED F!vars
  BY <1>6 DEF F!Expire, F!vars
<1> QED
  BY <1>1, <1>2, <1>3, <1>4, <1>5, <1>6 DEF F!Next, F!Step

\* A recorded issue is never replaced (complete_filed_issue, reclaim_filed_issue).
THEOREM RecordedIssueIsFinal == F!Spec => [][F!DoneStays]_F!vars
BY StepLeavesDone, PTL DEF F!Spec

-----------------------------------------------------------------------------
(* The hourly limit of a schedule.                                           *)

\* The module counts with the operators of FiniteSets.
LEMMA SameCount ==
    /\ \A S : H!Cardinality(S) = Cardinality(S)
    /\ \A S : H!IsFiniteSet(S) <=> IsFiniteSet(S)
<1>1. \A S : H!Cardinality(S) = Cardinality(S)
  BY Zenon DEF H!Cardinality, Cardinality
<1>2. \A S : H!IsFiniteSet(S) <=> IsFiniteSet(S)
  BY Zenon DEF H!IsFiniteSet, IsFiniteSet
<1> QED
  BY <1>1, <1>2

\* A part of a finite set is finite and no larger.
LEMMA PartIsSmaller ==
    ASSUME NEW S, NEW T, IsFiniteSet(T), S \subseteq T
    PROVE  /\ IsFiniteSet(S) /\ Cardinality(S) \in Nat /\ Cardinality(T) \in Nat
           /\ Cardinality(S) <= Cardinality(T)
BY FS_Subset, FS_CardinalityType

\* What two sets cover is no larger than both.
LEMMA CoverIsLarger ==
    ASSUME NEW S, NEW T, NEW U, IsFiniteSet(T), IsFiniteSet(U), S \subseteq T \cup U
    PROVE  /\ Cardinality(S) \in Nat /\ Cardinality(T) \in Nat /\ Cardinality(U) \in Nat
           /\ Cardinality(S) <= Cardinality(T) + Cardinality(U)
<1>1. /\ IsFiniteSet(T \cup U) /\ IsFiniteSet(T \cap U)
      /\ Cardinality(T \cup U) = Cardinality(T) + Cardinality(U) - Cardinality(T \cap U)
  BY FS_Union, FS_Subset
<1>2. Cardinality(S) \in Nat /\ Cardinality(S) <= Cardinality(T \cup U)
  BY <1>1, PartIsSmaller
<1> QED
  BY <1>1, <1>2, FS_CardinalityType

\* The sets that are counted are finite.
LEMMA CountsFinite ==
    ASSUME H!HourlyAssumption, H!Shape
    PROVE  /\ IsFiniteSet(Execs) /\ IsFiniteSet(H!Load) /\ IsFiniteSet(H!Spent)
           /\ Cardinality(H!Load) \in Nat /\ Cardinality(H!Spent) \in Nat
           /\ H!LiveStarted \in 0..Cardinality(Execs) /\ H!PendingCount \in 0..Cardinality(Execs)
           /\ H!PersistedStarted \in Nat
           /\ Cardinality(Execs) \in Nat
<1>1. IsFiniteSet(Execs)
  BY SameCount DEF H!HourlyAssumption
<1>2. H!Load \subseteq Execs /\ H!Spent \subseteq Execs
  BY DEF H!Load, H!Spent, H!Dispatched
<1> QED
  BY <1>1, <1>2, PartIsSmaller, SameCount DEF H!LiveStarted, H!PendingCount, H!PersistedStarted

\* A write makes one row what was asked for, and removes none that started within the hour.
LEMMA WriteFacts ==
    ASSUME H!Shape, NEW e \in Execs, NEW r \in [st : H!RowStates, at : Int], H!Write(e, r)
    PROVE  /\ row' \in [Execs -> [st : H!RowStates, at : Int]]
           /\ \A f \in Execs \ {e} :
                 row'[f] = row[f] \/ (row'[f] = H!NoRow /\ ~H!Recent(row[f].at))
           /\ row'[e] \in {row[e], r} \/ (row'[e] = H!NoRow /\ ~H!Recent(r.at))
<1>1. row \in [Execs -> [st : H!RowStates, at : Int]] /\ H!NoRow \in [st : H!RowStates, at : Int]
  BY DEF H!Shape, H!NoRow, H!RowStates, H!Never
<1> DEFINE new == [row EXCEPT ![e] = r]
<1>2. /\ new \in [Execs -> [st : H!RowStates, at : Int]] /\ new[e] = r
      /\ \A f \in Execs \ {e} : new[f] = row[f]
  BY <1>1
<1> HIDE DEF new
<1>3. CASE row' \in {row, new}
  BY <1>1, <1>2, <1>3
<1>4. CASE \E old \in {{}, H!Prunable(new)} :
              row' = [f \in Execs |-> IF f \in old THEN H!NoRow ELSE new[f]]
  <2>1. PICK old \in {{}, H!Prunable(new)} :
              row' = [f \in Execs |-> IF f \in old THEN H!NoRow ELSE new[f]]
    BY <1>4
  <2>2. \A f \in Execs : row'[f] = new[f] \/ (row'[f] = H!NoRow /\ ~H!Recent(new[f].at))
    BY <2>1 DEF H!Prunable
  <2>3. row' \in [Execs -> [st : H!RowStates, at : Int]]
    BY <1>1, <1>2, <2>1
  <2> QED
    BY <1>2, <2>2, <2>3
<1> QED
  BY <1>3, <1>4 DEF H!Write, new

\* Initially nothing is queued, started or written.
LEMMA HourlyInit == ASSUME H!HourlyAssumption PROVE H!Init => H!IndInv
<1> SUFFICES ASSUME H!Init
             PROVE  H!IndInv
  OBVIOUS
<1>1. /\ MaxPerHour \in Nat /\ MaxTime \in Nat /\ Hour \in Nat /\ IsFiniteSet(Execs)
      /\ Cardinality(Execs) \in Nat
  BY SameCount, FS_CardinalityType DEF H!HourlyAssumption
<1>2. /\ now = 0 /\ adm = H!Idle /\ gone = {} /\ loose = FALSE
      /\ ex = [e \in Execs |-> [st |-> "none", at |-> -1]]
      /\ row = [e \in Execs |-> [st |-> "none", at |-> -1]]
  BY DEF H!Init, H!Fresh, H!NoRow, H!Never
<1>3. H!Idle = [pc |-> "idle", live |-> 0, pending |-> 0, e |-> 0]
  BY DEF H!Idle
<1>4. H!TypeOK
  BY <1>1, <1>2, <1>3, SameCount DEF H!TypeOK, H!Never
<1>5. H!Shape
  BY <1>2, <1>3, <1>4 DEF H!Shape, H!States, H!RowStates
<1>6. H!Load = {} /\ H!Spent = {}
  BY <1>2 DEF H!Load, H!Spent, H!Dispatched, H!Recent, H!Never
<1>7. H!LoadRests /\ H!SpentRests
  BY <1>1, <1>2, <1>3, <1>6, SameCount, FS_EmptySet DEF H!LoadRests, H!SpentRests
<1>8. H!RowsRest /\ H!AdmissionRests
  BY <1>2, <1>3 DEF H!RowsRest, H!AdmissionRests, H!Never
<1> QED
  BY <1>5, <1>7, <1>8 DEF H!IndInv

\* The steps of an admission that is under way, and of one execution.
HourlyTask(e) == H!Starts(e) \/ H!Dispatch(e) \/ H!Return(e) \/ H!Report(e)

\* Variables, records and counts keep their shapes.
LEMMA ShapeKeeps ==
    ASSUME H!HourlyAssumption, H!Shape, H!AdmissionRests, H!Next
    PROVE  H!Shape'
<1>1. /\ MaxPerHour \in Nat /\ MaxTime \in Nat /\ Hour \in Nat /\ Cardinality(Execs) \in Nat
      /\ H!LiveStarted \in 0..Cardinality(Execs) /\ H!PendingCount \in 0..Cardinality(Execs)
  BY CountsFinite DEF H!HourlyAssumption
<1>2. /\ now \in 0..MaxTime /\ gone \subseteq Execs
      /\ ex \in [Execs -> [st : H!States, at : Int]]
      /\ row \in [Execs -> [st : H!RowStates, at : Int]]
      /\ adm \in [pc : {"idle", "rows", "record", "row"}, live : Int, pending : Int,
                  e : Execs \cup {0}]
      /\ \A e \in Execs : ex[e].at \in -1..now /\ row[e].at \in -1..now
      /\ adm.live \in 0..Cardinality(Execs) /\ adm.pending \in 0..Cardinality(Execs)
  BY SameCount DEF H!Shape, H!TypeOK, H!Never
<1>3. H!Idle \in [pc : {"idle", "rows", "record", "row"}, live : Int, pending : Int,
                  e : Execs \cup {0}] /\ H!Idle.live = 0 /\ H!Idle.pending = 0
  BY DEF H!Idle
<1> DEFINE Whole ==
      /\ now \in 0..MaxTime /\ gone \subseteq Execs
      /\ ex \in [Execs -> [st : H!States, at : Int]]
      /\ row \in [Execs -> [st : H!RowStates, at : Int]]
      /\ adm \in [pc : {"idle", "rows", "record", "row"}, live : Int, pending : Int,
                  e : Execs \cup {0}]
      /\ \A e \in Execs : ex[e].at \in -1..now /\ row[e].at \in -1..now
      /\ adm.live \in 0..Cardinality(Execs) /\ adm.pending \in 0..Cardinality(Execs)
<1>4. Whole' => H!Shape'
  BY SameCount DEF H!Shape, H!TypeOK, H!Never, H!States, H!RowStates
<1>5. CASE H!ReadMemory
  BY <1>1, <1>2, <1>4, <1>5 DEF H!ReadMemory
<1>6. CASE H!ReadRows \/ H!RowsUnreadable
  BY <1>1, <1>2, <1>3, <1>4, <1>6 DEF H!ReadRows, H!RowsUnreadable
<1>7. CASE H!Record
  <2>1. PICK e \in Execs : /\ ex' = [ex EXCEPT ![e].st = "pending"]
                          /\ adm' = [adm EXCEPT !.pc = "row", !.e = e]
    BY <1>7 DEF H!Record
  <2>2. UNCHANGED <<now, row, gone>>
    BY <1>7 DEF H!Record
  <2>3. /\ ex' \in [Execs -> [st : H!States, at : Int]] /\ \A f \in Execs : ex'[f].at = ex[f].at
    BY <1>2, <2>1 DEF H!States
  <2>4. /\ adm' \in [pc : {"idle", "rows", "record", "row"}, live : Int, pending : Int,
                     e : Execs \cup {0}]
        /\ adm'.live = adm.live /\ adm'.pending = adm.pending
    BY <1>2, <2>1
  <2> QED
    BY <1>1, <1>2, <1>4, <2>2, <2>3, <2>4
<1>8. CASE H!Spawn
  <2>1. /\ adm' = H!Idle /\ UNCHANGED <<now, ex, gone, loose>>
        /\ adm.e \in Execs /\ H!Write(adm.e, [st |-> "pending", at |-> -1])
    BY <1>8 DEF H!Spawn, H!AdmissionRests, H!Never
  <2>2. [st |-> "pending", at |-> -1] \in [st : H!RowStates, at : Int]
    BY DEF H!RowStates
  <2>3. /\ row' \in [Execs -> [st : H!RowStates, at : Int]]
        /\ \A f \in Execs : row'[f].at \in {row[f].at, -1}
    BY <2>1, <2>2, WriteFacts DEF H!NoRow, H!Never
  <2> QED
    BY <1>1, <1>2, <1>3, <1>4, <2>1, <2>3
<1>9. CASE \E e \in Execs : HourlyTask(e)
  <2>1. PICK e \in Execs : HourlyTask(e)
    BY <1>9
  <2>2. CASE H!Starts(e) \/ H!Return(e)
    <3>1. UNCHANGED <<now, row, adm, gone>>
      BY <2>2 DEF H!Starts, H!Return
    <3>2. \/ ex' = [ex EXCEPT ![e] = [st |-> "started", at |-> now]]
          \/ \E st \in {"ran", "declined"} : ex' = [ex EXCEPT ![e].st = st]
      BY <2>2 DEF H!Starts, H!Return
    <3>3. /\ ex' \in [Execs -> [st : H!States, at : Int]]
          /\ \A f \in Execs : ex'[f].at \in {ex[f].at, now}
      BY <1>1, <1>2, <3>2 DEF H!States
    <3> QED
      BY <1>1, <1>2, <1>4, <3>1, <3>3
  <2>3. CASE H!Dispatch(e)
    <3>1. /\ UNCHANGED <<now, adm, gone, loose>> /\ ex' = [ex EXCEPT ![e].st = "working"]
          /\ H!Write(e, [st |-> "running", at |-> ex[e].at])
      BY <2>3 DEF H!Dispatch
    <3>2. [st |-> "running", at |-> ex[e].at] \in [st : H!RowStates, at : Int]
      BY <1>2 DEF H!RowStates
    <3>3. /\ row' \in [Execs -> [st : H!RowStates, at : Int]]
          /\ \A f \in Execs : row'[f].at \in {row[f].at, -1, ex[f].at}
      BY <3>1, <3>2, WriteFacts DEF H!NoRow, H!Never
    <3>4. /\ ex' \in [Execs -> [st : H!States, at : Int]] /\ \A f \in Execs : ex'[f].at = ex[f].at
      BY <1>2, <3>1 DEF H!States
    <3>5. UNCHANGED <<now, adm, gone>>
      BY <3>1
    <3> QED
      BY <1>1, <1>2, <1>4, <3>3, <3>4, <3>5
  <2>4. CASE H!Report(e)
    <3> DEFINE end == [st |-> IF ex[e].st = "ran" THEN "done" ELSE "skipped", at |-> ex[e].at]
    <3>1. UNCHANGED <<now, adm, gone, loose>> /\ ex' = [ex EXCEPT ![e] = end] /\ H!Write(e, end)
      BY <2>4 DEF H!Report
    <3>2. end \in [st : H!RowStates, at : Int] /\ end \in [st : H!States, at : Int]
          /\ end.at = ex[e].at
      BY <1>2 DEF H!RowStates, H!States
    <3> HIDE DEF end
    <3>3. /\ row' \in [Execs -> [st : H!RowStates, at : Int]]
          /\ \A f \in Execs : row'[f].at \in {row[f].at, -1, ex[f].at}
      BY <3>1, <3>2, WriteFacts DEF H!NoRow, H!Never
    <3>4. /\ ex' \in [Execs -> [st : H!States, at : Int]] /\ \A f \in Execs : ex'[f].at = ex[f].at
      BY <1>2, <3>1, <3>2
    <3> QED
      BY <1>1, <1>2, <1>4, <3>1, <3>3, <3>4
  <2> QED
    BY <2>1, <2>2, <2>3, <2>4 DEF HourlyTask
<1>10. CASE H!Clock
  BY <1>1, <1>2, <1>4, <1>10 DEF H!Clock
<1>11. CASE H!Die
  BY <1>1, <1>2, <1>3, <1>4, <1>11 DEF H!Die
<1> QED
  BY <1>5, <1>6, <1>7, <1>8, <1>9, <1>10, <1>11 DEF H!Next, HourlyTask

\* Only a new admission adds to what counts: starting, ending, dying and the clock do not.
LEMMA CountsShrink ==
    ASSUME H!HourlyAssumption, H!Shape, H!RowsRest, H!Next, ~H!Record
    PROVE  /\ H!Load' \subseteq H!Load /\ H!Spent' \subseteq H!Spent
           /\ \A e \in Execs \ gone' : ex'[e].st = "pending" => ex[e].st = "pending" /\ e \notin gone
           /\ ~loose' => ~loose
<1>1. now \in Int /\ Hour \in Int /\ ex \in [Execs -> [st : H!States, at : Int]]
      /\ gone \subseteq Execs
  BY DEF H!Shape, H!TypeOK, H!HourlyAssumption
<1> DEFINE Same(e) == \/ ex'[e] = ex[e]
                      \/ ex[e].st = "pending" /\ ex'[e].st = "started"
                      \/ /\ ex[e].st = "started" /\ ex'[e].st = "working" /\ ex'[e].at = ex[e].at
                      \/ /\ ex[e].st \in {"working", "ran", "declined"} /\ ex'[e].at = ex[e].at
                         /\ \/ ex'[e].st \in {"declined", "skipped"}
                            \/ ex[e].st # "declined" /\ ex'[e].st \in {"ran", "done"}
<1>2. /\ \A e \in Execs : ex'[e] = ex[e] \/ (Same(e) /\ e \notin gone)
      /\ gone \subseteq gone' /\ now' \in Int /\ now' >= now
  <2>1. CASE H!ReadMemory \/ H!ReadRows \/ H!RowsUnreadable \/ H!Spawn
    BY <1>1, <2>1 DEF H!ReadMemory, H!ReadRows, H!RowsUnreadable, H!Spawn
  <2>2. CASE \E e \in Execs : HourlyTask(e)
    BY <1>1, <2>2 DEF HourlyTask, H!Starts, H!Dispatch, H!Return, H!Report
  <2>3. CASE H!Clock \/ H!Die
    BY <1>1, <2>3 DEF H!Clock, H!Die
  <2> QED
    BY <2>1, <2>2, <2>3 DEF H!Next, HourlyTask
<1>3. H!Load' \subseteq H!Load
  <2> SUFFICES ASSUME NEW e \in Execs, e \notin gone', ex'[e].st = "pending" \/ H!Recent(ex[e].at)'
               PROVE  e \notin gone /\ (ex[e].st = "pending" \/ H!Recent(ex[e].at))
    BY DEF H!Load
  <2>1. ex[e].at \in Int /\ e \notin gone
    BY <1>1, <1>2
  <2>2. CASE ex[e].st # "pending" /\ ex'[e].st # "pending"
    <3>1. ex'[e].at = ex[e].at
      BY <1>2, <2>2
    <3>2. H!Recent(ex[e].at)'
      BY <2>2
    <3> QED
      BY <1>1, <1>2, <2>1, <3>1, <3>2 DEF H!Recent, H!Never
  <2>3. CASE ex[e].st # "pending" /\ ex'[e].st = "pending"
    BY <1>2, <2>3
  <2> QED
    BY <2>1, <2>2, <2>3
<1>4. H!Spent' \subseteq H!Spent
  <2> SUFFICES ASSUME NEW e \in Execs,
                      \/ ex'[e].st \in {"working", "ran", "done"} /\ H!Recent(ex[e].at)'
                      \/ e \notin gone' /\ ex'[e].st = "pending"
                      \/ e \notin gone' /\ ex'[e].st = "started" /\ H!Recent(ex[e].at)'
               PROVE  \/ ex[e].st \in {"working", "ran", "done"} /\ H!Recent(ex[e].at)
                      \/ e \notin gone /\ ex[e].st = "pending"
                      \/ e \notin gone /\ ex[e].st = "started" /\ H!Recent(ex[e].at)
    BY DEF H!Spent, H!Dispatched
  <2>1. ex[e].at \in Int /\ (e \in gone => e \in gone')
    BY <1>1, <1>2
  <2>2. ex'[e].at = ex[e].at /\ H!Recent(ex[e].at)' => H!Recent(ex[e].at)
    BY <1>1, <1>2, <2>1 DEF H!Recent, H!Never
  <2>3. CASE ex'[e] = ex[e]
    BY <2>1, <2>2, <2>3
  <2>4. CASE Same(e) /\ e \notin gone
    BY <2>2, <2>4
  <2> QED
    BY <1>2, <2>3, <2>4
<1>5. ASSUME NEW e \in Execs, e \notin gone', ex'[e].st = "pending"
      PROVE  ex[e].st = "pending" /\ e \notin gone
  BY <1>2, <1>5
<1>6. ~loose' => ~loose
  <2>1. CASE H!ReadRows
    BY Zenon, <2>1 DEF H!ReadRows
  <2>2. CASE H!Die
    BY Zenon, <2>2 DEF H!Die
  <2>3. CASE loose' = loose
    BY Zenon, <2>3
  <2> QED
    BY Zenon, <2>1, <2>2, <2>3
    DEF H!Next, H!ReadMemory, H!RowsUnreadable, H!Record, H!Spawn, H!Starts, H!Dispatch,
        H!Return, H!Report, H!Clock
<1> QED
  BY <1>3, <1>4, <1>5, <1>6

\* A row follows its execution, and what the dead dispatched within the hour stays written.
LEMMA RowsKeep ==
    ASSUME H!HourlyAssumption, H!Shape, H!Shape', H!AdmissionRests, H!RowsRest, H!Next
    PROVE  H!RowsRest'
<1>1. /\ now \in Int /\ Hour \in Int /\ gone \subseteq Execs
      /\ ex \in [Execs -> [st : H!States, at : Int]]
      /\ row \in [Execs -> [st : H!RowStates, at : Int]]
  BY DEF H!Shape, H!TypeOK, H!HourlyAssumption
<1> DEFINE Good(e) ==
      /\ ex[e].st \in {"none", "pending"} => ex[e].at = -1
      /\ row[e].at \in {-1, ex[e].at}
      /\ row[e].at # -1 => row[e].st \notin {"none", "pending"}
      /\ row[e].st = "skipped" => ex[e].st = "skipped"
           Kept(e) == ~loose /\ e \in gone /\ e \in H!Dispatched => row[e].at # -1
<1>2. ASSUME NEW e \in Execs PROVE Good(e) /\ Kept(e)
  BY DEF H!RowsRest, H!Never
<1>3. SUFFICES ASSUME NEW e \in Execs PROVE Good(e)' /\ Kept(e)'
  BY DEF H!RowsRest, H!Never
<1>4. ~loose' => ~loose
  <2>1. CASE H!Record
    BY Zenon, <2>1 DEF H!Record
  <2> QED
    BY <2>1, CountsShrink
<1>5. CASE H!ReadMemory \/ H!ReadRows \/ H!RowsUnreadable
  <2>1. UNCHANGED <<now, ex, row, gone>>
    BY <1>5 DEF H!ReadMemory, H!ReadRows, H!RowsUnreadable
  <2>2. H!Dispatched' = H!Dispatched
    BY <2>1 DEF H!Dispatched, H!Recent
  <2> QED
    BY <1>2, <1>4, <2>1, <2>2
<1>6. CASE H!Record
  <2>1. UNCHANGED <<now, row, gone>>
        /\ \E f \in Execs : ex[f] = H!Fresh /\ f \notin gone /\ ex' = [ex EXCEPT ![f].st = "pending"]
    BY <1>6 DEF H!Record
  <2>2. \/ ex'[e] = ex[e]
        \/ ex[e].st = "none" /\ ex'[e].st = "pending" /\ ex'[e].at = ex[e].at
    BY <1>1, <2>1 DEF H!Fresh
  <2>3. e \in H!Dispatched' => e \in H!Dispatched
    BY <2>1, <2>2 DEF H!Dispatched, H!Recent
  <2> QED
    BY <1>2, <1>4, <2>1, <2>2, <2>3
<1>7. CASE H!Spawn
  <2>1. /\ UNCHANGED <<now, ex, gone>> /\ adm.e \in Execs \ gone /\ ex[adm.e].st = "pending"
        /\ H!Write(adm.e, [st |-> "pending", at |-> -1])
    BY <1>7 DEF H!Spawn, H!AdmissionRests, H!Never
  <2>2. [st |-> "pending", at |-> -1] \in [st : H!RowStates, at : Int]
    BY DEF H!RowStates
  <2>3. e # adm.e => row'[e] = row[e] \/ (row'[e] = H!NoRow /\ ~H!Recent(row[e].at))
    BY <2>1, <2>2, WriteFacts
  <2>4. e = adm.e => row'[e] \in {row[e], [st |-> "pending", at |-> -1], H!NoRow}
    BY <2>1, <2>2, WriteFacts
  <2>5. H!Dispatched' = H!Dispatched
    BY <2>1 DEF H!Dispatched, H!Recent
  <2>6. Good(e)'
    BY <1>1, <1>2, <2>1, <2>3, <2>4 DEF H!NoRow, H!Never
  <2>7. Kept(e)'
    BY <1>1, <1>2, <1>4, <2>1, <2>3, <2>5 DEF H!NoRow, H!Never, H!Dispatched
  <2> QED
    BY <2>6, <2>7
<1>8. CASE \E f \in Execs : H!Starts(f) \/ H!Return(f)
  <2>1. PICK f \in Execs : H!Starts(f) \/ H!Return(f)
    BY <1>8
  <2>2. UNCHANGED <<now, row, gone>> /\ f \notin gone
    BY <2>1 DEF H!Starts, H!Return
  <2>3. \/ ex'[e] = ex[e]
        \/ e \notin gone /\ ex[e].st = "pending" /\ ex'[e].st = "started"
        \/ /\ e \notin gone /\ ex[e].st = "working" /\ ex'[e].st \in {"ran", "declined"}
           /\ ex'[e].at = ex[e].at
    BY <1>1, <2>1 DEF H!Starts, H!Return
  <2>4. Good(e)'
    BY <1>1, <1>2, <2>2, <2>3
  <2>5. Kept(e)'
    BY <1>2, <1>4, <2>2, <2>3 DEF H!Dispatched, H!Recent
  <2> QED
    BY <2>4, <2>5
<1>9. CASE \E f \in Execs : H!Dispatch(f) \/ H!Report(f)
  <2>1. PICK f \in Execs : H!Dispatch(f) \/ H!Report(f)
    BY <1>9
  <2>2. UNCHANGED <<now, gone>> /\ f \notin gone /\ (e # f => ex'[e] = ex[e])
    BY <1>1, <2>1 DEF H!Dispatch, H!Report
  <2>3. PICK r \in [st : H!RowStates, at : Int] :
           /\ H!Write(f, r) /\ r.at = ex[f].at
           /\ ex'[f].at = ex[f].at /\ ex'[f].st \notin {"none", "pending"}
           /\ ex[f].st \notin {"skipped", "none", "pending"}
           /\ r.st \in {"running", "done"} \/ (r.st = "skipped" /\ ex'[f].st = "skipped")
    <3>1. CASE H!Dispatch(f)
      <4>1. [st |-> "running", at |-> ex[f].at] \in [st : H!RowStates, at : Int]
        BY <1>1 DEF H!RowStates
      <4> QED
        BY <1>1, <3>1, <4>1 DEF H!Dispatch
    <3>2. CASE H!Report(f)
      <4> DEFINE end == [st |-> IF ex[f].st = "ran" THEN "done" ELSE "skipped", at |-> ex[f].at]
      <4>1. end \in [st : H!RowStates, at : Int]
        BY <1>1 DEF H!RowStates
      <4>2. H!Write(f, end) /\ ex'[f] = end /\ ex[f].st \in {"ran", "declined"}
        BY <1>1, <3>2 DEF H!Report
      <4> QED
        BY <4>1, <4>2
    <3> QED
      BY <2>1, <3>1, <3>2
  <2>4. e # f => row'[e] = row[e] \/ (row'[e] = H!NoRow /\ ~H!Recent(row[e].at))
    BY <2>3, WriteFacts
  <2>5. e = f => row'[e] \in {row[e], r, H!NoRow}
    BY <2>3, WriteFacts
  <2>6. Good(e)'
    BY <1>1, <1>2, <2>2, <2>3, <2>4, <2>5 DEF H!NoRow, H!Never
  <2>7. Kept(e)'
    BY <1>1, <1>2, <1>4, <2>2, <2>4 DEF H!NoRow, H!Never, H!Dispatched, H!Recent
  <2> QED
    BY <2>6, <2>7
<1>10. CASE H!Clock
  <2>1. UNCHANGED <<ex, row, gone>> /\ now' = now + 1
    BY <1>10 DEF H!Clock
  <2>2. e \in H!Dispatched' => e \in H!Dispatched
    BY <1>1, <2>1 DEF H!Dispatched, H!Recent, H!Never
  <2> QED
    BY <1>2, <1>4, <2>1, <2>2
<1>11. CASE H!Die
  <2>1. UNCHANGED <<now, ex, row>> /\ gone' = gone \cup {f \in Execs : ex[f].st # "none"}
    BY <1>11 DEF H!Die
  <2>2. ~loose' => ~(\E f \in Execs \ gone : ex[f].st \in {"working", "ran", "done"} /\ row[f].at = H!Never)
    BY Zenon, <1>11 DEF H!Die
  <2>3. H!Dispatched' = H!Dispatched
    BY <2>1 DEF H!Dispatched, H!Recent
  <2>4. Kept(e)'
    BY <1>2, <1>4, <2>1, <2>2, <2>3 DEF H!Dispatched, H!Never
  <2> QED
    BY <1>2, <2>1, <2>4
<1> QED
  BY <1>5, <1>6, <1>7, <1>8, <1>9, <1>10, <1>11 DEF H!Next

\* The counts an admission takes cover what counts when it goes on.
LEMMA LimitsKeep ==
    ASSUME H!HourlyAssumption, H!IndInv, H!Shape', H!Next
    PROVE  H!AdmissionRests' /\ H!LoadRests' /\ H!SpentRests'
<1>1. /\ MaxPerHour \in Nat /\ H!Shape /\ H!AdmissionRests /\ H!LoadRests /\ H!RowsRest /\ H!SpentRests
      /\ adm \in [pc : {"idle", "rows", "record", "row"}, live : Int, pending : Int,
                  e : Execs \cup {0}]
      /\ ex \in [Execs -> [st : H!States, at : Int]]
      /\ row \in [Execs -> [st : H!RowStates, at : Int]]
  BY DEF H!HourlyAssumption, H!IndInv, H!Shape
<1>2. /\ IsFiniteSet(H!Load) /\ IsFiniteSet(H!Spent) /\ IsFiniteSet(Execs)
      /\ Cardinality(H!Load) \in Nat /\ Cardinality(H!Spent) \in Nat
      /\ H!LiveStarted \in Int /\ H!PendingCount \in Int /\ H!PersistedStarted \in Int
  BY <1>1, CountsFinite
<1> DEFINE Waiting == {e \in Execs \ gone : ex[e].st = "pending"}
<1>3. /\ IsFiniteSet(Waiting) /\ H!PendingCount = Cardinality(Waiting)
      /\ H!PendingCount' = Cardinality(Waiting')
  <2>1. H!PendingCount = H!Cardinality(Waiting) /\ H!PendingCount' = H!Cardinality(Waiting')
    BY DEF H!PendingCount
  <2>2. IsFiniteSet(Waiting)
    BY <1>2, FS_Subset
  <2> QED
    BY <2>1, <2>2, SameCount
<1>4. /\ H!LoadRests <=> /\ Cardinality(H!Load) <= MaxPerHour
                         /\ adm.pc = "rows" => Cardinality(H!Load) <= adm.live + adm.pending
                         /\ adm.pc = "record" => Cardinality(H!Load) < MaxPerHour
      /\ H!LoadRests' <=> /\ Cardinality(H!Load') <= MaxPerHour
                          /\ adm'.pc = "rows" => Cardinality(H!Load') <= adm'.live + adm'.pending
                          /\ adm'.pc = "record" => Cardinality(H!Load') < MaxPerHour
  BY SameCount DEF H!LoadRests
<1>5. /\ H!SpentRests <=> /\ adm.pc = "rows" => H!PendingCount <= adm.pending
                          /\ ~loose => Cardinality(H!Spent) <= MaxPerHour
                          /\ ~loose /\ adm.pc = "record" => Cardinality(H!Spent) < MaxPerHour
      /\ H!SpentRests' <=> /\ adm'.pc = "rows" => H!PendingCount' <= adm'.pending
                           /\ ~loose' => Cardinality(H!Spent') <= MaxPerHour
                           /\ ~loose' /\ adm'.pc = "record" => Cardinality(H!Spent') < MaxPerHour
  BY SameCount DEF H!SpentRests
<1>6. CASE H!Record
  <2>1. PICK e \in Execs : /\ ex[e] = H!Fresh /\ e \notin gone
                           /\ ex' = [ex EXCEPT ![e].st = "pending"]
                           /\ adm' = [adm EXCEPT !.pc = "row", !.e = e]
    BY <1>6 DEF H!Record
  <2>2. /\ UNCHANGED <<now, row, gone>> /\ adm.pc = "record" /\ adm'.pc = "row" /\ adm'.e = e
        /\ ex'[e].st = "pending" /\ \A f \in Execs \ {e} : ex'[f] = ex[f]
    <3>1. UNCHANGED <<now, row, gone>> /\ adm.pc = "record"
      BY <1>6 DEF H!Record
    <3>2. adm'.pc = "row" /\ adm'.e = e
      BY <1>1, <2>1
    <3>3. ex'[e].st = "pending" /\ \A f \in Execs \ {e} : ex'[f] = ex[f]
      BY <1>1, <2>1
    <3> QED
      BY <3>1, <3>2, <3>3
  <2>3. loose' = loose
    BY <1>6 DEF H!Record
  <2>4. H!AdmissionRests'
    BY <2>1, <2>2 DEF H!AdmissionRests
  <2>5. H!Load' \subseteq H!Load \cup {e}
    BY <2>2 DEF H!Load, H!Recent
  <2>6. H!Spent' \subseteq H!Spent \cup {e}
    BY <2>2 DEF H!Spent, H!Dispatched, H!Recent
  <2>7. IsFiniteSet({e}) /\ Cardinality({e}) = 1
    BY FS_Singleton
  <2>8. Cardinality(H!Load') \in Nat /\ Cardinality(H!Load') <= Cardinality(H!Load) + 1
    BY <1>2, <2>5, <2>7, CoverIsLarger
  <2>9. Cardinality(H!Spent') \in Nat /\ Cardinality(H!Spent') <= Cardinality(H!Spent) + 1
    BY <1>2, <2>6, <2>7, CoverIsLarger
  <2>10. H!LoadRests'
    BY <1>1, <1>2, <1>4, <2>2, <2>8
  <2>11. ~loose' => ~loose
    BY Zenon, <2>3
  <2>12. H!SpentRests'
    BY <1>1, <1>2, <1>5, <2>2, <2>9, <2>11
  <2> QED
    BY <2>4, <2>10, <2>12
<1>7. CASE ~H!Record
  <2>1. /\ H!Load' \subseteq H!Load /\ H!Spent' \subseteq H!Spent /\ Waiting' \subseteq Waiting
        /\ ~loose' => ~loose
    BY <1>1, <1>7, CountsShrink
  <2>2. /\ Cardinality(H!Load') \in Nat /\ Cardinality(H!Load') <= Cardinality(H!Load)
        /\ Cardinality(H!Spent') \in Nat /\ Cardinality(H!Spent') <= Cardinality(H!Spent)
        /\ H!PendingCount' \in Nat /\ H!PendingCount' <= H!PendingCount
    BY <1>2, <1>3, <2>1, PartIsSmaller
  <2>3. CASE H!ReadMemory
    <3>1. UNCHANGED <<now, ex, row, gone>>
          /\ adm' = [pc |-> "rows", live |-> H!LiveStarted, pending |-> H!PendingCount, e |-> 0]
      BY <2>3 DEF H!ReadMemory
    <3> DEFINE Started == {e \in Execs \ gone : H!Recent(ex[e].at)}
    <3>2. IsFiniteSet(Started) /\ H!LiveStarted = Cardinality(Started)
      <4>1. H!LiveStarted = H!Cardinality(Started)
        BY DEF H!LiveStarted
      <4> QED
        BY <1>2, <4>1, FS_Subset, SameCount
    <3>3. H!Load \subseteq Started \cup Waiting
      BY DEF H!Load
    <3>4. Cardinality(H!Load) <= H!LiveStarted + H!PendingCount
      BY <1>3, <3>2, <3>3, CoverIsLarger
    <3>5. H!LoadRests'
      BY <1>1, <1>2, <1>4, <2>2, <3>1, <3>4
    <3>6. H!SpentRests'
      BY <1>1, <1>2, <1>5, <2>1, <2>2, <3>1
    <3> QED
      BY <3>1, <3>5, <3>6 DEF H!AdmissionRests
  <2>4. CASE H!ReadRows
    <3>1. /\ UNCHANGED <<now, ex, row, gone>> /\ adm.pc = "rows"
          /\ \/ adm' = H!Idle
             \/ /\ adm' = [adm EXCEPT !.pc = "record"]
                /\ ~(H!Admitted(adm.live, H!PersistedStarted, adm.pending) >= MaxPerHour)
      BY <2>4 DEF H!ReadRows
    <3>2. CASE adm' = H!Idle
      <4>1. adm'.pc = "idle"
        BY <3>2 DEF H!Idle
      <4> QED
        BY <1>1, <1>2, <1>4, <1>5, <2>1, <2>2, <4>1 DEF H!AdmissionRests
    <3>3. CASE /\ adm' = [adm EXCEPT !.pc = "record"]
               /\ ~(H!Admitted(adm.live, H!PersistedStarted, adm.pending) >= MaxPerHour)
      <4>1. /\ adm'.pc = "record" /\ adm.live + adm.pending < MaxPerHour
            /\ H!PersistedStarted + adm.pending < MaxPerHour
        BY <1>1, <1>2, <3>3 DEF H!Admitted, H!Larger
      <4>2. H!LoadRests'
        BY <1>1, <1>2, <1>4, <2>2, <3>1, <4>1
      <4>3. ~loose' => ~H!Missing
        BY Zenon, <2>4 DEF H!ReadRows
      <4> DEFINE Written == {e \in Execs : /\ row[e].st \notin {"none", "pending", "skipped"}
                                           /\ H!Recent(row[e].at)}
      <4>4. IsFiniteSet(Written) /\ H!PersistedStarted = Cardinality(Written)
        <5>1. H!PersistedStarted = H!Cardinality(Written)
          BY DEF H!PersistedStarted
        <5> QED
          BY <1>2, <5>1, FS_Subset, SameCount
      <4>5. ASSUME ~loose' PROVE H!Spent \subseteq Written \cup Waiting
        <5> SUFFICES ASSUME NEW e \in Execs, ex[e].st # "pending",
                            \/ ex[e].st \in {"working", "ran", "done"}
                            \/ ex[e].st = "started" /\ e \notin gone,
                            H!Recent(ex[e].at)
                     PROVE  e \in Written
          BY DEF H!Spent, H!Dispatched
        <5>1. ex[e].at # H!Never
          BY DEF H!Recent
        <5>2. row[e].at # H!Never
          <6>1. CASE e \in gone
            BY <1>1, <2>1, <4>5, <6>1 DEF H!RowsRest, H!Dispatched
          <6>2. CASE e \notin gone
            BY <4>3, <4>5, <5>1, <6>2 DEF H!Missing
          <6> QED
            BY <6>1, <6>2
        <5>3. row[e].at = ex[e].at /\ row[e].st \notin {"none", "pending", "skipped"}
          BY <1>1, <5>2 DEF H!RowsRest
        <5> QED
          BY <5>3
      <4>6. ~loose' => Cardinality(H!Spent) <= H!PersistedStarted + H!PendingCount
        BY <1>3, <4>4, <4>5, CoverIsLarger
      <4>7. H!SpentRests'
        BY <1>1, <1>2, <1>5, <2>1, <2>2, <3>1, <4>1, <4>6
      <4> QED
        BY <4>1, <4>2, <4>7 DEF H!AdmissionRests
    <3> QED
      BY <3>1, <3>2, <3>3
  <2>5. CASE H!RowsUnreadable \/ H!Spawn \/ H!Die
    <3>1. adm'.pc = "idle"
      BY <2>5 DEF H!RowsUnreadable, H!Spawn, H!Die, H!Idle
    <3> QED
      BY <1>1, <1>2, <1>4, <1>5, <2>1, <2>2, <3>1 DEF H!AdmissionRests
  <2>6. CASE H!Clock \/ \E e \in Execs : HourlyTask(e)
    <3>1. adm' = adm /\ gone' = gone
      BY <2>6 DEF H!Clock, HourlyTask, H!Starts, H!Dispatch, H!Return, H!Report
    <3>2. adm.pc = "row" => ex'[adm.e] = ex[adm.e]
      BY <1>1, <2>6 DEF H!Clock, HourlyTask, H!Starts, H!Dispatch, H!Return, H!Report, H!Spawned,
                        H!AdmissionRests
    <3>3. H!AdmissionRests'
      BY <1>1, <3>1, <3>2 DEF H!AdmissionRests
    <3>4. H!LoadRests' /\ H!SpentRests'
      BY <1>1, <1>2, <1>4, <1>5, <2>1, <2>2, <3>1
    <3> QED
      BY <3>3, <3>4
  <2> QED
    BY <1>7, <2>3, <2>4, <2>5, <2>6 DEF H!Next, HourlyTask
<1> QED
  BY <1>6, <1>7

\* The invariant is preserved.
LEMMA HourlyNext == ASSUME H!HourlyAssumption PROVE H!IndInv /\ [H!Next]_H!vars => H!IndInv'
<1> SUFFICES ASSUME H!IndInv, [H!Next]_H!vars
             PROVE  H!IndInv'
  OBVIOUS
<1>1. CASE H!Next
  <2>1. H!Shape /\ H!AdmissionRests /\ H!RowsRest
    BY DEF H!IndInv
  <2>2. H!Shape'
    BY <1>1, <2>1, ShapeKeeps
  <2> QED
    BY <1>1, <2>1, <2>2, RowsKeep, LimitsKeep DEF H!IndInv
<1>2. CASE UNCHANGED H!vars
  BY <1>2 DEF H!vars, H!IndInv, H!Shape, H!TypeOK, H!AdmissionRests, H!LoadRests, H!Load, H!RowsRest,
              H!SpentRests, H!Spent, H!Dispatched, H!PendingCount, H!Recent
<1> QED
  BY <1>1, <1>2

\* However long executions are queued and whatever becomes of their rows, a process keeps
\* to max_executions_per_hour (admit_hourly_execution); with restarts, all processes
\* together do, unless a start was missing in SQLite when somebody looked.
THEOREM HourlyLimitAlwaysHolds == ASSUME H!HourlyAssumption PROVE H!Spec => []H!HourlyLimitHolds
<1>1. H!Init => H!IndInv
  BY HourlyInit
<1>2. H!IndInv /\ [H!Next]_H!vars => H!IndInv'
  BY HourlyNext
<1>3. H!IndInv => H!HourlyLimitHolds
  <2> SUFFICES ASSUME H!IndInv
               PROVE  H!HourlyLimitHolds
    OBVIOUS
  <2>1. H!TypeOK /\ H!Shape /\ H!LoadRests /\ H!SpentRests /\ MaxPerHour \in Int
    BY DEF H!IndInv, H!Shape, H!HourlyAssumption
  <2>2. /\ IsFiniteSet(H!Load) /\ IsFiniteSet(H!Spent)
    BY <2>1, CountsFinite
  <2>3. H!Dispatched \ gone \subseteq H!Load /\ H!Dispatched \subseteq H!Spent
    BY DEF H!Dispatched, H!Load, H!Spent
  <2>4. /\ Cardinality(H!Dispatched \ gone) \in Nat /\ Cardinality(H!Load) \in Nat
        /\ Cardinality(H!Dispatched \ gone) <= Cardinality(H!Load)
        /\ Cardinality(H!Dispatched) \in Nat /\ Cardinality(H!Spent) \in Nat
        /\ Cardinality(H!Dispatched) <= Cardinality(H!Spent)
    BY <2>2, <2>3, PartIsSmaller
  <2>5. Cardinality(H!Load) <= MaxPerHour /\ (~loose => Cardinality(H!Spent) <= MaxPerHour)
    BY <2>1, SameCount DEF H!LoadRests, H!SpentRests
  <2>6. H!LimitPerProcess
    BY <2>1, <2>4, <2>5, SameCount DEF H!LimitPerProcess
  <2>7. H!WrittenLimit
    BY <2>1, <2>4, <2>5, SameCount DEF H!WrittenLimit
  <2> QED
    BY <2>1, <2>6, <2>7 DEF H!HourlyLimitHolds
<1> QED
  BY <1>1, <1>2, <1>3, PTL DEF H!Spec

-----------------------------------------------------------------------------
(* Schedules fired by events.                                                *)

EventTasks ==
    [st : {"none", "running", "aborting"}, s : E!Origins, depth : Nat, chain : Nat, left : Nat]

EventCalls ==
    [pc : {"idle", "lock", "send"}, chan : Int, for : SUBSET Schedules,
     ev : [kind : Kinds \cup {"none"}, src : E!Origins, depth : Nat, chain : Nat, at : Int]]

\* A call, an execution and an executor at rest have their shapes.
LEMMA RestFacts ==
    ASSUME E!EventAssumption
    PROVE  /\ E!Quiet \in EventCalls /\ E!Quiet.pc = "idle" /\ E!Quiet.for = {}
           /\ E!NoTask \in EventTasks /\ E!NoTask.st = "none" /\ E!NoTask.left = 0
           /\ E!Rest.pc = "idle" /\ E!Rest.taken = {} /\ E!Rest.fired = E!NoTrigger
           /\ E!Rest = [pc |-> "idle", fired |-> E!NoTrigger, taken |-> {}]
BY DEF E!Quiet, E!Event, E!NoTask, E!Rest, EventCalls, EventTasks, E!Origins, E!NoSchedule

\* What the invariant says of shapes, in one formula.
EventShapes ==
    /\ clock \in 0..MaxTime /\ chan \in Int
    /\ queue \in Seq(E!Triggers) /\ Len(queue) <= QueueCap
    /\ \A k \in 1..Len(queue) : queue[k].depth <= Cascade + 1
    /\ last \in [Schedules -> Int] /\ sent \in [Schedules -> Int]
    /\ emit \in [E!Emitters -> EventCalls]
    /\ task \in [Slots -> EventTasks] /\ \A i \in Slots : task[i].left <= PerTask
    /\ exec \in [pc : {"idle", "admit", "join", "spawn"}, fired : E!Triggers \cup {E!NoTrigger},
                 taken : SUBSET Slots]

\* It says the same.
LEMMA ShapesAgree == ASSUME E!EventAssumption PROVE (E!Shape <=> EventShapes) /\ (E!Shape' <=> EventShapes')
<1>1. PerTask \in Nat /\ Cascade \in Nat
  BY DEF E!EventAssumption
<1>2. E!Shape <=> EventShapes
  <2>1. ASSUME E!Shape PROVE EventShapes
    BY <1>1, <2>1 DEF E!Shape, E!TypeOK, EventShapes, EventCalls, EventTasks
  <2>2. ASSUME EventShapes PROVE E!Shape
    <3>1. E!TypeOK
      <4>1. \A e \in E!Emitters : emit[e].pc \in {"idle", "lock", "send"} /\ emit[e].for \subseteq Schedules
        BY <2>2 DEF EventShapes, EventCalls
      <4>2. \A i \in Slots : /\ task[i].st \in {"none", "running", "aborting"}
                             /\ task[i].left \in 0..PerTask
        BY <1>1, <2>2 DEF EventShapes, EventTasks
      <4>3. \A k \in 1..Len(queue) : queue[k].s \in Schedules /\ queue[k].depth \in 0..(Cascade + 1)
        <5> SUFFICES ASSUME NEW k \in 1..Len(queue)
                     PROVE  queue[k].s \in Schedules /\ queue[k].depth \in 0..(Cascade + 1)
          OBVIOUS
        <5>1. queue[k] \in E!Triggers /\ queue[k].depth <= Cascade + 1
          BY <2>2 DEF EventShapes
        <5> QED
          BY <1>1, <5>1 DEF E!Triggers
      <4> QED
        BY <2>2, <4>1, <4>2, <4>3 DEF E!TypeOK, EventShapes
    <3> QED
      BY <2>2, <3>1 DEF E!Shape, EventShapes, EventCalls, EventTasks
  <2> QED
    BY <2>1, <2>2
<1> QED
  BY <1>2, PTL

\* Initially nothing is fired.
LEMMA EventInit == ASSUME E!EventAssumption PROVE E!Init => E!IndInv
<1> SUFFICES ASSUME E!Init
             PROVE  E!IndInv
  OBVIOUS
<1>1. /\ QueueCap \in Nat /\ Cascade \in Nat /\ PerTask \in Nat /\ MaxTime \in Nat
  BY DEF E!EventAssumption
<1>2. /\ clock = 0 /\ chan = 1 /\ queue = <<>>
      /\ last = [s \in Schedules |-> -100] /\ sent = [s \in Schedules |-> -100]
      /\ emit = [e \in E!Emitters |-> E!Quiet] /\ task = [i \in Slots |-> E!NoTask]
      /\ exec = [pc |-> "idle", fired |-> E!NoTrigger, taken |-> {}]
  BY DEF E!Init, E!Never
<1>3. E!Quiet \in EventCalls /\ E!NoTask \in EventTasks /\ E!NoTask.left = 0
      /\ E!Quiet.pc = "idle" /\ E!NoTask.st = "none"
  BY RestFacts
<1>4. EventShapes
  BY <1>1, <1>2, <1>3 DEF EventShapes
<1>5. \A e \in E!Emitters : emit[e].pc = "idle"
  BY <1>2, <1>3
<1>6. \A i \in Slots : task[i].st = "none" /\ emit[i].pc = "idle"
  BY <1>2, <1>3, <1>5 DEF E!Emitters
<1>7. E!DepthIsTrue
  BY <1>2, <1>5, <1>6 DEF E!DepthIsTrue
<1>8. E!SourceIsTrue /\ E!BridgeRests
  BY <1>5, <1>6 DEF E!SourceIsTrue, E!BridgeRests
<1>9. E!WindowWasSent
  BY <1>2 DEF E!WindowWasSent
<1> QED
  BY <1>4, <1>7, <1>8, <1>9, ShapesAgree DEF E!IndInv

\* Calls, triggers and executions keep their shapes.
LEMMA EventShapesKeep ==
    ASSUME E!EventAssumption, EventShapes, E!DepthIsTrue, E!Next
    PROVE  EventShapes'
<1>1. /\ QueueCap \in Nat /\ Cascade \in Nat /\ PerTask \in Nat /\ MaxTime \in Nat
  BY DEF E!EventAssumption
<1>2. /\ clock \in 0..MaxTime /\ clock \in Int /\ chan \in Int
      /\ queue \in Seq(E!Triggers) /\ Len(queue) <= QueueCap
      /\ \A k \in 1..Len(queue) : queue[k].depth <= Cascade + 1
      /\ last \in [Schedules -> Int] /\ sent \in [Schedules -> Int]
      /\ emit \in [E!Emitters -> EventCalls]
      /\ task \in [Slots -> EventTasks] /\ \A i \in Slots : task[i].left <= PerTask
      /\ exec \in [pc : {"idle", "admit", "join", "spawn"}, fired : E!Triggers \cup {E!NoTrigger},
                   taken : SUBSET Slots]
  BY <1>1 DEF EventShapes
<1>3. /\ E!Quiet \in EventCalls /\ E!NoTask \in EventTasks /\ E!NoTask.left = 0
      /\ E!Rest \in [pc : {"idle", "admit", "join", "spawn"}, fired : E!Triggers \cup {E!NoTrigger},
                     taken : SUBSET Slots]
  BY RestFacts
<1>4. ASSUME NEW o \in Outside, E!EmitOutside(o) PROVE EventShapes'
  <2>1. UNCHANGED <<clock, up, chan, queue, last, task, exec, sent>>
    BY <1>4 DEF E!EmitOutside
  <2>2. PICK kind \in Kinds :
           emit' \in {emit, [emit EXCEPT ![o] = [pc |-> "lock", chan |-> chan, for |-> {},
                                                 ev |-> E!Event(kind, E!NoSchedule, 0, 0, clock)]]}
    BY <1>4 DEF E!EmitOutside
  <2>3. [pc |-> "lock", chan |-> chan, for |-> {},
         ev |-> E!Event(kind, E!NoSchedule, 0, 0, clock)] \in EventCalls
    BY <1>2 DEF EventCalls, E!Event, E!Origins
  <2>4. emit' \in [E!Emitters -> EventCalls]
    BY <1>2, <2>2, <2>3
  <2> QED
    BY <1>2, <2>1, <2>4 DEF EventShapes
<1>5. ASSUME NEW i \in Slots, E!EmitTask(i) PROVE EventShapes'
  <2>1. UNCHANGED <<clock, up, chan, queue, last, exec, sent>>
        /\ task' = [task EXCEPT ![i].left = @ - 1] /\ task[i].left > 0
    BY <1>5 DEF E!EmitTask
  <2> DEFINE ev(kind) == E!Event(kind, task[i].s, task[i].depth, E!Longer(task[i].chain), clock)
  <2>2. PICK kind \in Kinds :
           emit' \in {emit, [emit EXCEPT ![i] = [pc |-> "lock", chan |-> chan, for |-> {},
                                                 ev |-> ev(kind)]]}
    BY <1>5 DEF E!EmitTask, E!Origin
  <2>3. [pc |-> "lock", chan |-> chan, for |-> {}, ev |-> ev(kind)] \in EventCalls
    <3>1. task[i] \in EventTasks
      BY <1>2
    <3>2. E!Longer(task[i].chain) \in Nat
      BY <1>1, <3>1 DEF EventTasks, E!Longer
    <3> QED
      BY <1>2, <3>1, <3>2 DEF EventCalls, EventTasks, E!Event
  <2>4. emit' \in [E!Emitters -> EventCalls]
    BY <1>2, <2>2, <2>3
  <2>5. task' \in [Slots -> EventTasks] /\ \A j \in Slots : task'[j].left <= PerTask
    <3> DEFINE t == [task[i] EXCEPT !.left = task[i].left - 1]
    <3>1. task[i] \in EventTasks /\ task[i].left <= PerTask
      BY <1>2
    <3>2. t \in EventTasks /\ t.left <= PerTask
      BY <1>1, <2>1, <3>1 DEF EventTasks
    <3>3. task' = [task EXCEPT ![i] = t]
      BY <1>2, <2>1
    <3> HIDE DEF t
    <3> QED
      BY <1>2, <3>2, <3>3
  <2> QED
    BY <1>2, <2>1, <2>4, <2>5 DEF EventShapes
<1>6. ASSUME NEW i \in Slots, E!End(i) \/ E!Abort(i) PROVE EventShapes'
  <2>1. UNCHANGED <<clock, up, chan, queue, last, exec, sent>>
        /\ task' = [task EXCEPT ![i] = E!NoTask] /\ emit' \in {emit, [emit EXCEPT ![i] = E!Quiet]}
    BY <1>6 DEF E!End, E!Abort
  <2>2. task' \in [Slots -> EventTasks] /\ \A j \in Slots : task'[j].left <= PerTask
    BY <1>1, <1>2, <1>3, <2>1
  <2>3. emit' \in [E!Emitters -> EventCalls]
    BY <1>2, <1>3, <2>1
  <2> QED
    BY <1>2, <2>1, <2>2, <2>3 DEF EventShapes
<1>7. ASSUME NEW e \in E!Emitters, E!Prepare(e) PROVE EventShapes'
  <2>1. UNCHANGED <<clock, up, chan, queue, last, task, exec, sent>>
    BY <1>7 DEF E!Prepare
  <2> DEFINE prepared == {s \in Schedules : E!Matches(s, emit[e].ev)}
  <2>2. emit' \in {[emit EXCEPT ![e] = E!Quiet],
                   [emit EXCEPT ![e] = [emit[e] EXCEPT !.pc = "send", !.for = prepared]]}
    BY <1>2, <1>7 DEF E!Prepare
  <2>3. [emit[e] EXCEPT !.pc = "send", !.for = prepared] \in EventCalls
    <3>1. emit[e] \in EventCalls /\ prepared \subseteq Schedules
      BY <1>2
    <3> HIDE DEF prepared
    <3> QED
      BY <3>1 DEF EventCalls
  <2>4. emit' \in [E!Emitters -> EventCalls]
    BY <1>2, <1>3, <2>2, <2>3
  <2> QED
    BY <1>2, <2>1, <2>4 DEF EventShapes
<1>8. ASSUME NEW e \in E!Emitters, NEW s \in emit[e].for, E!Sent(e, s)
      PROVE  emit' \in [E!Emitters -> EventCalls]
  <2>1. emit' \in {[emit EXCEPT ![e] = E!Quiet],
                   [emit EXCEPT ![e] = [emit[e] EXCEPT !.for = emit[e].for \ {s}]]}
    <3>1. CASE emit[e].for = {s}
      BY <1>8, <3>1 DEF E!Sent
    <3>2. CASE emit[e].for # {s}
      BY <1>8, <3>2 DEF E!Sent
    <3> QED
      BY <3>1, <3>2
  <2>2. [emit[e] EXCEPT !.for = emit[e].for \ {s}] \in EventCalls
    <3>1. emit[e] \in EventCalls
      BY <1>2
    <3>2. emit[e].for \ {s} \in SUBSET Schedules
      BY <3>1 DEF EventCalls
    <3> QED
      BY <3>1, <3>2 DEF EventCalls
  <2> QED
    BY <1>2, <1>3, <2>1, <2>2
<1>9. ASSUME NEW e \in E!Emitters, E!SendFails(e) PROVE EventShapes'
  <2>1. UNCHANGED <<clock, up, chan, queue, last, task, exec, sent>> /\ \E s \in emit[e].for : E!Sent(e, s)
    BY <1>9 DEF E!SendFails
  <2> QED
    BY <1>2, <1>8, <2>1 DEF EventShapes
<1>10. ASSUME NEW e \in E!Emitters, E!Send(e) PROVE EventShapes'
  <2>1. UNCHANGED <<clock, up, chan, task, exec>> /\ emit[e].pc = "send" /\ Len(queue) < QueueCap
    BY <1>10 DEF E!Send
  <2> DEFINE new(s) == [s |-> s, depth |-> E!DepthOf(emit[e].ev), chain |-> emit[e].ev.chain]
  <2>2. PICK s \in emit[e].for :
           /\ queue' = Append(queue, new(s))
           /\ last' = [last EXCEPT ![s] = emit[e].ev.at] /\ sent' = [sent EXCEPT ![s] = emit[e].ev.at]
           /\ E!Sent(e, s)
    BY <1>10 DEF E!Send
  <2>3. /\ emit[e] \in EventCalls /\ s \in Schedules /\ emit[e].ev.at \in Int
        /\ E!DepthOf(emit[e].ev) = emit[e].ev.chain /\ emit[e].ev.chain \in Nat
        /\ emit[e].ev.chain <= Cascade + 1
    BY <1>2, <2>1 DEF EventCalls, E!DepthIsTrue
  <2>4. new(s) \in E!Triggers /\ new(s).depth <= Cascade + 1
    BY <2>3 DEF E!Triggers
  <2> HIDE DEF new
  <2>5. /\ queue' \in Seq(E!Triggers) /\ Len(queue') <= QueueCap
        /\ \A k \in 1..Len(queue') : queue'[k].depth <= Cascade + 1
    <3>1. queue' \in Seq(E!Triggers) /\ Len(queue') = Len(queue) + 1
          /\ \A k \in 1..Len(queue') : queue'[k] = IF k = Len(queue) + 1 THEN new(s) ELSE queue[k]
      BY <1>2, <2>2, <2>4
    <3>2. Len(queue) \in Nat /\ \A k \in 1..(Len(queue) + 1) : k # Len(queue) + 1 => k \in 1..Len(queue)
      BY <1>2
    <3>3. Len(queue') <= QueueCap
      BY <1>1, <2>1, <3>1, <3>2
    <3> QED
      BY <1>2, <2>4, <3>1, <3>2, <3>3
  <2>6. last' \in [Schedules -> Int] /\ sent' \in [Schedules -> Int]
    BY <1>2, <2>2, <2>3
  <2> QED
    BY <1>2, <1>8, <2>1, <2>2, <2>5, <2>6 DEF EventShapes
<1>11. CASE E!Receive
  <2>1. UNCHANGED <<clock, up, chan, last, emit, task, sent>> /\ queue # <<>> /\ queue' = Tail(queue)
        /\ exec' = [exec EXCEPT !.pc = "admit", !.fired = Head(queue)]
    BY <1>11 DEF E!Receive
  <2>2. Head(queue) \in E!Triggers /\ Tail(queue) \in Seq(E!Triggers)
        /\ Len(Tail(queue)) = Len(queue) - 1
        /\ \A k \in 1..Len(Tail(queue)) : k + 1 \in 1..Len(queue) /\ Tail(queue)[k] = queue[k + 1]
    BY <1>2, <2>1
  <2>3. exec' \in [pc : {"idle", "admit", "join", "spawn"}, fired : E!Triggers \cup {E!NoTrigger},
                   taken : SUBSET Slots]
    BY <1>2, <2>1, <2>2
  <2>4. \A k \in 1..Len(queue') : queue'[k].depth <= Cascade + 1
    BY <1>2, <2>1, <2>2
  <2>5. Len(queue') <= QueueCap
    BY <1>1, <1>2, <2>1, <2>2
  <2> QED
    BY <1>2, <2>1, <2>2, <2>3, <2>4, <2>5 DEF EventShapes
<1>12. CASE E!Admit
  <2>1. UNCHANGED <<clock, up, chan, queue, last, emit, sent>>
    BY <1>12 DEF E!Admit
  <2> DEFINE busy == E!Of(exec.fired.s)
  <2>2. busy \subseteq Slots
    BY DEF E!Of
  <2>3. \/ exec' = E!Rest /\ task' = task
        \/ /\ exec' = [exec EXCEPT !.pc = "join", !.taken = busy]
           /\ task' = [i \in Slots |-> IF i \in busy THEN [task[i] EXCEPT !.st = "aborting"] ELSE task[i]]
        \/ exec' = [exec EXCEPT !.pc = "spawn"] /\ task' = task
    BY <1>12 DEF E!Admit
  <2> HIDE DEF busy
  <2>4. exec' \in [pc : {"idle", "admit", "join", "spawn"}, fired : E!Triggers \cup {E!NoTrigger},
                   taken : SUBSET Slots]
    BY <1>2, <1>3, <2>2, <2>3
  <2>5. task' \in [Slots -> EventTasks] /\ \A j \in Slots : task'[j].left <= PerTask
    <3>1. \A j \in Slots : task[j] \in EventTasks /\ task[j].left <= PerTask
      BY <1>2
    <3>2. \A j \in Slots : LET t == [task[j] EXCEPT !.st = "aborting"] IN
             t \in EventTasks /\ t.left <= PerTask
      BY <3>1 DEF EventTasks
    <3>3. CASE task' = [i \in Slots |-> IF i \in busy THEN [task[i] EXCEPT !.st = "aborting"] ELSE task[i]]
      <4> DEFINE t(j) == [task[j] EXCEPT !.st = "aborting"]
      <4>1. task' = [i \in Slots |-> IF i \in busy THEN t(i) ELSE task[i]]
        BY <3>3
      <4>2. \A j \in Slots : t(j) \in EventTasks /\ t(j).left <= PerTask
        BY <3>2
      <4> HIDE DEF t
      <4> QED
        BY <3>1, <4>1, <4>2
    <3> QED
      BY <1>2, <2>3, <3>3
  <2> QED
    BY <1>2, <2>1, <2>4, <2>5 DEF EventShapes
<1>13. CASE E!Join
  <2>1. UNCHANGED <<clock, up, chan, queue, last, emit, task, sent>>
        /\ exec' = [exec EXCEPT !.pc = "spawn", !.taken = {}]
    BY <1>13 DEF E!Join
  <2>2. exec' \in [pc : {"idle", "admit", "join", "spawn"}, fired : E!Triggers \cup {E!NoTrigger},
                   taken : SUBSET Slots]
    BY <1>2, <2>1
  <2> QED
    BY <1>2, <2>1, <2>2 DEF EventShapes
<1>14. CASE E!Spawn
  <2>1. UNCHANGED <<clock, up, chan, queue, last, emit, sent>> /\ exec' = E!Rest /\ exec.pc = "spawn"
    BY <1>14 DEF E!Spawn
  <2> DEFINE new == [st |-> "running", s |-> exec.fired.s, depth |-> exec.fired.depth,
                     chain |-> exec.fired.chain, left |-> PerTask]
  <2>2. PICK i \in Slots : task' = [task EXCEPT ![i] = new]
    BY <1>14 DEF E!Spawn
  <2>3. new \in EventTasks /\ new.left = PerTask
    BY <1>1, <2>1 DEF E!DepthIsTrue, E!Triggers, EventTasks, E!Origins
  <2> HIDE DEF new
  <2>4. task' \in [Slots -> EventTasks] /\ \A j \in Slots : task'[j].left <= PerTask
    BY <1>1, <1>2, <2>2, <2>3
  <2> QED
    BY <1>2, <1>3, <2>1, <2>4 DEF EventShapes
<1>15. CASE E!Stop
  <2>1. UNCHANGED <<clock, chan, last, sent>> /\ queue' = <<>> /\ exec' = E!Rest
        /\ task' = [i \in Slots |-> E!NoTask]
        /\ emit' = [e \in E!Emitters |-> IF e \in Slots THEN E!Quiet ELSE emit[e]]
    BY <1>15 DEF E!Stop
  <2>2. /\ task' \in [Slots -> EventTasks] /\ \A j \in Slots : task'[j].left <= PerTask
        /\ emit' \in [E!Emitters -> EventCalls]
        /\ queue' \in Seq(E!Triggers) /\ Len(queue') = 0
    BY <1>1, <1>2, <1>3, <2>1
  <2> QED
    BY <1>1, <1>2, <1>3, <2>1, <2>2 DEF EventShapes
<1>16. CASE E!Start \/ E!Clock
  BY <1>1, <1>2, <1>16 DEF E!Start, E!Clock, EventShapes
<1> QED
  BY <1>4, <1>5, <1>6, <1>7, <1>9, <1>10, <1>11, <1>12, <1>13, <1>14, <1>15, <1>16
  DEF E!Next, E!Emitting, E!Executor

\* After a trigger the call goes on with the others, or is over.
LEMMA SentFacts ==
    ASSUME E!EventAssumption, EventShapes, NEW e \in E!Emitters, NEW s \in emit[e].for, E!Sent(e, s)
    PROVE  /\ \A f \in E!Emitters : f # e => emit'[f] = emit[f]
           /\ \/ emit'[e] = E!Quiet
              \/ emit'[e].pc = emit[e].pc /\ emit'[e].ev = emit[e].ev /\ emit'[e].for = emit[e].for \ {s}
<1>1. emit \in [E!Emitters -> EventCalls] /\ emit[e] \in EventCalls
  BY DEF EventShapes
<1>2. emit' \in {[emit EXCEPT ![e] = E!Quiet],
                 [emit EXCEPT ![e] = [emit[e] EXCEPT !.for = emit[e].for \ {s}]]}
  BY DEF E!Sent
<1>3. CASE emit' = [emit EXCEPT ![e] = E!Quiet]
  BY <1>1, <1>3
<1>4. CASE emit' = [emit EXCEPT ![e] = [emit[e] EXCEPT !.for = emit[e].for \ {s}]]
  <2>1. emit'[e] = [emit[e] EXCEPT !.for = emit[e].for \ {s}] /\ \A f \in E!Emitters : f # e => emit'[f] = emit[f]
    BY <1>1, <1>4
  <2> QED
    BY <1>1, <2>1 DEF EventCalls
<1> QED
  BY <1>2, <1>3, <1>4

\* A call that begins carries the depth and the schedule of its execution; other calls stay
\* as they are, go on, or end.
LEMMA CallFacts ==
    ASSUME E!EventAssumption, EventShapes, E!Next, NEW f \in E!Emitters
    PROVE  \/ emit'[f] = emit[f]
           \/ emit'[f] = E!Quiet
           \/ /\ emit[f].pc \in {"lock", "send"} /\ emit'[f].pc = "send" /\ emit'[f].ev = emit[f].ev
              /\ f \in Slots => task'[f] = task[f]
           \/ /\ f \in Outside /\ emit'[f].pc = "lock"
              /\ emit'[f].ev.src = E!NoSchedule /\ emit'[f].ev.depth = 0 /\ emit'[f].ev.chain = 0
           \/ /\ f \in Slots /\ task[f].st = "running" /\ emit'[f].pc = "lock"
              /\ emit'[f].ev.src = task[f].s /\ emit'[f].ev.depth = task[f].depth
              /\ emit'[f].ev.chain = E!Longer(task[f].chain)
              /\ task'[f].st = task[f].st /\ task'[f].s = task[f].s
<1>1. /\ emit \in [E!Emitters -> EventCalls] /\ emit[f] \in EventCalls
      /\ task \in [Slots -> EventTasks]
  BY DEF EventShapes
<1>2. ASSUME NEW o \in Outside, E!EmitOutside(o)
      PROVE  \/ emit'[f] = emit[f]
             \/ /\ f \in Outside /\ emit'[f].pc = "lock"
                /\ emit'[f].ev.src = E!NoSchedule /\ emit'[f].ev.depth = 0 /\ emit'[f].ev.chain = 0
  <2>1. PICK kind \in Kinds :
           emit' \in {emit, [emit EXCEPT ![o] = [pc |-> "lock", chan |-> chan, for |-> {},
                                                 ev |-> E!Event(kind, E!NoSchedule, 0, 0, clock)]]}
    BY <1>2 DEF E!EmitOutside
  <2> QED
    BY <1>1, <2>1 DEF E!Event
<1>3. ASSUME NEW i \in Slots, E!EmitTask(i)
      PROVE  \/ emit'[f] = emit[f]
             \/ /\ f \in Slots /\ task[f].st = "running" /\ emit'[f].pc = "lock"
                /\ emit'[f].ev.src = task[f].s /\ emit'[f].ev.depth = task[f].depth
                /\ emit'[f].ev.chain = E!Longer(task[f].chain)
                /\ task'[f].st = task[f].st /\ task'[f].s = task[f].s
  <2>1. PICK kind \in Kinds :
           emit' \in {emit, [emit EXCEPT ![i] = [pc |-> "lock", chan |-> chan, for |-> {},
                                                 ev |-> E!Event(kind, task[i].s, task[i].depth,
                                                                E!Longer(task[i].chain), clock)]]}
    BY <1>3 DEF E!EmitTask, E!Origin
  <2>2. task[i].st = "running" /\ task' = [task EXCEPT ![i].left = @ - 1]
    BY <1>3 DEF E!EmitTask
  <2>3. task'[i].st = task[i].st /\ task'[i].s = task[i].s
    <3>1. task[i] \in EventTasks
      BY <1>1
    <3> QED
      BY <1>1, <2>2, <3>1 DEF EventTasks
  <2> QED
    BY <1>1, <2>1, <2>2, <2>3 DEF E!Event
<1>4. ASSUME NEW i \in Slots, E!End(i) \/ E!Abort(i)
      PROVE  emit'[f] = emit[f] \/ emit'[f] = E!Quiet
  BY <1>1, <1>4 DEF E!End, E!Abort
<1>5. ASSUME NEW e \in E!Emitters, E!Emitting(e)
      PROVE  \/ emit'[f] = emit[f]
             \/ emit'[f] = E!Quiet
             \/ /\ emit[f].pc \in {"lock", "send"} /\ emit'[f].pc = "send" /\ emit'[f].ev = emit[f].ev
                /\ f \in Slots => task'[f] = task[f]
  <2>1. CASE E!Prepare(e)
    <3> DEFINE prepared == {s \in Schedules : E!Matches(s, emit[e].ev)}
    <3>1. /\ task' = task /\ emit[e].pc = "lock"
          /\ emit' \in {[emit EXCEPT ![e] = E!Quiet],
                        [emit EXCEPT ![e] = [emit[e] EXCEPT !.pc = "send", !.for = prepared]]}
      BY <1>1, <2>1 DEF E!Prepare
    <3> HIDE DEF prepared
    <3>2. LET c == [emit[e] EXCEPT !.pc = "send", !.for = prepared] IN
             c.pc = "send" /\ c.ev = emit[e].ev
      BY <1>1 DEF EventCalls
    <3> QED
      BY <1>1, <3>1, <3>2
  <2>2. CASE E!Send(e) \/ E!SendFails(e)
    <3>1. emit[e].pc = "send" /\ task' = task /\ \E s \in emit[e].for : E!Sent(e, s)
      BY <2>2 DEF E!Send, E!SendFails
    <3> QED
      BY <3>1, SentFacts
  <2> QED
    BY <1>5, <2>1, <2>2 DEF E!Emitting
<1>6. CASE E!Executor \/ E!Start \/ E!Clock
  BY <1>6 DEF E!Executor, E!Receive, E!Admit, E!Join, E!Spawn, E!Start, E!Clock
<1>7. CASE E!Stop
  BY <1>7 DEF E!Stop
<1> QED
  BY <1>2, <1>3, <1>4, <1>5, <1>6, <1>7 DEF E!Next

\* An execution stays as it is, is aborted, ends, or is begun from the trigger at hand.
LEMMA TaskFacts ==
    ASSUME E!EventAssumption, EventShapes, E!Next, NEW i \in Slots
    PROVE  \/ task'[i].st = "none"
           \/ /\ task[i].st # "none" /\ task'[i].s = task[i].s
              /\ task'[i].depth = task[i].depth /\ task'[i].chain = task[i].chain
           \/ /\ task[i].st = "none" /\ exec.pc = "spawn" /\ task'[i].s = exec.fired.s
              /\ task'[i].depth = exec.fired.depth /\ task'[i].chain = exec.fired.chain
<1>1. task \in [Slots -> EventTasks] /\ task[i] \in EventTasks
  BY DEF EventShapes
<1>2. CASE task' = task
  BY <1>2
<1>3. ASSUME NEW j \in Slots, E!EmitTask(j) PROVE /\ task[i].st # "none" => /\ task'[i].s = task[i].s
                                                         /\ task'[i].depth = task[i].depth
                                                         /\ task'[i].chain = task[i].chain
                                                  /\ task'[i].st = task[i].st
  <2>1. task' = [task EXCEPT ![j].left = @ - 1]
    BY <1>3 DEF E!EmitTask
  <2> QED
    BY <1>1, <2>1 DEF EventTasks
<1>4. ASSUME NEW j \in Slots, E!End(j) \/ E!Abort(j) PROVE task'[i] = task[i] \/ task'[i].st = "none"
  BY <1>1, <1>4, RestFacts DEF E!End, E!Abort
<1>5. CASE E!Admit
  <2>1. \/ task' = task
        \/ task' = [k \in Slots |-> IF k \in E!Of(exec.fired.s) THEN [task[k] EXCEPT !.st = "aborting"]
                                    ELSE task[k]]
    BY <1>5 DEF E!Admit
  <2>2. task'[i] = task[i] \/ (task'[i] = [task[i] EXCEPT !.st = "aborting"] /\ task[i].st # "none")
    BY <1>1, <2>1 DEF E!Of
  <2> QED
    BY <1>1, <2>2 DEF EventTasks
<1>6. CASE E!Spawn
  <2>1. PICK j \in Slots :
          /\ task[j] = E!NoTask
          /\ task' = [task EXCEPT ![j] = [st |-> "running", s |-> exec.fired.s,
                                          depth |-> exec.fired.depth, chain |-> exec.fired.chain,
                                          left |-> PerTask]]
    BY <1>6 DEF E!Spawn
  <2>2. exec.pc = "spawn"
    BY <1>6 DEF E!Spawn
  <2> QED
    BY <1>1, <2>1, <2>2, RestFacts
<1>7. CASE E!Stop
  <2>1. task' = [k \in Slots |-> E!NoTask]
    BY <1>7 DEF E!Stop
  <2> QED
    BY <2>1, RestFacts
<1>8. ASSUME E!Next PROVE \/ task' = task
                          \/ \E j \in Slots : E!EmitTask(j) \/ E!End(j) \/ E!Abort(j)
                          \/ E!Admit \/ E!Spawn \/ E!Stop
  BY <1>8 DEF E!Next, E!EmitOutside, E!Emitting, E!Prepare, E!Send, E!SendFails, E!Executor,
              E!Receive, E!Join, E!Start, E!Clock
<1> QED
  BY <1>2, <1>3, <1>4, <1>5, <1>6, <1>7, <1>8

\* The carried depth stays the number of executions behind it.
LEMMA DepthKeeps ==
    ASSUME E!EventAssumption, EventShapes, EventShapes', E!DepthIsTrue, E!Next
    PROVE  E!DepthIsTrue'
<1>1. Cascade \in Nat /\ E!NoSchedule \notin Schedules /\ E!Emitters = Outside \cup Slots
  BY DEF E!EventAssumption, E!NoSchedule, E!Emitters
<1>2. ASSUME NEW i \in Slots, task[i].st # "none"
      PROVE  /\ task[i].s \in Schedules /\ task[i].depth = task[i].chain
             /\ task[i].chain <= Cascade /\ task[i].chain \in Nat
  BY <1>2 DEF E!DepthIsTrue, EventShapes, EventTasks
<1>3. ASSUME NEW e \in E!Emitters, emit'[e].pc # "idle"
      PROVE  E!DepthOf(emit'[e].ev) = emit'[e].ev.chain /\ emit'[e].ev.chain <= Cascade + 1
  <2>1. emit'[e] # E!Quiet
    BY <1>3, RestFacts
  <2>2. CASE emit'[e].ev = emit[e].ev /\ emit[e].pc # "idle"
    BY <2>2 DEF E!DepthIsTrue
  <2>3. CASE emit'[e].ev.src = E!NoSchedule /\ emit'[e].ev.depth = 0 /\ emit'[e].ev.chain = 0
    BY <1>1, <2>3 DEF E!DepthOf
  <2>4. CASE /\ e \in Slots /\ task[e].st = "running"
             /\ emit'[e].ev.src = task[e].s /\ emit'[e].ev.depth = task[e].depth
             /\ emit'[e].ev.chain = E!Longer(task[e].chain)
    <3>1. /\ task[e].s \in Schedules /\ task[e].depth = task[e].chain
          /\ task[e].chain <= Cascade /\ task[e].chain \in Nat
      BY <1>2, <2>4
    <3> QED
      BY <1>1, <2>4, <3>1 DEF E!DepthOf, E!Longer
  <2> QED
    BY <1>3, <2>1, <2>2, <2>3, <2>4, CallFacts
<1>4. ASSUME NEW k \in 1..Len(queue') PROVE queue'[k].depth = queue'[k].chain
  <2>1. queue \in Seq(E!Triggers) /\ \A j \in 1..Len(queue) : queue[j].depth = queue[j].chain
    BY DEF EventShapes, E!DepthIsTrue
  <2>2. CASE queue' = queue
    BY <2>1, <2>2
  <2>3. ASSUME NEW e \in E!Emitters, E!Send(e) PROVE queue'[k].depth = queue'[k].chain
    <3> DEFINE new(s) == [s |-> s, depth |-> E!DepthOf(emit[e].ev), chain |-> emit[e].ev.chain]
    <3>1. PICK s \in emit[e].for : queue' = Append(queue, new(s))
      BY <2>3 DEF E!Send
    <3>2. emit[e].pc = "send"
      BY <2>3 DEF E!Send
    <3>3. new(s).depth = new(s).chain
      BY <3>2 DEF E!DepthIsTrue
    <3>4. new(s) \in E!Triggers
      <4>1. emit[e] \in EventCalls
        BY DEF EventShapes
      <4> QED
        BY <3>2, <4>1 DEF E!DepthIsTrue, EventCalls, E!Triggers
    <3> HIDE DEF new
    <3>5. queue'[k] = IF k = Len(queue) + 1 THEN new(s) ELSE queue[k]
      BY <2>1, <3>1, <3>4
    <3>6. k # Len(queue) + 1 => k \in 1..Len(queue)
      BY <2>1, <3>1, <3>4
    <3> QED
      BY <2>1, <3>3, <3>5, <3>6
  <2>4. CASE E!Receive
    <3>1. queue # <<>> /\ queue' = Tail(queue)
      BY <2>4 DEF E!Receive
    <3>2. k + 1 \in 1..Len(queue) /\ queue'[k] = queue[k + 1]
      BY <2>1, <3>1
    <3> QED
      BY <2>1, <3>2
  <2>5. CASE E!Stop
    <3>1. queue' = <<>>
      BY <2>5 DEF E!Stop
    <3> QED
      BY <3>1
  <2> QED
    BY <2>2, <2>3, <2>4, <2>5
    DEF E!Next, E!EmitOutside, E!EmitTask, E!End, E!Abort, E!Emitting, E!Prepare, E!SendFails,
        E!Executor, E!Admit, E!Join, E!Spawn, E!Start, E!Clock
<1>5. /\ exec'.pc # "idle" => exec'.fired \in E!Triggers /\ exec'.fired.depth = exec'.fired.chain
      /\ exec'.pc \in {"join", "spawn"} => exec'.fired.depth <= Cascade
  <2>1. exec \in [pc : {"idle", "admit", "join", "spawn"}, fired : E!Triggers \cup {E!NoTrigger},
                  taken : SUBSET Slots]
    BY DEF EventShapes
  <2>2. /\ exec.pc # "idle" => exec.fired \in E!Triggers /\ exec.fired.depth = exec.fired.chain
        /\ exec.pc \in {"join", "spawn"} => exec.fired.depth <= Cascade
    BY DEF E!DepthIsTrue
  <2>3. CASE exec' = exec
    BY <2>2, <2>3
  <2>4. CASE E!Receive
    <3>1. exec' = [exec EXCEPT !.pc = "admit", !.fired = Head(queue)] /\ queue # <<>>
      BY <2>4 DEF E!Receive
    <3>2. exec'.pc = "admit" /\ exec'.fired = Head(queue)
      BY <2>1, <3>1
    <3>3. queue \in Seq(E!Triggers) /\ \A j \in 1..Len(queue) : queue[j].depth = queue[j].chain
      BY DEF EventShapes, E!DepthIsTrue
    <3>4. Head(queue) = queue[1] /\ 1 \in 1..Len(queue) /\ Head(queue) \in E!Triggers
      BY <3>1, <3>3
    <3> QED
      BY <3>2, <3>3, <3>4
  <2>5. CASE E!Admit
    <3>1. \/ exec' = E!Rest
          \/ /\ exec' \in {[exec EXCEPT !.pc = "join", !.taken = E!Of(exec.fired.s)],
                           [exec EXCEPT !.pc = "spawn"]}
             /\ ~(exec.fired.depth > Cascade)
      BY <2>5 DEF E!Admit, E!TooDeep
    <3>2. exec.pc = "admit"
      BY <2>5 DEF E!Admit
    <3>3. exec'.fired = exec.fired \/ exec'.pc = "idle"
      BY <2>1, <3>1, RestFacts
    <3>4. exec'.pc # "idle" => ~(exec.fired.depth > Cascade)
      BY <3>1, RestFacts
    <3>5. exec.fired \in E!Triggers /\ exec.fired.depth \in Nat
      BY <2>2, <3>2 DEF E!Triggers
    <3>6. exec'.pc # "idle" => exec.fired.depth <= Cascade
      BY <1>1, <3>4, <3>5
    <3> QED
      BY <2>2, <3>2, <3>3, <3>6
  <2>6. CASE E!Join
    <3>1. exec.pc = "join" /\ exec' = [exec EXCEPT !.pc = "spawn", !.taken = {}]
      BY <2>6 DEF E!Join
    <3>2. exec'.fired = exec.fired
      BY <2>1, <3>1
    <3> QED
      BY <2>2, <3>1, <3>2
  <2>7. CASE E!Spawn \/ E!Stop
    <3>1. exec' = E!Rest
      BY <2>7 DEF E!Spawn, E!Stop
    <3>2. exec'.pc = "idle"
      BY <3>1, RestFacts
    <3> QED
      BY <3>2
  <2> QED
    BY <2>3, <2>4, <2>5, <2>6, <2>7
    DEF E!Next, E!EmitOutside, E!EmitTask, E!End, E!Abort, E!Emitting, E!Prepare, E!Send, E!SendFails,
        E!Executor, E!Start, E!Clock
<1>6. ASSUME NEW i \in Slots, task'[i].st # "none"
      PROVE  task'[i].s \in Schedules /\ task'[i].depth = task'[i].chain /\ task'[i].chain <= Cascade
  <2>1. CASE /\ task[i].st # "none" /\ task'[i].s = task[i].s
             /\ task'[i].depth = task[i].depth /\ task'[i].chain = task[i].chain
    BY <1>2, <2>1
  <2>2. CASE /\ exec.pc = "spawn" /\ task'[i].s = exec.fired.s
             /\ task'[i].depth = exec.fired.depth /\ task'[i].chain = exec.fired.chain
    BY <2>2 DEF E!DepthIsTrue, E!Triggers
  <2> QED
    BY <1>6, <2>1, <2>2, TaskFacts
<1> QED
  BY <1>3, <1>4, <1>5, <1>6 DEF E!DepthIsTrue

\* The call of an execution carries its schedule and does not fire it.
LEMMA SourceKeeps ==
    ASSUME E!EventAssumption, EventShapes, E!SourceIsTrue, E!Next
    PROVE  E!SourceIsTrue'
<1> SUFFICES ASSUME NEW i \in Slots
             PROVE  /\ emit'[i].pc # "idle" => task'[i].st # "none" /\ emit'[i].ev.src = task'[i].s
                    /\ emit'[i].pc = "send" => emit'[i].ev.src \notin emit'[i].for
  BY DEF E!SourceIsTrue
<1>1. /\ i \in E!Emitters /\ i \notin Outside
      /\ emit \in [E!Emitters -> EventCalls] /\ task \in [Slots -> EventTasks]
  BY DEF E!Emitters, E!EventAssumption, EventShapes
<1>2. /\ emit[i].pc # "idle" => task[i].st # "none" /\ emit[i].ev.src = task[i].s
      /\ emit[i].pc = "send" => emit[i].ev.src \notin emit[i].for
  BY DEF E!SourceIsTrue
<1>3. emit[i].pc # "idle" /\ emit'[i].pc # "idle" => task'[i].st # "none" /\ task'[i].s = task[i].s
  <2> SUFFICES ASSUME emit[i].pc # "idle", emit'[i].pc # "idle"
               PROVE  task'[i].st # "none" /\ task'[i].s = task[i].s
    OBVIOUS
  <2>1. emit[i] # E!Quiet /\ emit'[i] # E!Quiet /\ task[i].st # "none"
    BY <1>2, RestFacts
  <2>2. ASSUME NEW j \in Slots, E!End(j) \/ E!Abort(j) PROVE task'[i] = task[i]
    <3>1. CASE i = j
      BY <1>1, <2>1, <2>2, <3>1 DEF E!End, E!Abort
    <3>2. CASE i # j
      BY <1>1, <2>2, <3>2 DEF E!End, E!Abort
    <3> QED
      BY <3>1, <3>2
  <2>3. ~E!Stop
    BY <1>1, <2>1 DEF E!Stop
  <2>4. ASSUME NEW j \in Slots, E!EmitTask(j) PROVE task'[i].st = task[i].st /\ task'[i].s = task[i].s
    <3>1. task' = [task EXCEPT ![j].left = @ - 1]
      BY <2>4 DEF E!EmitTask
    <3> QED
      BY <1>1, <3>1 DEF EventTasks
  <2>5. CASE E!Admit
    <3>1. \/ task' = task
          \/ task' = [k \in Slots |-> IF k \in E!Of(exec.fired.s) THEN [task[k] EXCEPT !.st = "aborting"]
                                      ELSE task[k]]
      BY <2>5 DEF E!Admit
    <3>2. task'[i] = task[i] \/ task'[i] = [task[i] EXCEPT !.st = "aborting"]
      BY <3>1
    <3>3. task[i] \in EventTasks
      BY <1>1
    <3> QED
      BY <2>1, <3>2, <3>3 DEF EventTasks
  <2>6. CASE E!Spawn
    <3>1. PICK j \in Slots : task[j] = E!NoTask /\ \E t : task' = [task EXCEPT ![j] = t]
      BY <2>6 DEF E!Spawn
    <3>2. j # i
      BY <2>1, <3>1, RestFacts
    <3> QED
      BY <1>1, <2>1, <3>1, <3>2
  <2>7. \/ task' = task
        \/ \E j \in Slots : E!EmitTask(j) \/ E!End(j) \/ E!Abort(j)
        \/ E!Admit \/ E!Spawn
    BY <2>3 DEF E!Next, E!EmitOutside, E!Emitting, E!Prepare, E!Send, E!SendFails, E!Executor,
                E!Receive, E!Join, E!Start, E!Clock
  <2> QED
    BY <2>1, <2>2, <2>4, <2>5, <2>6, <2>7
<1>4. emit'[i].pc # "idle" => task'[i].st # "none" /\ emit'[i].ev.src = task'[i].s
  <2> SUFFICES ASSUME emit'[i].pc # "idle"
               PROVE  task'[i].st # "none" /\ emit'[i].ev.src = task'[i].s
    OBVIOUS
  <2>1. emit'[i] # E!Quiet
    BY RestFacts
  <2>2. CASE emit[i].pc # "idle" /\ emit'[i].ev = emit[i].ev
    BY <1>2, <1>3, <2>2
  <2>3. CASE task[i].st = "running" /\ emit'[i].ev.src = task[i].s
             /\ task'[i].st = task[i].st /\ task'[i].s = task[i].s
    BY <2>3
  <2> QED
    BY <1>1, <2>1, <2>2, <2>3, CallFacts
<1>5. emit'[i].pc = "send" => emit'[i].ev.src \notin emit'[i].for
  <2> SUFFICES ASSUME emit'[i].pc = "send"
               PROVE  emit'[i].ev.src \notin emit'[i].for
    OBVIOUS
  <2>1. emit'[i] # E!Quiet
    BY RestFacts
  <2>2. CASE emit'[i] = emit[i]
    BY <1>2, <2>2
  <2>3. ASSUME NEW e \in E!Emitters, E!Prepare(e), emit'[i] # emit[i]
        PROVE  emit'[i].ev.src \notin emit'[i].for
    <3> DEFINE prepared == {s \in Schedules : E!Matches(s, emit[e].ev)}
    <3>1. emit' \in {[emit EXCEPT ![e] = E!Quiet],
                     [emit EXCEPT ![e] = [emit[e] EXCEPT !.pc = "send", !.for = prepared]]}
      BY <1>1, <2>3 DEF E!Prepare
    <3>2. emit[e].ev.src \notin prepared
      BY DEF E!Matches
    <3> HIDE DEF prepared
    <3>3. e = i /\ emit'[i] = [emit[i] EXCEPT !.pc = "send", !.for = prepared]
      BY <1>1, <2>1, <2>3, <3>1
    <3>4. emit'[i].ev = emit[i].ev /\ emit'[i].for = prepared
      <4>1. emit[i] \in EventCalls
        BY <1>1
      <4> QED
        BY <3>3, <4>1 DEF EventCalls
    <3> QED
      BY <3>2, <3>3, <3>4
  <2>4. ASSUME NEW e \in E!Emitters, E!Send(e) \/ E!SendFails(e), emit'[i] # emit[i]
        PROVE  emit'[i].ev.src \notin emit'[i].for
    <3>1. PICK s \in emit[e].for : E!Sent(e, s)
      BY <2>4 DEF E!Send, E!SendFails
    <3>2. e = i /\ emit'[i].ev = emit[i].ev /\ emit'[i].for = emit[i].for \ {s}
          /\ emit'[i].pc = emit[i].pc
      BY <1>1, <2>1, <2>4, <3>1, SentFacts
    <3> QED
      BY <1>2, <3>2
  <2>5. ASSUME NEW o \in Outside, E!EmitOutside(o) PROVE emit'[i] = emit[i]
    BY <1>1, <2>5 DEF E!EmitOutside
  <2>6. ASSUME NEW j \in Slots, E!EmitTask(j), emit'[i] # emit[i] PROVE FALSE
    BY <1>1, <2>6 DEF E!EmitTask
  <2>7. ASSUME NEW j \in Slots, E!End(j) \/ E!Abort(j) PROVE emit'[i] = emit[i]
    BY <1>1, <2>1, <2>7 DEF E!End, E!Abort
  <2>8. CASE E!Executor \/ E!Start \/ E!Clock \/ E!Stop
    BY <1>1, <2>1, <2>2, <2>8
    DEF E!Executor, E!Receive, E!Admit, E!Join, E!Spawn, E!Start, E!Clock, E!Stop
  <2> QED
    BY <2>2, <2>3, <2>4, <2>5, <2>6, <2>7, <2>8 DEF E!Next, E!Emitting
<1> QED
  BY <1>4, <1>5

\* One call at a time sends, and the windows it looked at have not been taken since.
LEMMA BridgeKeeps ==
    ASSUME E!EventAssumption, EventShapes, EventShapes', E!BridgeRests, E!Next
    PROVE  E!BridgeRests'
<1>1. emit \in [E!Emitters -> EventCalls] /\ last \in [Schedules -> Int]
  BY DEF EventShapes
<1> DEFINE Free(e) == \A s \in emit[e].for :
                         Debounces[s] > 0 => emit[e].ev.at - last[s] >= Debounces[s]
<1>2. /\ \A e, f \in E!Emitters : emit[e].pc = "send" /\ emit[f].pc = "send" => e = f
      /\ \A e \in E!Emitters : emit[e].pc = "send" => Free(e)
  BY DEF E!BridgeRests
<1>3. SUFFICES /\ \A e, f \in E!Emitters : emit'[e].pc = "send" /\ emit'[f].pc = "send" => e = f
               /\ \A e \in E!Emitters : emit'[e].pc = "send" => Free(e)'
  BY DEF E!BridgeRests
<1>4. ASSUME last' = last,
             \A e \in E!Emitters : emit'[e] = emit[e] \/ emit'[e].pc # "send"
      PROVE  /\ \A e, f \in E!Emitters : emit'[e].pc = "send" /\ emit'[f].pc = "send" => e = f
             /\ \A e \in E!Emitters : emit'[e].pc = "send" => Free(e)'
  BY <1>2, <1>4
<1>5. ASSUME NEW e \in E!Emitters, E!Prepare(e)
      PROVE  /\ \A f, g \in E!Emitters : emit'[f].pc = "send" /\ emit'[g].pc = "send" => f = g
             /\ \A f \in E!Emitters : emit'[f].pc = "send" => Free(f)'
  <2> DEFINE prepared == {s \in Schedules : E!Matches(s, emit[e].ev)}
  <2>1. /\ emit' \in {[emit EXCEPT ![e] = E!Quiet],
                      [emit EXCEPT ![e] = [emit[e] EXCEPT !.pc = "send", !.for = prepared]]}
        /\ last' = last /\ \A f \in E!Emitters : emit[f].pc # "send"
    BY <1>1, <1>5 DEF E!Prepare, E!BridgeFree
  <2>2. \A s \in prepared : Debounces[s] > 0 => emit[e].ev.at - last[s] >= Debounces[s]
    BY DEF E!Matches
  <2> HIDE DEF prepared
  <2>3. CASE emit' = [emit EXCEPT ![e] = E!Quiet]
    <3>1. \A f \in E!Emitters : emit'[f].pc # "send"
      BY <1>1, <2>1, <2>3, RestFacts
    <3> QED
      BY <3>1
  <2>4. CASE emit' = [emit EXCEPT ![e] = [emit[e] EXCEPT !.pc = "send", !.for = prepared]]
    <3>1. emit[e] \in EventCalls
      BY <1>1
    <3>2. emit'[e].for = prepared /\ emit'[e].ev = emit[e].ev
      BY <1>1, <2>4, <3>1 DEF EventCalls
    <3>3. \A f \in E!Emitters : f # e => emit'[f].pc # "send"
      BY <1>1, <2>1, <2>4
    <3>4. Free(e)'
      BY <2>1, <2>2, <3>2
    <3> QED
      BY <3>3, <3>4
  <2> QED
    BY <2>1, <2>3, <2>4
<1>6. ASSUME NEW e \in E!Emitters, NEW s \in emit[e].for, E!Sent(e, s), emit[e].pc = "send",
             last' = last \/ last' = [last EXCEPT ![s] = emit[e].ev.at]
      PROVE  /\ \A f, g \in E!Emitters : emit'[f].pc = "send" /\ emit'[g].pc = "send" => f = g
             /\ \A f \in E!Emitters : emit'[f].pc = "send" => Free(f)'
  <2>1. \A f \in E!Emitters : f # e => emit'[f].pc # "send"
    BY <1>2, <1>6, SentFacts
  <2>2. ASSUME emit'[e].pc = "send" PROVE Free(e)'
    <3>1. emit'[e].ev = emit[e].ev /\ emit'[e].for = emit[e].for \ {s}
      BY <1>6, <2>2, SentFacts, RestFacts
    <3>2. emit[e].for \subseteq Schedules
      BY <1>1 DEF EventCalls
    <3>3. \A t \in emit[e].for \ {s} : last'[t] = last[t]
      BY <1>1, <1>6, <3>2
    <3> QED
      BY <1>2, <1>6, <3>1, <3>3
  <2> QED
    BY <2>1, <2>2
<1>7. ASSUME NEW e \in E!Emitters, E!Send(e) \/ E!SendFails(e)
      PROVE  /\ \A f, g \in E!Emitters : emit'[f].pc = "send" /\ emit'[g].pc = "send" => f = g
             /\ \A f \in E!Emitters : emit'[f].pc = "send" => Free(f)'
  <2>1. PICK s \in emit[e].for : E!Sent(e, s) /\ (last' = last \/ last' = [last EXCEPT ![s] = emit[e].ev.at])
    BY <1>7 DEF E!Send, E!SendFails
  <2>2. emit[e].pc = "send"
    BY <1>7 DEF E!Send, E!SendFails
  <2> QED
    BY <1>6, <2>1, <2>2
<1>8. ASSUME NEW o \in Outside, E!EmitOutside(o)
      PROVE  last' = last /\ \A e \in E!Emitters : emit'[e] = emit[e] \/ emit'[e].pc # "send"
  <2>1. last' = last /\ \E kind \in Kinds :
           emit' \in {emit, [emit EXCEPT ![o] = [pc |-> "lock", chan |-> chan, for |-> {},
                                                 ev |-> E!Event(kind, E!NoSchedule, 0, 0, clock)]]}
    BY <1>8 DEF E!EmitOutside
  <2> QED
    BY <1>1, <2>1
<1>9. ASSUME NEW i \in Slots, E!EmitTask(i) \/ E!End(i) \/ E!Abort(i)
      PROVE  last' = last /\ \A e \in E!Emitters : emit'[e] = emit[e] \/ emit'[e].pc # "send"
  <2>1. last' = last /\ \E c : c.pc # "send" /\ emit' \in {emit, [emit EXCEPT ![i] = c]}
    <3>1. CASE E!EmitTask(i)
      <4>1. PICK kind \in Kinds :
               emit' \in {emit, [emit EXCEPT ![i] = [pc |-> "lock", chan |-> chan, for |-> {},
                                                     ev |-> E!Event(kind, task[i].s, task[i].depth,
                                                                    E!Longer(task[i].chain), clock)]]}
        BY <3>1 DEF E!EmitTask, E!Origin
      <4> DEFINE c == [pc |-> "lock", chan |-> chan, for |-> {},
                       ev |-> E!Event(kind, task[i].s, task[i].depth, E!Longer(task[i].chain), clock)]
      <4>2. c.pc # "send" /\ emit' \in {emit, [emit EXCEPT ![i] = c]}
        BY <4>1
      <4>3. last' = last
        BY <3>1 DEF E!EmitTask
      <4> QED
        BY <4>2, <4>3
    <3>2. CASE E!End(i) \/ E!Abort(i)
      <4>1. last' = last /\ emit' \in {emit, [emit EXCEPT ![i] = E!Quiet]}
        BY <3>2 DEF E!End, E!Abort
      <4>2. E!Quiet.pc # "send"
        BY RestFacts
      <4> QED
        BY <4>1, <4>2
    <3> QED
      BY <1>9, <3>1, <3>2
  <2> QED
    BY <1>1, <2>1
<1>10. ASSUME E!Executor \/ E!Start \/ E!Clock \/ E!Stop
       PROVE  last' = last /\ \A e \in E!Emitters : emit'[e] = emit[e] \/ emit'[e].pc # "send"
  BY <1>1, <1>10, RestFacts
  DEF E!Executor, E!Receive, E!Admit, E!Join, E!Spawn, E!Start, E!Clock, E!Stop
<1> QED
  BY <1>4, <1>5, <1>7, <1>8, <1>9, <1>10 DEF E!Next, E!Emitting

\* The bridge's windows and what was sent change together.
LEMMA WindowKeeps ==
    ASSUME E!EventAssumption, EventShapes, E!WindowWasSent, E!Next
    PROVE  E!WindowWasSent'
<1>1. last \in [Schedules -> Int] /\ sent \in [Schedules -> Int]
  BY DEF EventShapes
<1>2. CASE last' = last /\ sent' = sent
  BY <1>2 DEF E!WindowWasSent
<1>3. ASSUME NEW e \in E!Emitters, E!Send(e) PROVE E!WindowWasSent'
  <2>1. PICK s \in emit[e].for : /\ last' = [last EXCEPT ![s] = emit[e].ev.at]
                                 /\ sent' = [sent EXCEPT ![s] = emit[e].ev.at]
    BY <1>3 DEF E!Send
  <2> QED
    BY <1>1, <2>1 DEF E!WindowWasSent
<1> QED
  BY <1>2, <1>3
  DEF E!Next, E!EmitOutside, E!EmitTask, E!End, E!Abort, E!Emitting, E!Prepare, E!SendFails,
      E!Executor, E!Receive, E!Admit, E!Join, E!Spawn, E!Start, E!Clock, E!Stop

\* The invariant is preserved.
LEMMA EventNext == ASSUME E!EventAssumption PROVE E!IndInv /\ [E!Next]_E!vars => E!IndInv'
<1> SUFFICES ASSUME E!IndInv, [E!Next]_E!vars
             PROVE  E!IndInv'
  OBVIOUS
<1>1. CASE E!Next
  <2>1. EventShapes /\ E!DepthIsTrue /\ E!SourceIsTrue /\ E!BridgeRests /\ E!WindowWasSent
    BY ShapesAgree DEF E!IndInv
  <2>2. EventShapes'
    BY <1>1, <2>1, EventShapesKeep
  <2> QED
    BY <1>1, <2>1, <2>2, ShapesAgree, DepthKeeps, SourceKeeps, BridgeKeeps, WindowKeeps DEF E!IndInv
<1>2. CASE UNCHANGED E!vars
  BY <1>2 DEF E!vars, E!IndInv, E!Shape, E!TypeOK, E!DepthIsTrue, E!SourceIsTrue, E!BridgeRests,
              E!WindowWasSent
<1> QED
  BY <1>1, <1>2

\* However executions of several schedules fire one another, none runs with more than
\* max_event_cascade_depth executions behind it, none fires its own schedule, and only a
\* trigger that was sent takes a debounce window (prepare_triggers, handle_fired_trigger).
THEOREM EventsAlwaysHold == ASSUME E!EventAssumption PROVE E!Spec => []E!EventsHold
<1>1. E!Init => E!IndInv
  BY EventInit
<1>2. E!IndInv /\ [E!Next]_E!vars => E!IndInv'
  BY EventNext
<1>3. E!IndInv => E!EventsHold
  <2> SUFFICES ASSUME E!IndInv
               PROVE  E!EventsHold
    OBVIOUS
  <2>1. E!TypeOK /\ E!WindowWasSent
    BY DEF E!IndInv, E!Shape
  <2>2. E!CascadeBounded
    BY DEF E!IndInv, E!DepthIsTrue, E!CascadeBounded
  <2>3. E!NoSelfFire
    BY DEF E!IndInv, E!SourceIsTrue, E!NoSelfFire
  <2> QED
    BY <2>1, <2>2, <2>3 DEF E!EventsHold
<1> QED
  BY <1>1, <1>2, <1>3, PTL DEF E!Spec

\* Two triggers of a debounced schedule are a full window apart, although events are
\* stamped before they queue for the bridge and reach it in any order.
THEOREM WindowsStayApart == ASSUME E!EventAssumption PROVE E!Spec => [][E!WindowsApart]_E!vars
<1>1. E!Init => E!IndInv
  BY EventInit
<1>2. E!IndInv /\ [E!Next]_E!vars => E!IndInv'
  BY EventNext
<1>3. E!IndInv /\ [E!Next]_E!vars => [E!WindowsApart]_E!vars
  <2> SUFFICES ASSUME E!IndInv, E!Next, NEW s \in Schedules, Debounces[s] > 0, sent'[s] # sent[s]
               PROVE  sent'[s] - sent[s] >= Debounces[s]
    BY DEF E!WindowsApart
  <2>1. EventShapes /\ E!BridgeRests /\ E!WindowWasSent
    BY ShapesAgree DEF E!IndInv
  <2>2. sent \in [Schedules -> Int] /\ last[s] = sent[s]
    BY <2>1 DEF EventShapes, E!WindowWasSent
  <2>3. PICK e \in E!Emitters : E!Send(e)
    BY DEF E!Next, E!EmitOutside, E!EmitTask, E!End, E!Abort, E!Emitting, E!Prepare, E!SendFails,
           E!Executor, E!Receive, E!Admit, E!Join, E!Spawn, E!Start, E!Clock, E!Stop
  <2>4. PICK t \in emit[e].for : sent' = [sent EXCEPT ![t] = emit[e].ev.at]
    BY <2>3 DEF E!Send
  <2>5. emit[e].pc = "send"
    BY <2>3 DEF E!Send
  <2>6. t = s /\ sent'[s] = emit[e].ev.at
    BY <2>2, <2>4
  <2> QED
    BY <2>1, <2>2, <2>5, <2>6 DEF E!BridgeRests
<1> QED
  BY <1>1, <1>2, <1>3, PTL DEF E!Spec

-----------------------------------------------------------------------------
(* The retirement of schedules.                                              *)

Tables == {"available", "notConfigured", "unavailable"}

\* The phases in their order.
LEMMA PhaseOrder ==
    /\ Z!Pending[1] = "archive" /\ Z!Pending[2] = "history" /\ Z!Pending[3] = "rewrite"
    /\ Z!Pending[4] = "completion" /\ Z!Pending[5] = "completed"
    /\ {Z!Pending[n] : n \in 1..5} = Z!Phases
BY DEF Z!Pending, Z!Phases

\* The identities of the first file's retired schedules.
LEMMA FirstIds ==
    ASSUME Z!RetirementAssumption
    PROVE  /\ Z!FirstFile \subseteq Z!Entry
           /\ Z!IdsOf(Z!OldEntries(Z!FirstFile)) = OldIds
           /\ {e \in Z!FirstFile : e.engine = "new"} = Z!FirstFile \ Z!OldEntries(Z!FirstFile)
<1> DEFINE FirstOf(i) == [id |-> i, engine |-> IF i \in OldIds THEN "old" ELSE "new", version |-> 0]
<1>1. OldIds \subseteq Idents /\ 0 \in 0..MaxVersion
  BY DEF Z!RetirementAssumption
<1>2. Z!FirstFile = {FirstOf(i) : i \in Idents}
  BY DEF Z!FirstFile
<1>3. \A i : /\ FirstOf(i).id = i /\ FirstOf(i).engine \in {"old", "new"}
             /\ FirstOf(i).engine = "old" <=> i \in OldIds
  OBVIOUS
<1>4. \A i \in Idents : FirstOf(i) \in Z!Entry
  BY <1>1 DEF Z!Entry
<1> HIDE DEF FirstOf
<1>5. \A e \in Z!FirstFile : e.engine = "new" <=> e.engine # "old"
  BY <1>2, <1>3
<1>6. {e \in Z!FirstFile : e.engine = "new"} = Z!FirstFile \ Z!OldEntries(Z!FirstFile)
  BY <1>5 DEF Z!OldEntries
<1>7. Z!IdsOf(Z!OldEntries(Z!FirstFile)) = OldIds
  <2>1. \A i \in OldIds : i \in Z!IdsOf(Z!OldEntries(Z!FirstFile))
    <3> SUFFICES ASSUME NEW i \in OldIds PROVE i \in Z!IdsOf(Z!OldEntries(Z!FirstFile))
      OBVIOUS
    <3>1. FirstOf(i) \in Z!OldEntries(Z!FirstFile) /\ FirstOf(i).id = i
      BY <1>1, <1>2, <1>3 DEF Z!OldEntries
    <3> QED
      BY <3>1 DEF Z!IdsOf
  <2>2. \A e \in Z!OldEntries(Z!FirstFile) : e.id \in OldIds
    BY <1>2, <1>3 DEF Z!OldEntries
  <2> QED
    BY <2>1, <2>2 DEF Z!IdsOf
<1> QED
  BY <1>2, <1>4, <1>6, <1>7

\* Identities of some schedules.
LEMMA IdsFacts ==
    /\ Z!IdsOf({}) = {} /\ Z!OldEntries({}) = {}
    /\ \A S : S \subseteq Z!Entry => Z!IdsOf(S) \subseteq Idents
    /\ \A S : Z!OldEntries(S) \subseteq S
BY DEF Z!IdsOf, Z!OldEntries, Z!Entry

\* What the invariant says of shapes, without the lease.
RetireShapes ==
    /\ active \subseteq Z!Entry
    /\ archive \in [present : BOOLEAN, entries : SUBSET Z!Entry]
    /\ receipt \in Z!Receipts /\ receipt.op <= ops
    /\ ops \in Nat /\ cert \in 0..ops
    /\ proof \in [op : Nat, ids : SUBSET Idents] /\ proof.op <= ops
    /\ history \subseteq Idents
    /\ pc \in [Procs -> {"down", "start", "loop", "mark", "serving"}]
    /\ storage \in [Procs -> Tables]
    /\ served \in [Procs -> SUBSET Z!Entry] /\ generation \in [Procs -> SUBSET Z!Entry]
    /\ banned \in [Procs -> SUBSET Idents]
    /\ mishaps \in 0..MaxFaults /\ offline \in 0..MaxOffline
    /\ written \subseteq Z!Entry

\* The lease is held by the one start under way.
LeaseRests ==
    /\ lease \in Procs \cup {"nobody"}
    /\ \A p \in Procs : (lease = p) <=> pc[p] \in {"start", "loop", "mark"}

\* The two are the shapes of the invariant.
LEMMA RetireShapesAgree == (Z!Shape <=> RetireShapes /\ LeaseRests) /\ (Z!Shape' <=> (RetireShapes /\ LeaseRests)')
<1>1. Z!Shape <=> RetireShapes /\ LeaseRests
  <2>1. ASSUME Z!Shape PROVE RetireShapes /\ LeaseRests
    BY <2>1 DEF Z!Shape, Z!TypeOK, RetireShapes, LeaseRests, Tables, Z!Nobody
  <2>2. ASSUME RetireShapes, LeaseRests PROVE Z!Shape
    <3>1. /\ receipt.phase \in {"none"} \cup {Z!Pending[n] : n \in 1..5}
          /\ receipt.op \in 0..ops /\ receipt.ids \subseteq Idents
          /\ receipt.pre \subseteq Z!Entry /\ receipt.post \subseteq Z!Entry
          /\ receipt.history \in {"database", "waived", "empty"}
      BY <2>2, PhaseOrder DEF RetireShapes, Z!Receipts
    <3>2. proof.op \in 0..ops /\ proof.ids \subseteq Idents
      BY <2>2 DEF RetireShapes
    <3>3. \A p \in Procs : served[p] \subseteq Z!Entry /\ generation[p] \subseteq Z!Entry /\ banned[p] \subseteq Idents
      BY <2>2 DEF RetireShapes
    <3>4. Z!TypeOK
      BY <2>2, <3>1, <3>2, <3>3 DEF Z!TypeOK, RetireShapes, LeaseRests, Tables, Z!Nobody
    <3> QED
      BY <2>2, <3>4 DEF Z!Shape, RetireShapes
  <2> QED
    BY <2>1, <2>2
<1> QED
  BY <1>1, PTL

\* Initially the first file is untouched.
LEMMA RetirementInit == ASSUME Z!RetirementAssumption PROVE Z!Init => Z!IndInv
<1> SUFFICES ASSUME Z!Init
             PROVE  Z!IndInv
  OBVIOUS
<1>1. /\ active = Z!FirstFile /\ written = {e \in Z!FirstFile : e.engine = "new"}
      /\ archive = [present |-> FALSE, entries |-> {}]
      /\ receipt = Z!NoReceipt /\ cert = 0 /\ proof = Z!NoProof /\ history = Idents /\ ops = 0
      /\ lease = "nobody" /\ pc = [p \in Procs |-> "down"]
      /\ mishaps = 0 /\ offline = 0
  BY DEF Z!Init, Z!Nobody
<1>2. /\ Z!NoReceipt \in Z!Receipts /\ Z!NoReceipt.op = 0 /\ Z!NoReceipt.phase = "none"
      /\ Z!NoReceipt.history = "waived" /\ Z!NoReceipt.archived = {} /\ Z!NoReceipt.ids = {}
      /\ Z!NoProof \in [op : Nat, ids : SUBSET Idents] /\ Z!NoProof.op = 0
  BY DEF Z!NoReceipt, Z!Receipts, Z!NoProof
<1>3. RetireShapes
  <2>1. archive \in [present : BOOLEAN, entries : SUBSET Z!Entry]
    BY <1>1
  <2>2. MaxFaults \in Nat /\ MaxOffline \in Nat
    BY DEF Z!RetirementAssumption
  <2>3. active \subseteq Z!Entry /\ written \subseteq Z!Entry
    BY <1>1, FirstIds
  <2>4. /\ storage \in [Procs -> Tables] /\ banned \in [Procs -> SUBSET Idents]
        /\ served \in [Procs -> SUBSET Z!Entry] /\ generation \in [Procs -> SUBSET Z!Entry]
    BY DEF Z!Init, Tables
  <2> QED
    BY <1>1, <1>2, <2>1, <2>2, <2>3, <2>4 DEF RetireShapes
<1>4. LeaseRests
  BY <1>1 DEF LeaseRests, Z!RetirementAssumption
<1>5. Z!EvidenceRests
  BY <1>1, <1>2, IdsFacts DEF Z!EvidenceRests
<1>6. Z!ServingRests
  BY <1>1 DEF Z!ServingRests
<1>7. Z!Undisturbed
  <2>1. Z!PlanRests
    BY <1>1, <1>2 DEF Z!PlanRests
  <2>2. Z!PhaseRests
    BY <1>1, <1>2, FirstIds DEF Z!PhaseRests
  <2>3. Z!MarkRests
    BY <1>1 DEF Z!MarkRests
  <2> QED
    BY <2>1, <2>2, <2>3 DEF Z!Undisturbed
<1> QED
  BY <1>3, <1>4, <1>5, <1>6, <1>7, RetireShapesAgree DEF Z!IndInv

\* What a start, a refusal, a stop or a death leaves alone: all but the
\* process itself and the lease.
Quiet(p) ==
    /\ UNCHANGED <<active, archive, receipt, cert, proof, history, ops, offline, written>>
    /\ UNCHANGED <<served, generation, banned>>
    /\ \E x \in {"down", "start", "loop"} : pc' = [pc EXCEPT ![p] = x]
    /\ \/ UNCHANGED storage
       \/ \E s \in Tables : storage' = [storage EXCEPT ![p] = s]
    /\ mishaps' \in 0..MaxFaults

\* The steps of a start that find everything ready.
Planned(p) ==
    /\ pc[p] = "start" /\ receipt.phase = "none"
    /\ Z!NoEvidence(p) /\ receipt' = Z!Plan(p) /\ ops' = ops + 1
    /\ pc' = [pc EXCEPT ![p] = "loop"]
    /\ UNCHANGED <<active, archive, cert, proof, history, lease, storage, served, generation,
                   banned, mishaps, offline, written>>

Taken(p) ==
    /\ pc[p] = "loop"
    /\ Z!Reconciled(p, "must") /\ ~Z!Prohibited(active, receipt.ids)
    /\ Z!ArchivePost /\ cert = receipt.op
    /\ Z!Serve(p)
    /\ \/ receipt.phase = "completed" /\ UNCHANGED receipt
       \/ /\ receipt.phase # "completed" /\ cert # 0
          /\ receipt' = [receipt EXCEPT !.phase = "completed"]
    /\ UNCHANGED <<active, archive, cert, proof, history, ops, storage, mishaps, offline, written>>

Archived(p) ==
    /\ Z!InPhase(p, "archive") /\ Z!ArchiveReady(p)
    /\ archive' = [present |-> TRUE, entries |-> receipt.archived]
    /\ Z!ToMark(p)
    /\ UNCHANGED <<active, receipt, cert, proof, history, ops, lease, storage, served, generation,
                   banned, mishaps, offline, written>>

Recorded(p) ==
    /\ Z!InPhase(p, "history") /\ Z!HistoryReady(p)
    /\ \/ /\ receipt.history = "database"
          /\ proof' = [op |-> receipt.op, ids |-> receipt.ids]
          /\ history' = history \ receipt.ids
       \/ receipt.history # "database" /\ UNCHANGED <<proof, history>>
    /\ Z!ToMark(p)
    /\ UNCHANGED <<active, archive, receipt, cert, ops, lease, storage, served, generation,
                   banned, mishaps, offline, written>>

Rewritten(p) ==
    /\ Z!InPhase(p, "rewrite") /\ Z!RewriteReady(p)
    /\ active' = receipt.post /\ Z!ToMark(p)
    /\ UNCHANGED <<archive, receipt, cert, proof, history, ops, lease, storage, served, generation,
                   banned, mishaps, offline, written>>

Closed(p) ==
    /\ Z!InPhase(p, "completion") /\ Z!CompletionReady(p)
    /\ cert' = receipt.op /\ Z!ToMark(p)
    /\ UNCHANGED <<active, archive, receipt, proof, history, ops, lease, storage, served, generation,
                   banned, mishaps, offline, written>>

\* A step is one of these.
LEMMA RetirementSteps ==
    ASSUME Z!RetirementAssumption, RetireShapes, Z!Next
    PROVE  \/ \E p \in Procs : \/ Quiet(p) \/ Planned(p) \/ Taken(p) \/ Archived(p) \/ Recorded(p)
                               \/ Rewritten(p) \/ Closed(p) \/ Z!Mark(p)
           \/ \E p \in Procs, e \in Z!Entry : Z!Upsert(p, e)
           \/ \E p \in Procs, i \in Idents : Z!Remove(p, i)
           \/ Z!Offline
<1>1. mishaps \in 0..MaxFaults /\ MaxFaults \in Nat
  BY DEF RetireShapes, Z!RetirementAssumption
<1>2. ASSUME NEW p \in Procs, Z!Refuse(p) PROVE Quiet(p)
  BY <1>1, <1>2 DEF Z!Refuse, Quiet, Z!files, Z!database, Z!memory, Z!bounds
<1>3. ASSUME NEW p \in Procs, Z!Acquire(p) PROVE Quiet(p)
  <2>1. PICK s \in Tables : storage' = [storage EXCEPT ![p] = s]
    BY <1>3 DEF Z!Acquire, Tables, Z!RetirementAssumption
  <2> QED
    BY <1>1, <1>3, <2>1 DEF Z!Acquire, Quiet, Z!files, Z!database, Z!bounds
<1>4. ASSUME NEW p \in Procs, Z!Stop(p) PROVE Quiet(p)
  BY <1>1, <1>4 DEF Z!Stop, Quiet, Z!files, Z!database, Z!memory, Z!bounds
<1>5. ASSUME NEW p \in Procs, Z!Die(p) PROVE Quiet(p)
  BY <1>1, <1>5 DEF Z!Die, Quiet, Z!files, Z!database, Z!memory
<1>6. ASSUME NEW p \in Procs, Z!Begin(p) PROVE Quiet(p) \/ Planned(p)
  <2>1. CASE pc' = [pc EXCEPT ![p] = "loop"] /\ UNCHANGED <<Z!files, Z!database, ops, lease, Z!memory, Z!bounds, written>>
    BY <1>1, <2>1 DEF Quiet, Z!files, Z!database, Z!memory, Z!bounds
  <2>2. CASE /\ receipt.phase = "none" /\ Z!NoEvidence(p)
             /\ receipt' = Z!Plan(p) /\ ops' = ops + 1
             /\ pc' = [pc EXCEPT ![p] = "loop"]
             /\ UNCHANGED <<active, archive, cert, Z!database, lease, Z!memory, Z!bounds, written>>
    BY <1>6, <2>2 DEF Z!Begin, Planned, Z!database, Z!memory, Z!bounds
  <2> QED
    BY <1>2, <1>6, <2>1, <2>2 DEF Z!Begin
<1>7. ASSUME NEW p \in Procs, Z!Certified(p) PROVE Quiet(p) \/ Taken(p)
  BY <1>2, <1>7 DEF Z!Certified, Z!CertifiedOk, Taken, Z!database, Z!bounds
<1>8. ASSUME NEW p \in Procs, Z!ArchiveStep(p) PROVE Quiet(p) \/ Archived(p)
  BY <1>2, <1>8 DEF Z!ArchiveStep, Archived, Z!database, Z!memory, Z!bounds
<1>9. ASSUME NEW p \in Procs, Z!HistoryStep(p) PROVE Quiet(p) \/ Recorded(p)
  BY <1>2, <1>9 DEF Z!HistoryStep, Recorded, Z!files, Z!database, Z!memory, Z!bounds
<1>10. ASSUME NEW p \in Procs, Z!RewriteStep(p) PROVE Quiet(p) \/ Rewritten(p)
  BY <1>2, <1>10 DEF Z!RewriteStep, Rewritten, Z!database, Z!memory, Z!bounds
<1>11. ASSUME NEW p \in Procs, Z!CompletionStep(p) PROVE Quiet(p) \/ Closed(p)
  BY <1>2, <1>11 DEF Z!CompletionStep, Closed, Z!database, Z!memory, Z!bounds
<1>12. ASSUME NEW p \in Procs, Z!CompletedStep(p) PROVE Quiet(p) \/ Taken(p)
  BY <1>2, <1>12 DEF Z!CompletedStep, Z!ServeReady, Z!InPhase, Taken, Z!files, Z!database, Z!bounds
<1> QED
  BY <1>3, <1>4, <1>5, <1>6, <1>7, <1>8, <1>9, <1>10, <1>11, <1>12 DEF Z!Next, Z!Retire

\* A process that writes the file replaces it, for itself too if it heard of it.
LEMMA WriteFactsOf ==
    ASSUME NEW p \in Procs, NEW S, Z!Write(p, S)
    PROVE  /\ active' = S
           /\ \/ generation' = [generation EXCEPT ![p] = S] /\ served' = [served EXCEPT ![p] = S] /\ mishaps' = mishaps
              \/ mishaps < MaxFaults /\ mishaps' = mishaps + 1 /\ generation' = generation /\ served' = served
           /\ UNCHANGED <<archive, receipt, cert, proof, history, ops, lease, pc, storage, banned, offline>>
BY DEF Z!Write, Z!database

\* What a receipt plans has its shape.
LEMMA PlanFacts ==
    ASSUME Z!RetirementAssumption, RetireShapes, NEW p \in Procs
    PROVE  /\ Z!Plan(p) \in Z!Receipts /\ Z!Plan(p).op = ops + 1 /\ Z!Plan(p).phase = "archive"
           /\ Z!Plan(p).pre = active /\ Z!Plan(p).post = active \ Z!OldEntries(active)
           /\ Z!Plan(p).archived = archive.entries \cup Z!OldEntries(active)
           /\ Z!Plan(p).ids = Z!IdsOf(Z!OldEntries(active))
           /\ Z!Plan(p).history = "database" => Z!OldEntries(active) # {}
<1>1. /\ active \subseteq Z!Entry /\ archive.entries \subseteq Z!Entry /\ ops \in Nat
  BY DEF RetireShapes
<1>2. Z!OldEntries(active) \subseteq Z!Entry /\ Z!IdsOf(Z!OldEntries(active)) \subseteq Idents
  BY <1>1, IdsFacts
<1> QED
  BY <1>1, <1>2 DEF Z!Plan, Z!Receipts, Z!Phases

\* Files, rows and processes keep their shapes.
LEMMA RetireShapesKeep ==
    ASSUME Z!RetirementAssumption, RetireShapes, Z!Next
    PROVE  RetireShapes'
<1>1. MaxFaults \in Nat /\ MaxOffline \in Nat /\ MaxVersion \in Nat
  BY DEF Z!RetirementAssumption
<1>2. /\ receipt \in Z!Receipts /\ receipt.op \in Nat /\ receipt.op <= ops /\ ops \in Nat
      /\ receipt.ids \subseteq Idents /\ receipt.archived \subseteq Z!Entry
      /\ receipt.post \subseteq Z!Entry
      /\ archive.entries \subseteq Z!Entry
      /\ mishaps \in 0..MaxFaults /\ offline \in 0..MaxOffline
  BY DEF RetireShapes, Z!Receipts
<1>3. /\ pc \in [Procs -> {"down", "start", "loop", "mark", "serving"}]
      /\ storage \in [Procs -> Tables]
      /\ served \in [Procs -> SUBSET Z!Entry] /\ generation \in [Procs -> SUBSET Z!Entry]
      /\ banned \in [Procs -> SUBSET Idents]
      /\ active \subseteq Z!Entry /\ history \subseteq Idents /\ written \subseteq Z!Entry
  BY DEF RetireShapes
<1>4. ASSUME NEW p \in Procs, Quiet(p) PROVE RetireShapes'
  <2>1. pc' \in [Procs -> {"down", "start", "loop", "mark", "serving"}]
    BY <1>3, <1>4 DEF Quiet
  <2>2. storage' \in [Procs -> Tables]
    BY <1>3, <1>4 DEF Quiet
  <2> QED
    BY <1>4, <2>1, <2>2 DEF Quiet, RetireShapes
<1>5. ASSUME NEW p \in Procs, Planned(p) PROVE RetireShapes'
  <2>1. receipt' \in Z!Receipts /\ receipt'.op <= ops' /\ ops' \in Nat
    BY <1>2, <1>5, PlanFacts DEF Planned
  <2>2. cert' \in 0..ops' /\ proof'.op <= ops' /\ proof' \in [op : Nat, ids : SUBSET Idents]
    BY <1>2, <1>5 DEF Planned, RetireShapes
  <2>3. pc' \in [Procs -> {"down", "start", "loop", "mark", "serving"}]
    BY <1>3, <1>5 DEF Planned
  <2> QED
    BY <1>5, <2>1, <2>2, <2>3 DEF Planned, RetireShapes
<1>6. ASSUME NEW p \in Procs, Taken(p) PROVE RetireShapes'
  <2>1. receipt' \in Z!Receipts /\ receipt'.op <= ops
    BY <1>2, <1>6 DEF Taken, Z!Receipts, Z!Phases
  <2>2. /\ pc' \in [Procs -> {"down", "start", "loop", "mark", "serving"}]
        /\ served' \in [Procs -> SUBSET Z!Entry] /\ generation' \in [Procs -> SUBSET Z!Entry]
        /\ banned' \in [Procs -> SUBSET Idents]
    BY <1>2, <1>3, <1>6 DEF Taken, Z!Serve
  <2> QED
    BY <1>6, <2>1, <2>2 DEF Taken, RetireShapes
<1>7. ASSUME NEW p \in Procs, Z!ToMark(p)
      PROVE  pc' \in [Procs -> {"down", "start", "loop", "mark", "serving"}]
  BY <1>3, <1>7 DEF Z!ToMark
<1>8. ASSUME NEW p \in Procs, Archived(p) PROVE RetireShapes'
  <2>1. archive' \in [present : BOOLEAN, entries : SUBSET Z!Entry]
    BY <1>2, <1>8 DEF Archived
  <2> QED
    BY <1>7, <1>8, <2>1 DEF Archived, RetireShapes
<1>9. ASSUME NEW p \in Procs, Recorded(p) PROVE RetireShapes'
  <2>1. proof' \in [op : Nat, ids : SUBSET Idents] /\ proof'.op <= ops /\ history' \subseteq Idents
    BY <1>2, <1>3, <1>9 DEF Recorded, RetireShapes
  <2> QED
    BY <1>7, <1>9, <2>1 DEF Recorded, RetireShapes
<1>10. ASSUME NEW p \in Procs, Rewritten(p) PROVE RetireShapes'
  BY <1>2, <1>7, <1>10 DEF Rewritten, RetireShapes
<1>11. ASSUME NEW p \in Procs, Closed(p) PROVE RetireShapes'
  <2>1. cert' \in 0..ops
    BY <1>2, <1>11 DEF Closed
  <2> QED
    BY <1>7, <1>11, <2>1 DEF Closed, RetireShapes
<1>12. ASSUME NEW p \in Procs, Z!Mark(p) PROVE RetireShapes'
  <2>1. PICK n \in 1..4 : receipt' = [receipt EXCEPT !.phase = Z!Pending[n + 1]]
    BY <1>12 DEF Z!Mark
  <2>2. Z!Pending[n + 1] \in Z!Phases
    BY PhaseOrder
  <2>3. receipt' \in Z!Receipts /\ receipt'.op <= ops
    BY <1>2, <2>1, <2>2 DEF Z!Receipts
  <2>4. pc' \in [Procs -> {"down", "start", "loop", "mark", "serving"}]
    BY <1>3, <1>12 DEF Z!Mark
  <2>5. UNCHANGED <<active, archive, cert, proof, history, ops, storage, served, generation, banned,
                    mishaps, offline, written>>
    BY <1>12 DEF Z!Mark, Z!database, Z!memory, Z!bounds
  <2> QED
    BY <2>3, <2>4, <2>5 DEF RetireShapes
<1>13. ASSUME NEW p \in Procs, NEW S, S \subseteq Z!Entry, Z!Write(p, S), written' \subseteq Z!Entry
       PROVE  RetireShapes'
  <2>1. /\ active' = S
        /\ \/ generation' = [generation EXCEPT ![p] = S] /\ served' = [served EXCEPT ![p] = S] /\ mishaps' = mishaps
           \/ mishaps < MaxFaults /\ mishaps' = mishaps + 1 /\ generation' = generation /\ served' = served
        /\ UNCHANGED <<archive, receipt, cert, proof, history, ops, lease, pc, storage, banned, offline>>
    BY <1>13, WriteFactsOf
  <2>2. served' \in [Procs -> SUBSET Z!Entry] /\ generation' \in [Procs -> SUBSET Z!Entry]
    BY <1>3, <1>13, <2>1
  <2>3. mishaps' \in 0..MaxFaults
    BY <1>1, <1>2, <2>1
  <2> QED
    BY <1>13, <2>1, <2>2, <2>3 DEF RetireShapes
<1>14. ASSUME NEW p \in Procs, NEW e \in Z!Entry, Z!Upsert(p, e) PROVE RetireShapes'
  <2>1. written' \subseteq Z!Entry
    BY <1>3, <1>14 DEF Z!Upsert
  <2>2. Z!Write(p, {f \in active : f.id # e.id} \cup {e})
    BY <1>14 DEF Z!Upsert
  <2>3. ({f \in active : f.id # e.id} \cup {e}) \subseteq Z!Entry
    BY <1>3
  <2> QED
    BY <1>13, <2>1, <2>2, <2>3
<1>15. ASSUME NEW p \in Procs, NEW i \in Idents, Z!Remove(p, i) PROVE RetireShapes'
  <2>1. written' \subseteq Z!Entry
    BY <1>3, <1>15 DEF Z!Remove
  <2>2. Z!Write(p, {f \in served[p] : f.id # i})
    BY <1>15 DEF Z!Remove
  <2>3. {f \in served[p] : f.id # i} \subseteq Z!Entry
    BY <1>3
  <2> QED
    BY <1>13, <2>1, <2>2, <2>3
<1>16. ASSUME Z!Offline PROVE RetireShapes'
  <2>1. offline' \in 0..MaxOffline /\ UNCHANGED <<ops, pc, storage, served, generation, banned, mishaps, written>>
    BY <1>1, <1>2, <1>16 DEF Z!Offline, Z!memory
  <2>2. active' \subseteq Z!Entry
    BY <1>3, <1>16, FirstIds DEF Z!Offline, Z!files
  <2>3. archive' \in [present : BOOLEAN, entries : SUBSET Z!Entry]
    <3>1. archive' = archive \/ archive' = [present |-> FALSE, entries |-> {}]
      BY <1>16 DEF Z!Offline, Z!files
    <3>2. archive \in [present : BOOLEAN, entries : SUBSET Z!Entry]
      BY DEF RetireShapes
    <3>3. [present |-> FALSE, entries |-> {}] \in [present : BOOLEAN, entries : SUBSET Z!Entry]
      OBVIOUS
    <3> QED
      BY <3>1, <3>2, <3>3
  <2>4. receipt' \in Z!Receipts /\ receipt'.op <= ops
    <3>1. \/ receipt' = receipt \/ receipt' = Z!NoReceipt
          \/ \E n \in 1..5 : receipt' = [receipt EXCEPT !.phase = Z!Pending[n]]
      BY <1>16 DEF Z!Offline, Z!files
    <3>2. Z!NoReceipt \in Z!Receipts /\ Z!NoReceipt.op = 0
      BY DEF Z!NoReceipt, Z!Receipts
    <3>3. \A n \in 1..5 : Z!Pending[n] \in Z!Phases
      BY PhaseOrder
    <3>4. ASSUME NEW n \in 1..5, receipt' = [receipt EXCEPT !.phase = Z!Pending[n]]
          PROVE  receipt' \in Z!Receipts /\ receipt'.op <= ops
      BY <1>2, <3>3, <3>4 DEF Z!Receipts
    <3> QED
      BY <1>2, <3>1, <3>2, <3>4
  <2>5. cert' \in 0..ops /\ history' \subseteq Idents
    BY <1>2, <1>3, <1>16 DEF Z!Offline, Z!files, Z!database, RetireShapes
  <2>6. proof' \in [op : Nat, ids : SUBSET Idents] /\ proof'.op <= ops
    BY <1>2, <1>16 DEF Z!Offline, Z!files, Z!database, RetireShapes, Z!NoProof
  <2> QED
    BY <2>1, <2>2, <2>3, <2>4, <2>5, <2>6 DEF RetireShapes
<1> QED
  BY <1>4, <1>5, <1>6, <1>8, <1>9, <1>10, <1>11, <1>12, <1>14, <1>15, <1>16, RetirementSteps

\* The lease changes hands with the starts.
LEMMA LeaseKeeps ==
    ASSUME Z!RetirementAssumption, RetireShapes, LeaseRests, Z!Next
    PROVE  LeaseRests'
<1>1. pc \in [Procs -> {"down", "start", "loop", "mark", "serving"}] /\ "nobody" \notin Procs
  BY DEF RetireShapes, Z!RetirementAssumption
<1>2. ASSUME NEW p \in Procs, NEW x, pc' = [pc EXCEPT ![p] = x],
             x \in {"start", "loop", "mark"}, lease' = p, lease \in {p, "nobody"}
      PROVE  LeaseRests'
  BY <1>1, <1>2 DEF LeaseRests
<1>3. ASSUME NEW p \in Procs, NEW x, pc' = [pc EXCEPT ![p] = x],
             x \in {"down", "serving"}, lease' = IF lease = p THEN "nobody" ELSE lease
      PROVE  LeaseRests'
  BY <1>1, <1>3 DEF LeaseRests
<1>4. \A p \in Procs : pc[p] \in {"start", "loop", "mark"} => lease = p
  BY DEF LeaseRests
<1>5. ASSUME NEW p \in Procs, pc[p] \in {"start", "loop", "mark"}, Z!Refuse(p) PROVE LeaseRests'
  BY <1>3, <1>4, <1>5 DEF Z!Refuse, Z!Nobody
<1>6. ASSUME NEW p \in Procs, Z!Acquire(p) PROVE LeaseRests'
  BY <1>2, <1>6 DEF Z!Acquire, Z!Nobody
<1>7. ASSUME NEW p \in Procs, Z!Stop(p) PROVE LeaseRests'
  <2>1. lease # p
    BY <1>7 DEF Z!Stop, LeaseRests
  <2> QED
    BY <1>3, <1>7, <2>1 DEF Z!Stop
<1>8. ASSUME NEW p \in Procs, Z!Die(p) PROVE LeaseRests'
  BY <1>3, <1>8 DEF Z!Die, Z!Nobody
<1>9. ASSUME NEW p \in Procs, Z!Begin(p) PROVE LeaseRests'
  BY <1>2, <1>4, <1>5, <1>9 DEF Z!Begin
<1>10. ASSUME NEW p \in Procs, Z!Certified(p) PROVE LeaseRests'
  BY <1>3, <1>4, <1>5, <1>10 DEF Z!Certified, Z!Serve, Z!Nobody
<1>11. ASSUME NEW p \in Procs, Z!ArchiveStep(p) \/ Z!HistoryStep(p) \/ Z!RewriteStep(p) \/ Z!CompletionStep(p)
       PROVE  LeaseRests'
  BY <1>2, <1>4, <1>5, <1>11 DEF Z!ArchiveStep, Z!HistoryStep, Z!RewriteStep, Z!CompletionStep, Z!InPhase, Z!ToMark
<1>12. ASSUME NEW p \in Procs, Z!Mark(p) PROVE LeaseRests'
  BY <1>2, <1>4, <1>12 DEF Z!Mark
<1>13. ASSUME NEW p \in Procs, Z!CompletedStep(p) PROVE LeaseRests'
  BY <1>3, <1>4, <1>5, <1>13 DEF Z!CompletedStep, Z!InPhase, Z!Serve, Z!Nobody
<1>14. ASSUME UNCHANGED <<pc, lease>> PROVE LeaseRests'
  BY <1>14 DEF LeaseRests
<1>15. ASSUME NEW p \in Procs, NEW e \in Z!Entry, Z!Upsert(p, e) PROVE LeaseRests'
  BY <1>14, <1>15, WriteFactsOf DEF Z!Upsert
<1>16. ASSUME NEW p \in Procs, NEW i \in Idents, Z!Remove(p, i) PROVE LeaseRests'
  BY <1>14, <1>16, WriteFactsOf DEF Z!Remove
<1>17. ASSUME Z!Offline PROVE LeaseRests'
  BY <1>14, <1>17 DEF Z!Offline
<1> QED
  BY <1>6, <1>7, <1>8, <1>9, <1>10, <1>11, <1>12, <1>13, <1>15, <1>16, <1>17 DEF Z!Next, Z!Retire

\* The archive a receipt plans keeps the identities it retires.
LEMMA EvidenceKeeps ==
    ASSUME Z!RetirementAssumption, RetireShapes, Z!EvidenceRests, Z!Next
    PROVE  Z!EvidenceRests'
<1>1. (~archive.present => archive.entries = {}) /\ Z!IdsOf(receipt.archived) = receipt.ids
  BY DEF Z!EvidenceRests
<1>2. ASSUME archive' = archive \/ archive' = [present |-> TRUE, entries |-> receipt.archived]
             \/ archive' = [present |-> FALSE, entries |-> {}]
      PROVE  ~archive'.present => archive'.entries = {}
  BY <1>1, <1>2
<1>3. ASSUME receipt'.archived = receipt.archived, receipt'.ids = receipt.ids,
             archive' = archive \/ archive' = [present |-> TRUE, entries |-> receipt.archived]
             \/ archive' = [present |-> FALSE, entries |-> {}]
      PROVE  Z!EvidenceRests'
  BY <1>1, <1>2, <1>3 DEF Z!EvidenceRests, Z!IdsOf
<1>4. receipt \in Z!Receipts
  BY DEF RetireShapes
<1>5. ASSUME NEW p \in Procs, Planned(p) PROVE Z!EvidenceRests'
  <2>1. receipt'.archived = Z!OldEntries(active) /\ receipt'.ids = Z!IdsOf(Z!OldEntries(active))
    BY <1>1, <1>5, PlanFacts DEF Planned, Z!NoEvidence
  <2>2. archive' = archive
    BY <1>5 DEF Planned
  <2> QED
    BY <1>2, <2>1, <2>2 DEF Z!EvidenceRests, Z!IdsOf
<1>6. ASSUME NEW p \in Procs, Taken(p) PROVE Z!EvidenceRests'
  <2>1. receipt'.archived = receipt.archived /\ receipt'.ids = receipt.ids
    BY <1>4, <1>6 DEF Taken, Z!Receipts
  <2> QED
    BY <1>3, <1>6, <2>1 DEF Taken
<1>7. ASSUME NEW p \in Procs, Z!Mark(p) PROVE Z!EvidenceRests'
  <2>1. receipt'.archived = receipt.archived /\ receipt'.ids = receipt.ids
    BY <1>4, <1>7 DEF Z!Mark, Z!Receipts
  <2> QED
    BY <1>3, <1>7, <2>1 DEF Z!Mark
<1>8. ASSUME NEW p \in Procs, Quiet(p) \/ Archived(p) \/ Recorded(p) \/ Rewritten(p) \/ Closed(p)
      PROVE  Z!EvidenceRests'
  BY <1>3, <1>8 DEF Quiet, Archived, Recorded, Rewritten, Closed
<1>9. ASSUME NEW p \in Procs, NEW e \in Z!Entry, Z!Upsert(p, e) PROVE Z!EvidenceRests'
  BY <1>3, <1>9, WriteFactsOf DEF Z!Upsert
<1>10. ASSUME NEW p \in Procs, NEW i \in Idents, Z!Remove(p, i) PROVE Z!EvidenceRests'
  BY <1>3, <1>10, WriteFactsOf DEF Z!Remove
<1>11. ASSUME Z!Offline PROVE Z!EvidenceRests'
  <2>1. archive' = archive \/ archive' = [present |-> FALSE, entries |-> {}]
    BY <1>11 DEF Z!Offline, Z!files
  <2>2. \/ receipt' = receipt \/ receipt' = Z!NoReceipt
        \/ \E n \in 1..5 : receipt' = [receipt EXCEPT !.phase = Z!Pending[n]]
    BY <1>11 DEF Z!Offline, Z!files
  <2>3. CASE receipt' = Z!NoReceipt
    <3>1. receipt'.archived = {} /\ receipt'.ids = {}
      BY <2>3 DEF Z!NoReceipt
    <3> QED
      BY <1>2, <2>1, <3>1 DEF Z!EvidenceRests, Z!IdsOf
  <2>4. CASE receipt' # Z!NoReceipt
    <3>1. receipt'.archived = receipt.archived /\ receipt'.ids = receipt.ids
      BY <1>4, <2>2, <2>4 DEF Z!Receipts
    <3> QED
      BY <1>3, <2>1, <3>1
  <2> QED
    BY <2>3, <2>4
<1> QED
  BY <1>5, <1>6, <1>7, <1>8, <1>9, <1>10, <1>11, RetirementSteps

\* Evidence that is accepted proves what the receipt retires and no more.
LEMMA ReconciledFacts ==
    ASSUME NEW p \in Procs, Z!Reconciled(p, "must"), storage[p] = "available"
    PROVE  /\ proof.ids \subseteq receipt.ids
           /\ receipt.history = "database" => Z!ProofExact
BY DEF Z!Reconciled, Z!ProofExact, Z!NoProof

\* While a process serves, nothing but the schedules changes.
LEMMA ServingKeeps ==
    ASSUME Z!RetirementAssumption, RetireShapes, Z!EvidenceRests, Z!ServingRests, Z!Next
    PROVE  Z!ServingRests'
<1>1. /\ pc \in [Procs -> {"down", "start", "loop", "mark", "serving"}]
      /\ storage \in [Procs -> Tables]
      /\ served \in [Procs -> SUBSET Z!Entry] /\ generation \in [Procs -> SUBSET Z!Entry]
      /\ banned \in [Procs -> SUBSET Idents] /\ receipt \in Z!Receipts
  BY DEF RetireShapes
<1> DEFINE Fit(q) ==
      /\ Z!Live(served[q]) /\ generation[q] = served[q] /\ banned[q] = receipt.ids
      /\ storage[q] = "available" => proof.ids \subseteq receipt.ids
<1>2. \A q \in Procs : pc[q] = "serving" => receipt.phase = "completed" /\ Z!ArchivePost /\ Fit(q)
  BY DEF Z!ServingRests
<1>3. ASSUME receipt.phase # "completed", NEW p \in Procs, NEW x, x # "serving", pc' = [pc EXCEPT ![p] = x]
      PROVE  Z!ServingRests'
  BY <1>1, <1>2, <1>3 DEF Z!ServingRests
<1>4. ASSUME NEW p \in Procs, Quiet(p) PROVE Z!ServingRests'
  <2> SUFFICES ASSUME NEW q \in Procs, pc'[q] = "serving"
               PROVE  (receipt.phase = "completed" /\ Z!ArchivePost /\ Fit(q))'
    BY DEF Z!ServingRests
  <2>1. q # p /\ pc[q] = "serving" /\ storage'[q] = storage[q]
    BY <1>1, <1>4 DEF Quiet
  <2>2. UNCHANGED <<archive, receipt, proof, served, generation, banned>>
    BY <1>4 DEF Quiet
  <2> QED
    BY <1>2, <2>1, <2>2 DEF Z!ArchivePost, Z!Live
<1>5. ASSUME NEW p \in Procs, Planned(p) PROVE Z!ServingRests'
  BY <1>3, <1>5 DEF Planned
<1>6. ASSUME NEW p \in Procs, Z!Mark(p) PROVE Z!ServingRests'
  <2>1. receipt.phase # "completed"
    BY <1>6, PhaseOrder DEF Z!Mark
  <2> QED
    BY <1>3, <1>6, <2>1 DEF Z!Mark
<1>7. ASSUME NEW p \in Procs, Archived(p) \/ Recorded(p) \/ Rewritten(p) \/ Closed(p) PROVE Z!ServingRests'
  BY <1>3, <1>7 DEF Archived, Recorded, Rewritten, Closed, Z!InPhase, Z!ToMark
<1>8. ASSUME NEW p \in Procs, Taken(p) PROVE Z!ServingRests'
  <2>1. /\ receipt'.phase = "completed" /\ receipt'.ids = receipt.ids /\ receipt'.archived = receipt.archived
        /\ archive' = archive /\ proof' = proof /\ storage' = storage
        /\ pc' = [pc EXCEPT ![p] = "serving"] /\ pc[p] = "loop"
        /\ served' = [served EXCEPT ![p] = active] /\ generation' = [generation EXCEPT ![p] = active]
        /\ banned' = [banned EXCEPT ![p] = receipt.ids]
    BY <1>1, <1>8 DEF Taken, Z!Serve, Z!Receipts
  <2>2. Z!ArchivePost'
    BY <1>8, <2>1 DEF Taken, Z!ArchivePost
  <2>3. Z!OldEntries(active) = {} /\ Z!IdsOf(active) \cap receipt.ids = {}
    BY <1>8 DEF Taken, Z!Prohibited
  <2> SUFFICES ASSUME NEW q \in Procs, pc'[q] = "serving"
               PROVE  Fit(q)'
    BY <2>1, <2>2 DEF Z!ServingRests
  <2>4. CASE q = p
    <3>1. served'[p] = active /\ generation'[p] = active /\ banned'[p] = receipt.ids
      BY <1>1, <2>1
    <3>2. storage[p] = "available" => proof.ids \subseteq receipt.ids
      BY <1>8, ReconciledFacts DEF Taken
    <3> QED
      BY <2>1, <2>3, <2>4, <3>1, <3>2 DEF Z!Live, Z!OldEntries, Z!IdsOf
  <2>5. CASE q # p
    <3>1. pc[q] = "serving" /\ served'[q] = served[q] /\ generation'[q] = generation[q] /\ banned'[q] = banned[q]
      BY <1>1, <2>1, <2>5
    <3> QED
      BY <1>2, <2>1, <3>1 DEF Z!Live, Z!OldEntries, Z!IdsOf
  <2> QED
    BY <2>4, <2>5
<1>9. ASSUME NEW p \in Procs, NEW S, Z!Write(p, S), Z!Live(S) PROVE Z!ServingRests'
  <2>1. /\ \/ generation' = [generation EXCEPT ![p] = S] /\ served' = [served EXCEPT ![p] = S]
           \/ generation' = generation /\ served' = served
        /\ UNCHANGED <<archive, receipt, proof, pc, storage, banned>>
    BY <1>9, WriteFactsOf
  <2> SUFFICES ASSUME NEW q \in Procs, pc'[q] = "serving"
               PROVE  (receipt.phase = "completed" /\ Z!ArchivePost /\ Fit(q))'
    BY DEF Z!ServingRests
  <2>2. receipt.phase = "completed" /\ Z!ArchivePost /\ Fit(q)
    BY <1>2, <2>1
  <2>3. generation'[q] = served'[q] /\ served'[q] \in {served[q], S}
    BY <1>1, <2>1, <2>2
  <2>4. Z!Live(served'[q])
    BY <1>9, <2>2, <2>3
  <2> QED
    BY <2>1, <2>2, <2>3, <2>4 DEF Z!ArchivePost, Z!Live, Z!OldEntries, Z!IdsOf
<1>10. ASSUME NEW p \in Procs, NEW e \in Z!Entry, Z!Upsert(p, e) PROVE Z!ServingRests'
  <2>1. /\ pc[p] = "serving" /\ generation[p] = active /\ e.id \notin banned[p] /\ e.engine = "new"
        /\ Z!Write(p, {f \in active : f.id # e.id} \cup {e})
    BY <1>10 DEF Z!Upsert, Z!Current, Z!Newest
  <2>2. Z!Live(active) /\ e.id \notin receipt.ids
    BY <1>2, <2>1
  <2>3. Z!Live({f \in active : f.id # e.id} \cup {e})
    BY <2>1, <2>2 DEF Z!Live, Z!OldEntries, Z!IdsOf
  <2> QED
    BY <1>9, <2>1, <2>3
<1>11. ASSUME NEW p \in Procs, NEW i \in Idents, Z!Remove(p, i) PROVE Z!ServingRests'
  <2>1. pc[p] = "serving" /\ Z!Write(p, {f \in served[p] : f.id # i})
    BY <1>11 DEF Z!Remove, Z!Current
  <2>2. Z!Live(served[p])
    BY <1>2, <2>1
  <2>3. Z!Live({f \in served[p] : f.id # i})
    BY <2>2 DEF Z!Live, Z!OldEntries, Z!IdsOf
  <2> QED
    BY <1>9, <2>1, <2>3
<1>12. ASSUME Z!Offline PROVE Z!ServingRests'
  BY <1>12 DEF Z!Offline, Z!ServingRests
<1> QED
  BY <1>4, <1>5, <1>6, <1>7, <1>8, <1>10, <1>11, <1>12, RetirementSteps

\* Without an operator at the files each phase finds its work undone or done.
LEMMA UndisturbedKeeps ==
    ASSUME Z!RetirementAssumption, RetireShapes, LeaseRests, Z!EvidenceRests, Z!ServingRests,
           Z!Undisturbed, Z!Next
    PROVE  Z!Undisturbed'
<1> DEFINE First == Z!FirstFile
           Old == Z!OldEntries(Z!FirstFile)
<1>1. /\ pc \in [Procs -> {"down", "start", "loop", "mark", "serving"}]
      /\ receipt \in Z!Receipts /\ offline \in Nat
  BY DEF RetireShapes, Z!RetirementAssumption
<1>2. CASE Z!Offline
  BY <1>1, <1>2 DEF Z!Offline, Z!Undisturbed
<1>3. CASE ~Z!Offline
  <2>1. offline' = offline
    BY <1>3, RetirementSteps, WriteFactsOf
       DEF Quiet, Planned, Taken, Archived, Recorded, Rewritten, Closed, Z!Mark, Z!bounds, Z!Upsert, Z!Remove
  <2> SUFFICES ASSUME offline = 0
               PROVE  Z!PlanRests' /\ Z!PhaseRests' /\ Z!MarkRests'
    BY <2>1 DEF Z!Undisturbed
  <2>2. Z!PlanRests /\ Z!PhaseRests /\ Z!MarkRests
    BY DEF Z!Undisturbed
  \* Whoever moves the receipt is alone.
  <2>3. ASSUME NEW p \in Procs, pc[p] \in {"start", "loop", "mark"}, NEW x, pc' = [pc EXCEPT ![p] = x]
        PROVE  \A q \in Procs : pc'[q] = "mark" => q = p /\ x = "mark"
    BY <1>1, <2>3 DEF LeaseRests
  <2>4. ASSUME NEW p \in Procs, Quiet(p) PROVE Z!PlanRests' /\ Z!PhaseRests' /\ Z!MarkRests'
    <3>1. UNCHANGED <<active, archive, receipt, cert, proof, history, written>>
      BY <2>4 DEF Quiet
    <3>2. \A q \in Procs : pc'[q] = "mark" => pc[q] = "mark"
      BY <1>1, <2>4 DEF Quiet
    <3>3. Z!PlanRests'
      BY <2>2, <3>1 DEF Z!PlanRests, Z!FirstFile, Z!OldEntries
    <3>4. Z!PhaseRests'
      BY <2>2, <3>1 DEF Z!PhaseRests, Z!ArchivePost, Z!Proved, Z!FirstFile, Z!OldEntries
    <3>5. Z!MarkRests'
      BY <2>2, <3>1, <3>2 DEF Z!MarkRests, Z!ArchivePost, Z!Proved
    <3> QED
      BY <3>3, <3>4, <3>5
  <2>5. ASSUME NEW p \in Procs, Planned(p) PROVE Z!PlanRests' /\ Z!PhaseRests' /\ Z!MarkRests'
    <3>1. /\ pc[p] = "start" /\ pc' = [pc EXCEPT ![p] = "loop"] /\ receipt.phase = "none"
          /\ UNCHANGED <<active, archive, cert, proof, history, written>>
      BY <2>5 DEF Planned
    <3>2. active = First
      BY <2>2, <3>1 DEF Z!PlanRests
    <3>3. archive.entries = {}
      BY <2>5 DEF Planned, Z!NoEvidence, Z!EvidenceRests
    <3>4. /\ receipt'.phase = "archive" /\ receipt'.pre = First /\ receipt'.post = First \ Old
          /\ receipt'.archived = Old /\ receipt'.ids = OldIds
          /\ receipt'.history = "database" => Old # {}
      BY <2>5, <3>2, <3>3, PlanFacts, FirstIds DEF Planned
    <3>5. Z!PlanRests'
      BY <3>4 DEF Z!PlanRests, Z!FirstFile, Z!OldEntries
    <3>6. cert = 0 /\ written = First \ Old
      BY <2>2, <3>1 DEF Z!PhaseRests
    <3>7. Z!PhaseRests'
      BY <3>1, <3>2, <3>4, <3>6 DEF Z!PhaseRests, Z!FirstFile, Z!OldEntries
    <3>8. Z!MarkRests'
      BY <2>3, <3>1 DEF Z!MarkRests
    <3> QED
      BY <3>5, <3>7, <3>8
  \* The plan stays with the receipt.
  <2>6. ASSUME receipt.phase # "none", receipt'.phase # "none", receipt'.pre = receipt.pre,
               receipt'.post = receipt.post, receipt'.archived = receipt.archived,
               receipt'.ids = receipt.ids, receipt'.history = receipt.history
        PROVE  Z!PlanRests'
    BY <2>2, <2>6 DEF Z!PlanRests, Z!FirstFile, Z!OldEntries
  <2>7. ASSUME NEW p \in Procs, Taken(p) PROVE Z!PlanRests' /\ Z!PhaseRests' /\ Z!MarkRests'
    <3>1. /\ pc[p] = "loop" /\ pc' = [pc EXCEPT ![p] = "serving"] /\ Z!ArchivePost
          /\ UNCHANGED <<active, archive, cert, proof, history, written>>
          /\ receipt'.phase = "completed" /\ receipt'.pre = receipt.pre
          /\ receipt'.post = receipt.post /\ receipt'.archived = receipt.archived
          /\ receipt'.ids = receipt.ids /\ receipt'.history = receipt.history
      BY <1>1, <2>7 DEF Taken, Z!Serve, Z!Receipts
    <3>2. receipt.phase \in {"completion", "completed"}
      BY <2>2, <2>7 DEF Taken, Z!PhaseRests
    <3>3. Z!PlanRests'
      BY <2>6, <3>1, <3>2
    <3>4. active = written
      <4>1. CASE receipt.phase = "completed"
        BY <2>2, <4>1 DEF Z!PhaseRests
      <4>2. CASE receipt.phase = "completion"
        BY <2>2, <4>2 DEF Z!PhaseRests, Z!PlanRests
      <4> QED
        BY <3>2, <4>1, <4>2
    <3>5. Z!Proved
      BY <2>2, <3>2 DEF Z!PhaseRests
    <3>6. Z!PhaseRests'
      BY <3>1, <3>4, <3>5 DEF Z!PhaseRests, Z!ArchivePost, Z!Proved
    <3>7. Z!MarkRests'
      BY <2>3, <3>1 DEF Z!MarkRests
    <3> QED
      BY <3>3, <3>6, <3>7
  <2>8. ASSUME NEW p \in Procs, Archived(p) PROVE Z!PlanRests' /\ Z!PhaseRests' /\ Z!MarkRests'
    <3>1. /\ pc[p] = "loop" /\ pc' = [pc EXCEPT ![p] = "mark"] /\ receipt.phase = "archive"
          /\ archive' = [present |-> TRUE, entries |-> receipt.archived]
          /\ UNCHANGED <<active, receipt, cert, proof, history, written>>
      BY <2>8 DEF Archived, Z!InPhase, Z!ToMark
    <3>2. Z!PlanRests'
      BY <2>6, <3>1
    <3>3. Z!PhaseRests'
      BY <2>2, <3>1 DEF Z!PhaseRests, Z!FirstFile, Z!OldEntries
    <3>4. Z!MarkRests'
      BY <3>1 DEF Z!MarkRests, Z!ArchivePost
    <3> QED
      BY <3>2, <3>3, <3>4
  <2>9. ASSUME NEW p \in Procs, Recorded(p) PROVE Z!PlanRests' /\ Z!PhaseRests' /\ Z!MarkRests'
    <3>1. /\ pc[p] = "loop" /\ pc' = [pc EXCEPT ![p] = "mark"] /\ receipt.phase = "history"
          /\ UNCHANGED <<active, archive, receipt, cert, written>>
      BY <2>9 DEF Recorded, Z!InPhase, Z!ToMark
    <3>2. Z!PlanRests'
      BY <2>6, <3>1
    <3>3. Z!PhaseRests'
      BY <2>2, <3>1 DEF Z!PhaseRests, Z!ArchivePost, Z!FirstFile, Z!OldEntries
    <3>4. receipt.ids = OldIds
      BY <2>2, <3>1 DEF Z!PlanRests
    <3>5. Z!Proved'
      BY <2>9, <3>1, <3>4 DEF Recorded, Z!Proved
    <3>6. Z!MarkRests'
      BY <3>1, <3>5 DEF Z!MarkRests
    <3> QED
      BY <3>2, <3>3, <3>6
  <2>10. ASSUME NEW p \in Procs, Rewritten(p) PROVE Z!PlanRests' /\ Z!PhaseRests' /\ Z!MarkRests'
    <3>1. /\ pc[p] = "loop" /\ pc' = [pc EXCEPT ![p] = "mark"] /\ receipt.phase = "rewrite"
          /\ active' = receipt.post
          /\ UNCHANGED <<archive, receipt, cert, proof, history, written>>
      BY <2>10 DEF Rewritten, Z!InPhase, Z!ToMark
    <3>2. Z!PlanRests'
      BY <2>6, <3>1
    <3>3. Z!PhaseRests'
      BY <2>2, <3>1 DEF Z!PhaseRests, Z!ArchivePost, Z!Proved, Z!FirstFile, Z!OldEntries
    <3>4. Z!MarkRests'
      BY <3>1 DEF Z!MarkRests
    <3> QED
      BY <3>2, <3>3, <3>4
  <2>11. ASSUME NEW p \in Procs, Closed(p) PROVE Z!PlanRests' /\ Z!PhaseRests' /\ Z!MarkRests'
    <3>1. /\ pc[p] = "loop" /\ pc' = [pc EXCEPT ![p] = "mark"] /\ receipt.phase = "completion"
          /\ UNCHANGED <<active, archive, receipt, proof, history, written>>
      BY <2>11 DEF Closed, Z!InPhase, Z!ToMark
    <3>2. Z!PlanRests'
      BY <2>6, <3>1
    <3>3. Z!PhaseRests'
      BY <2>2, <3>1 DEF Z!PhaseRests, Z!ArchivePost, Z!Proved, Z!FirstFile, Z!OldEntries
    <3>4. Z!MarkRests'
      BY <3>1 DEF Z!MarkRests
    <3> QED
      BY <3>2, <3>3, <3>4
  <2>12. ASSUME NEW p \in Procs, Z!Mark(p) PROVE Z!PlanRests' /\ Z!PhaseRests' /\ Z!MarkRests'
    <3>1. PICK n \in 1..4 : /\ receipt.phase = Z!Pending[n]
                            /\ receipt' = [receipt EXCEPT !.phase = Z!Pending[n + 1]]
      BY <2>12 DEF Z!Mark
    <3>2. /\ pc[p] = "mark" /\ pc' = [pc EXCEPT ![p] = "loop"]
          /\ UNCHANGED <<active, archive, cert, proof, history, written>>
      BY <2>12 DEF Z!Mark, Z!database
    <3>3. /\ receipt'.phase = Z!Pending[n + 1] /\ receipt'.pre = receipt.pre
          /\ receipt'.post = receipt.post /\ receipt'.archived = receipt.archived
          /\ receipt'.ids = receipt.ids /\ receipt'.history = receipt.history
      BY <1>1, <3>1 DEF Z!Receipts
    <3>4. \/ receipt.phase = "archive" /\ receipt'.phase = "history"
          \/ receipt.phase = "history" /\ receipt'.phase = "rewrite"
          \/ receipt.phase = "rewrite" /\ receipt'.phase = "completion"
          \/ receipt.phase = "completion" /\ receipt'.phase = "completed"
      BY <3>1, <3>3, PhaseOrder
    <3>5. Z!PlanRests'
      BY <2>6, <3>3, <3>4
    <3>6. Z!MarkRests'
      <4>1. \A q \in Procs : pc'[q] # "mark"
        BY <1>1, <3>2 DEF LeaseRests
      <4> QED
        BY <4>1 DEF Z!MarkRests
    <3>7. /\ receipt.phase = "archive" => Z!ArchivePost
          /\ receipt.phase = "history" => Z!Proved
          /\ receipt.phase = "rewrite" => active = receipt.post
      BY <2>2, <3>2 DEF Z!MarkRests
    <3>8. receipt.post = First \ Old
      BY <2>2, <3>4 DEF Z!PlanRests
    <3>9. Z!PhaseRests'
      <4>1. CASE receipt.phase = "archive" /\ receipt'.phase = "history"
        BY <2>2, <3>2, <3>3, <3>7, <4>1 DEF Z!PhaseRests, Z!ArchivePost, Z!FirstFile, Z!OldEntries
      <4>2. CASE receipt.phase = "history" /\ receipt'.phase = "rewrite"
        BY <2>2, <3>2, <3>3, <3>7, <4>2 DEF Z!PhaseRests, Z!ArchivePost, Z!Proved, Z!FirstFile, Z!OldEntries
      <4>3. CASE receipt.phase = "rewrite" /\ receipt'.phase = "completion"
        BY <2>2, <3>2, <3>3, <3>7, <4>3 DEF Z!PhaseRests, Z!ArchivePost, Z!Proved, Z!FirstFile, Z!OldEntries
      <4>4. CASE receipt.phase = "completion" /\ receipt'.phase = "completed"
        BY <2>2, <3>2, <3>3, <3>8, <4>4 DEF Z!PhaseRests, Z!ArchivePost, Z!Proved
      <4> QED
        BY <3>4, <4>1, <4>2, <4>3, <4>4
    <3> QED
      BY <3>5, <3>6, <3>9
  \* A serving process keeps the file and what the edits add up to in step.
  <2>13. ASSUME NEW p \in Procs, pc[p] = "serving", NEW S, Z!Write(p, S), written' = S
         PROVE  Z!PlanRests' /\ Z!PhaseRests' /\ Z!MarkRests'
    <3>1. /\ active' = S /\ UNCHANGED <<archive, receipt, cert, proof, history, pc>>
      BY <2>13, WriteFactsOf
    <3>2. receipt.phase = "completed"
      BY <2>13 DEF Z!ServingRests
    <3>3. Z!PlanRests'
      BY <2>6, <3>1, <3>2
    <3>4. Z!PhaseRests'
      BY <2>2, <2>13, <3>1, <3>2 DEF Z!PhaseRests, Z!ArchivePost, Z!Proved
    <3>5. Z!MarkRests'
      BY <3>1, <3>2 DEF Z!MarkRests
    <3> QED
      BY <3>3, <3>4, <3>5
  <2>14. ASSUME NEW p \in Procs, pc[p] = "serving" PROVE active = written /\ generation[p] = served[p]
    <3>1. receipt.phase = "completed" /\ generation[p] = served[p]
      BY <2>14 DEF Z!ServingRests
    <3> QED
      BY <2>2, <3>1 DEF Z!PhaseRests
  <2>15. ASSUME NEW p \in Procs, NEW e \in Z!Entry, Z!Upsert(p, e)
         PROVE  Z!PlanRests' /\ Z!PhaseRests' /\ Z!MarkRests'
    <3>1. /\ pc[p] = "serving" /\ Z!Write(p, {f \in active : f.id # e.id} \cup {e})
          /\ written' = {f \in written : f.id # e.id} \cup {e}
      BY <2>15 DEF Z!Upsert, Z!Current
    <3>2. active = written
      BY <2>14, <3>1
    <3> QED
      BY <2>13, <3>1, <3>2
  <2>16. ASSUME NEW p \in Procs, NEW i \in Idents, Z!Remove(p, i)
         PROVE  Z!PlanRests' /\ Z!PhaseRests' /\ Z!MarkRests'
    <3>1. /\ pc[p] = "serving" /\ generation[p] = active /\ Z!Write(p, {f \in served[p] : f.id # i})
          /\ written' = {f \in written : f.id # i}
      BY <2>16 DEF Z!Remove, Z!Current
    <3>2. served[p] = written
      BY <2>14, <3>1
    <3> QED
      BY <2>13, <3>1, <3>2
  <2> QED
    BY <1>3, <2>4, <2>5, <2>7, <2>8, <2>9, <2>10, <2>11, <2>12, <2>15, <2>16, RetirementSteps
<1> QED
  BY <1>2, <1>3

\* The invariant is inductive.
LEMMA RetirementNext == ASSUME Z!RetirementAssumption PROVE Z!IndInv /\ [Z!Next]_Z!vars => Z!IndInv'
<1> SUFFICES ASSUME Z!IndInv, [Z!Next]_Z!vars
             PROVE  Z!IndInv'
  OBVIOUS
<1>1. RetireShapes /\ LeaseRests /\ Z!EvidenceRests /\ Z!ServingRests /\ Z!Undisturbed
  BY RetireShapesAgree DEF Z!IndInv
<1>2. CASE Z!Next
  <2>1. (RetireShapes /\ LeaseRests)'
    BY <1>1, <1>2, RetireShapesKeep, LeaseKeeps
  <2> QED
    BY <1>1, <1>2, <2>1, EvidenceKeeps, ServingKeeps, UndisturbedKeeps, RetireShapesAgree DEF Z!IndInv
<1>3. CASE UNCHANGED Z!vars
  <2>1. UNCHANGED <<active, archive, receipt, cert, proof, history, ops, lease, pc, storage, served,
                    generation, banned, mishaps, offline, written>>
    BY <1>3 DEF Z!vars, Z!files, Z!database, Z!memory, Z!bounds
  <2>2. (RetireShapes /\ LeaseRests)'
    BY <1>1, <2>1 DEF RetireShapes, LeaseRests
  <2>3. Z!EvidenceRests'
    BY <1>1, <2>1 DEF Z!EvidenceRests, Z!IdsOf
  <2>4. Z!ServingRests'
    BY <1>1, <2>1 DEF Z!ServingRests, Z!ArchivePost, Z!Live, Z!OldEntries, Z!IdsOf
  <2>5. Z!Undisturbed'
    BY <1>1, <2>1 DEF Z!Undisturbed, Z!PlanRests, Z!PhaseRests, Z!MarkRests, Z!ArchivePost, Z!Proved,
                      Z!FirstFile, Z!OldEntries
  <2> QED
    BY <2>2, <2>3, <2>4, <2>5, RetireShapesAgree DEF Z!IndInv
<1> QED
  BY <1>2, <1>3

\* retire (schedule_retirement.rs): whatever was restored, removed or edited before a
\* start, a process serves no retired schedule; undisturbed, no retired
\* schedule is ever without a copy and no edit is lost.
THEOREM RetirementAlwaysHolds == ASSUME Z!RetirementAssumption PROVE Z!Spec => []Z!RetirementHolds
<1>1. Z!IndInv => Z!RetirementHolds
  <2> SUFFICES ASSUME Z!IndInv
               PROVE  Z!RetirementHolds
    OBVIOUS
  <2>1. Z!TypeOK /\ Z!EvidenceRests /\ Z!ServingRests /\ Z!Undisturbed
    BY DEF Z!IndInv, Z!Shape
  <2>2. Z!ServedAreLive
    <3> SUFFICES ASSUME NEW p \in Procs, pc[p] = "serving"
                 PROVE  /\ Z!OldEntries(served[p]) = {}
                        /\ Z!IdsOf(served[p]) \cap (receipt.ids \cup Z!IdsOf(archive.entries)) = {}
                        /\ storage[p] = "available" => Z!IdsOf(served[p]) \cap proof.ids = {}
      BY DEF Z!ServedAreLive
    <3>1. /\ Z!ArchivePost /\ Z!Live(served[p])
          /\ storage[p] = "available" => proof.ids \subseteq receipt.ids
      BY <2>1 DEF Z!ServingRests
    <3>2. Z!IdsOf(archive.entries) = receipt.ids
      BY <2>1, <3>1 DEF Z!ArchivePost, Z!EvidenceRests
    <3> QED
      BY <3>1, <3>2 DEF Z!Live
  <2>3. Z!RetiredKept
    <3> SUFFICES ASSUME offline = 0
                 PROVE  /\ Z!OldEntries(Z!FirstFile) \subseteq active \cup archive.entries
                        /\ Z!OldEntries(active) = {} /\ receipt.history = "database" =>
                               history \cap OldIds = {} /\ proof.ids = OldIds
      BY DEF Z!RetiredKept
    <3>1. Z!PlanRests /\ Z!PhaseRests
      BY <2>1 DEF Z!Undisturbed
    <3>2. Z!OldEntries(Z!FirstFile) \subseteq Z!FirstFile
      BY IdsFacts
    <3>3. CASE receipt.phase = "none"
      BY <3>1, <3>2, <3>3 DEF Z!PlanRests
    <3>4. CASE receipt.phase \in {"archive", "history"}
      BY <3>1, <3>2, <3>4 DEF Z!PlanRests, Z!PhaseRests
    <3>5. CASE receipt.phase \in {"rewrite", "completion", "completed"}
      BY <3>1, <3>5 DEF Z!PlanRests, Z!PhaseRests, Z!ArchivePost, Z!Proved
    <3>6. receipt.phase \in {"none"} \cup Z!Phases
      BY <2>1, PhaseOrder DEF Z!TypeOK
    <3> QED
      BY <3>3, <3>4, <3>5, <3>6 DEF Z!Phases
  <2>4. Z!NoLostEdit
    BY <2>1 DEF Z!NoLostEdit, Z!Undisturbed, Z!PhaseRests
  <2> QED
    BY <2>1, <2>2, <2>3, <2>4 DEF Z!RetirementHolds
<1> QED
  BY <1>1, RetirementInit, RetirementNext, PTL DEF Z!Spec

\* A certificate is written only over files and rows that bear it out,
\* whatever an operator did to them between two starts.
THEOREM CertificatesBornOut == ASSUME Z!RetirementAssumption PROVE Z!Spec => [][Z!BornOut]_Z!vars
<1>1. Z!IndInv /\ [Z!Next]_Z!vars => [Z!BornOut]_Z!vars
  <2> SUFFICES ASSUME Z!IndInv, Z!Next, cert' # cert, cert' # 0
               PROVE  Z!BornOut
    BY DEF Z!BornOut
  <2>1. RetireShapes /\ Z!EvidenceRests
    BY RetireShapesAgree DEF Z!IndInv
  <2>2. PICK p \in Procs : Closed(p)
    <3>1. ASSUME NEW p \in Procs, NEW S, Z!Write(p, S) PROVE FALSE
      BY <3>1, WriteFactsOf
    <3> QED
      BY <2>1, <3>1, RetirementSteps
         DEF Quiet, Planned, Taken, Archived, Recorded, Rewritten, Z!Mark, Z!Upsert, Z!Remove, Z!Offline, Z!files
  <2>3. /\ Z!Reconciled(p, "must") /\ ~Z!Prohibited(active, receipt.ids) /\ Z!ArchivePost
        /\ cert' = receipt.op
    BY <2>2 DEF Closed, Z!CompletionReady
  <2>4. receipt.history = "database" => proof.op = cert' /\ history \cap receipt.ids = {}
    BY <2>3 DEF Z!Reconciled, Z!ProofExact
  <2>5. archive.present /\ Z!IdsOf(archive.entries) = receipt.ids
    BY <2>1, <2>3 DEF Z!ArchivePost, Z!EvidenceRests
  <2> QED
    BY <2>3, <2>4, <2>5 DEF Z!BornOut, Z!Prohibited
<1> QED
  BY <1>1, RetirementInit, RetirementNext, PTL DEF Z!Spec
===============================================================================
