------------------------ MODULE WorkOrderSubmissions ------------------------
(***************************************************************************)
(* The submissions of harness work orders: the transaction of               *)
(* insert_harness_work_order_submission (hf-storage work_order_store.rs).  *)
(*                                                                         *)
(* The transaction is deferred: its SELECTs read one snapshot of the       *)
(* database and its INSERT is the first write.  SQLite in WAL mode refuses *)
(* that write when any other connection has committed since the snapshot,  *)
(* and the limit, the ancestry and the identity of a submission rest on    *)
(* nothing else.                                                           *)
(***************************************************************************)
EXTENDS Naturals, FiniteSets

CONSTANTS
    Clients,  \* imports in flight
    Orders,   \* work order identifiers
    Sources,  \* submitted sources, with their origin
    Limit,    \* MAX_WORK_ORDER_SUBMISSIONS
    MaxSub,   \* submissions ever inserted
    None

ASSUME SubmissionAssumption ==
    /\ Limit \in Nat
    /\ MaxSub \in Nat
    /\ None \notin Nat

VARIABLES
    order,  \* the work orders in the database
    sub,    \* the submissions: identifier to row
    used,   \* identifiers given out
    txn,    \* what each import is about to insert
    seen,   \* the snapshot each import has read
    stale   \* imports whose snapshot another commit has overtaken

vars == <<order, sub, used, txn, seen, stale>>

Ids == 1..MaxSub

Record(w, s, p) == [order |-> w, source |-> s, parent |-> p]

Records == [order : Orders, source : Sources, parent : Ids \cup {None}]

ASSUME NoneAssumption == None \notin Records

\* The rows of a set of identified submissions.
Rows == [id : Ids, row : Records]

Of(S, w) == {x \in S : x.row.order = w}

Init ==
    /\ order = {}
    /\ sub = {}
    /\ used = 0
    /\ txn = [c \in Clients |-> None]
    /\ seen = [c \in Clients |-> {}]
    /\ stale = {}

Open == {c \in Clients : txn[c] # None}

\* insert_harness_work_order: a statement of its own.
Publish(w) ==
    /\ w \notin order
    /\ order' = order \cup {w}
    /\ stale' = Open
    /\ UNCHANGED <<sub, used, txn, seen>>

-----------------------------------------------------------------------------
(* insert_harness_work_order_submission.                                    *)

\* Mutant: an exact prior submission is not looked for.
NeverExists(S, r) == FALSE

\* The submission is already there: the prior one is returned.
Exists(S, r) == \E x \in S : x.row = r

\* Mutant: the parent may belong to another work order.
ParentFound(S, r) == r.parent = None \/ \E x \in S : x.id = r.parent

ParentOk(S, r) ==
    r.parent = None \/ \E x \in Of(S, r.order) : x.id = r.parent

\* Mutant: one more than the limit is let in.
RoomLeftOffByOne(S, r) == Cardinality(Of(S, r.order)) <= Limit

RoomLeft(S, r) == Cardinality(Of(S, r.order)) < Limit

\* The SELECTs, all on one snapshot.  A record that exists, has no order or no
\* proper parent or no room ends the transaction without a write.
Import(c, r) ==
    /\ txn[c] = None
    /\ r.order \in order
    /\ ~Exists(sub, r)
    /\ ParentOk(sub, r)
    /\ RoomLeft(sub, r)
    /\ txn' = [txn EXCEPT ![c] = r]
    /\ seen' = [seen EXCEPT ![c] = sub]
    /\ stale' = stale \ {c}
    /\ UNCHANGED <<order, sub, used>>

Close(c) ==
    /\ txn' = [txn EXCEPT ![c] = None]
    /\ seen' = [seen EXCEPT ![c] = {}]

\* Mutant: the SELECTs ran outside the transaction of the INSERT.
InsertLate(c) ==
    /\ txn[c] # None
    /\ used < MaxSub
    /\ used' = used + 1
    /\ sub' = sub \cup {[id |-> used + 1, row |-> txn[c]]}
    /\ stale' = Open \ {c}
    /\ Close(c)
    /\ UNCHANGED order

\* The INSERT and the COMMIT.
Insert(c) ==
    /\ txn[c] # None
    /\ c \notin stale
    /\ used < MaxSub
    /\ used' = used + 1
    /\ sub' = sub \cup {[id |-> used + 1, row |-> txn[c]]}
    /\ stale' = Open \ {c}
    /\ Close(c)
    /\ UNCHANGED order

\* The snapshot was overtaken, or the call is dropped: nothing is written.
Rollback(c) ==
    /\ txn[c] # None
    /\ Close(c)
    /\ stale' = stale \ {c}
    /\ UNCHANGED <<order, sub, used>>

-----------------------------------------------------------------------------
\* Deleting a target or a project takes its work orders and their submissions
\* along, in one transaction.
Delete(w) ==
    /\ w \in order
    /\ order' = order \ {w}
    /\ sub' = sub \ Of(sub, w)
    /\ stale' = Open
    /\ UNCHANGED <<used, txn, seen>>

\* Any other table of the database is written.
OtherWrite ==
    /\ stale' = Open
    /\ UNCHANGED <<order, sub, used, txn, seen>>

Next ==
    \/ \E c \in Clients :
          \/ Insert(c) \/ Rollback(c)
          \/ \E w \in Orders, s \in Sources, p \in Ids \cup {None} :
                Import(c, Record(w, s, p))
    \/ \E w \in Orders : Publish(w) \/ Delete(w)
    \/ OtherWrite

Spec == Init /\ [][Next]_vars

-----------------------------------------------------------------------------
\* The table, the transactions and their snapshots have their shapes; every
\* identifier was given out once.
TypeOK ==
    /\ order \subseteq Orders
    /\ used \in 0..MaxSub
    /\ sub \subseteq Rows
    /\ txn \in [Clients -> Records \cup {None}]
    /\ seen \in [Clients -> SUBSET Rows]
    /\ stale \subseteq Open
    /\ \A x \in sub : x.id <= used
    /\ \A x, y \in sub : x.id = y.id => x = y

\* No work order ever has more submissions than the limit, however many
\* imports counted them at the same time.
LimitHolds == \A w \in Orders : Cardinality(Of(sub, w)) <= Limit

\* Every submission's parent is a submission of the same, existing work order:
\* "an accepted submission always has durable ancestry", also when the order is
\* deleted under an import that has checked it.
AncestryDurable ==
    \A x \in sub :
        /\ x.row.order \in order
        /\ x.row.parent # None => \E y \in sub :
              y.id = x.row.parent /\ y.row.order = x.row.order /\ y.id < x.id

\* No two submissions are the same: an import that is sent twice is stored once.
NoDuplicate == \A x, y \in sub : x.row = y.row => x = y

\* The stored submissions keep to the limit, to their ancestry and to one copy.
SubmissionsHold == TypeOK /\ LimitHolds /\ AncestryDurable /\ NoDuplicate

\* submission_repair_depth: how many ancestors a submission has.
Depth[i \in Ids] ==
    LET up == {x.row.parent : x \in {y \in sub : y.id = i}} \ {None} IN
    IF up = {} THEN 0 ELSE 1 + Depth[CHOOSE p \in up : TRUE]

\* Every stored submission can be qualified: its depth never reaches the value
\* at which submission_repair_depth refuses it as too deep.
DepthQualifies == \A x \in sub : Depth[x.id] < Limit

\* What the proof rests on: an import that is not overtaken has read the table
\* as it is, and what it checked there still holds.
SnapshotCurrent ==
    \A c \in Clients : txn[c] # None /\ c \notin stale =>
        /\ seen[c] = sub
        /\ txn[c].order \in order
        /\ ~Exists(sub, txn[c])
        /\ ParentOk(sub, txn[c])
        /\ RoomLeft(sub, txn[c])

=============================================================================
