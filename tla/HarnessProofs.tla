----------------------------- MODULE HarnessProofs -----------------------------
(****************************************************************************)
(* For any callers, attempts, sources, revisions, runs and failures of one   *)
(* workspace: what was run was reviewed, what is approved was smoked and     *)
(* what a campaign ran was approved, although operations give the lease back *)
(* between their steps and any of them may die; and a work order attempt is  *)
(* evidence about its own submission, interrupted by recovery only when      *)
(* nobody works on it, and approved only as it was shown clean.              *)
(*                                                                           *)
(* IndInv says what each record and each operation of the workspace rests    *)
(* on.  A step is shown to take nothing of that away (Frames), to leave its  *)
(* own operation knowing what it must (OwnRests) and to write only records   *)
(* that rest on what is there (TablesRest); StepRests puts these together.   *)
(* OrdersInv adds what the attempts and the calls that own them rest on; the *)
(* second part repeats the argument for them.                                *)
(****************************************************************************)
EXTENDS WorkOrders, TLAPS

\* A step of an operation, or the start of a compile somebody's task asked for.
Works(c) ==
    \/ Start(c) \/ Step(c) \/ Drop(c)
    \/ \E t \in Tasks, s \in Sources : CompileAs(c, "queued", t, s)

\* Nothing a record rests on is taken away.
Grows ==
    /\ \A i \in Ids : row[i] # None => row'[i] # None
    /\ \A i \in Ids : review[i] # None => review'[i] = review[i]
    /\ \A i \in Ids : built[i] # None => built'[i] = built[i]
    /\ \A r \in Runs : run[r] # None =>
          /\ run'[r] # None
          /\ run'[r].kind = run[r].kind
          /\ run'[r].harness = run[r].harness
          /\ run'[r].source = run[r].source
          /\ run'[r].binary = run[r].binary
          /\ run[r].status # "running" => run'[r] = run[r]
    /\ approval \subseteq approval'

\* A step of one operation leaves the others, their lease and their runs alone.
Frame(c) ==
    /\ Grows
    /\ \A d \in Clients \ {c} : op'[d] = op[d]
    /\ lease' = lease \/ lease \in {None, c}
    /\ lease \notin {None, c} => run' = run

\* What a step writes to the tables rests on what is there.
TablesStep ==
    /\ \A i \in Ids : row'[i] = row[i] \/ RowRests(i)'
    /\ \A r \in Runs : run'[r] = None \/ run[r] # None \/ RunRests(r)'
    /\ \A a \in approval' \ approval : ApprovalRests(a)'

-----------------------------------------------------------------------------
(* The records a step makes have their shapes and are there.                *)

\* An operation's next record, in its place among the others.
LEMMA GotoType ==
  ASSUME TypeOK, NEW c \in Clients, NEW o \in Ops, Goto(c, o)
  PROVE  op' \in [Clients -> Ops] /\ op'[c] = o
BY DEF TypeOK, Goto

\* Before its first and after its last step an operation knows nothing.
LEMMA IdleType == Idle \in Ops
BY DEF Idle, Ops, Places, Waiting

\* An operation that ends, for its caller or for good.
LEMMA FinishType ==
  ASSUME TypeOK, NEW c \in Clients, NEW p \in Places, Finish(c, p)
  PROVE  op' \in [Clients -> Ops] /\ op'[c].at \in {"idle", p}
<1>1. op[c] \in Ops /\ Idle \in Ops /\ Idle.at = "idle"
  BY IdleType DEF TypeOK, Idle
<1>2. [op[c] EXCEPT !.at = p] \in Ops /\ [op[c] EXCEPT !.at = p].at = p
  BY <1>1 DEF Ops
<1>3. CASE op[c].task = None
  BY <1>1, <1>3 DEF TypeOK, Finish, Goto
<1>4. CASE op[c].task # None
  BY <1>2, <1>4 DEF TypeOK, Finish, Goto
<1> QED
  BY <1>3, <1>4

\* A step's failures come out of what is left of them.
LEMMA SpendType ==
  ASSUME TypeOK, NEW S, Spend(S)
  PROVE  left' \in [Faults -> Nat]
BY DEF TypeOK, Spend

\* A revision's new record.
LEMMA PutRow ==
  ASSUME RevisionAssumption, TypeOK, NEW i \in Ids,
         NEW s \in Sources, NEW m \in Smokes \cup {None},
         NEW status \in {"compiled", "smoke_passed", "failed", "promoted"},
         row' = [row EXCEPT ![i] = Row(s, status, m)]
  PROVE  /\ row' \in [Ids -> Rows \cup {None}]
         /\ row'[i] # None
         /\ row'[i].source = s /\ row'[i].status = status /\ row'[i].smoke = m
         /\ \A j \in Ids : j # i => row'[j] = row[j]
<1>1. Row(s, status, m) \in Rows
  BY DEF Row, Rows
<1>2. row'[i] = Row(s, status, m) /\ row'[i] # None
  BY <1>1 DEF TypeOK, RevisionAssumption
<1>3. row'[i].source = s /\ row'[i].status = status /\ row'[i].smoke = m
  BY <1>2 DEF Row
<1> QED
  BY <1>1, <1>2, <1>3 DEF TypeOK

\* The record of a run that starts.
LEMMA RunFacts ==
  ASSUME RevisionAssumption, NEW kind \in {"smoke", "campaign"},
         NEW i \in Ids, NEW s \in Sources, NEW b \in Ids
  PROVE  LET x == Run(kind, "running", i, s, b, None) IN
         /\ x \in RunRows /\ x # None
         /\ x.kind = kind /\ x.status = "running" /\ x.harness = i
         /\ x.source = s /\ x.binary = b
<1> DEFINE x == Run(kind, "running", i, s, b, None)
<1>1. x \in RunRows
  BY DEF Run, RunRows
<1>2. x # None
  BY <1>1 DEF RevisionAssumption
<1> QED
  BY <1>1, <1>2 DEF Run

\* A run that ends keeps what it ran.
LEMMA EndRun ==
  ASSUME RevisionAssumption, TypeOK, NEW r \in Runs, run[r] # None,
         NEW status \in {"done", "failed"}, NEW result \in Results \cup {None},
         SetRun(r, status, result)
  PROVE  /\ run' \in [Runs -> RunRows \cup {None}]
         /\ run'[r] # None
         /\ run'[r].kind = run[r].kind /\ run'[r].harness = run[r].harness
         /\ run'[r].source = run[r].source /\ run'[r].binary = run[r].binary
         /\ run'[r].status = status /\ run'[r].result = result
         /\ \A q \in Runs : q # r => run'[q] = run[q]
<1> DEFINE new == Run(run[r].kind, status, run[r].harness, run[r].source,
                      run[r].binary, result)
<1>1. run[r] \in RunRows
  BY DEF TypeOK
<1>2. new \in RunRows
  BY <1>1 DEF Run, RunRows
<1>3. run' = [run EXCEPT ![r] = new]
  BY DEF SetRun
<1>4. run'[r] = new /\ run'[r] # None
  BY <1>2, <1>3 DEF TypeOK, RevisionAssumption
<1>5. /\ run'[r].kind = run[r].kind /\ run'[r].harness = run[r].harness
      /\ run'[r].source = run[r].source /\ run'[r].binary = run[r].binary
      /\ run'[r].status = status /\ run'[r].result = result
  BY <1>4 DEF Run
<1> HIDE DEF new
<1> QED
  BY <1>2, <1>3, <1>4, <1>5 DEF TypeOK

\* What the operation at a run of its own knows of it.
LEMMA OwnRun ==
  ASSUME IndInv, NEW c \in Clients, op[c].at \in {"smoking", "campaign"}
  PROVE  op[c].run \in Runs /\ run[op[c].run] # None /\ run[op[c].run].status = "running"
BY DEF IndInv, OpRests

\* The active revision is recorded, with the source in the workspace.
LEMMA ActiveType ==
  ASSUME TypeOK, NEW i \in Ids, ActiveIs(i)
  PROVE  row[i] \in Rows /\ row[i].source \in Sources /\ src \in Sources /\ row[i].source = src
BY DEF TypeOK, ActiveIs, Rows

\* The qualified files are those of a smoke the revision carries.
LEMMA VerifiedType ==
  ASSUME RevisionAssumption, TypeOK, NEW i \in Ids, ActiveIs(i), Verified(i)
  PROVE  /\ row[i].smoke \in Smokes
         /\ row[i].smoke.source = src /\ row[i].smoke.binary = bin
         /\ bin \in Ids /\ src \in Sources
<1>1. row[i].smoke \in Smokes
  BY ActiveType DEF Verified, Rows
<1>2. row[i].smoke.binary \in Ids /\ row[i].smoke.source \in Sources
  BY <1>1 DEF Smokes
<1> QED
  BY <1>1, <1>2 DEF Verified

\* A review that passes gives its caller the digests it was made for.
LEMMA ReviewedType ==
  ASSUME RevisionAssumption, IndInv, NEW c \in Clients, InReview(c),
         ActiveIs(op[c].id), bin # None, Reviewed(c)
  PROVE  /\ op' \in [Clients -> Ops]
         /\ op'[c].at = IF op[c].at = "review" THEN "smoke" ELSE "reviewed"
         /\ op'[c].id = op[c].id /\ op'[c].task = op[c].task
         /\ op'[c].src = row[op[c].id].source /\ op'[c].bin = bin
<1> DEFINE next == IF op[c].at = "review" THEN "smoke" ELSE "reviewed"
           o == [op[c] EXCEPT !.src = row[op[c].id].source, !.bin = bin]
           p == [o EXCEPT !.at = next]
<1>1. op[c] \in Ops /\ op[c].id \in Ids /\ bin \in Ids
  BY DEF IndInv, TypeOK, InReview, OpRests
<1>2. row[op[c].id].source \in Sources
  BY <1>1, ActiveType DEF IndInv
<1>3. o \in Ops /\ o.src = row[op[c].id].source /\ o.bin = bin
      /\ o.id = op[c].id /\ o.task = op[c].task
  BY <1>1, <1>2 DEF Ops
<1>4. next \in Places
  BY DEF Places, Waiting
<1>5. Goto(c, p)
  BY DEF Reviewed
<1> HIDE DEF next, o
<1>6. /\ p \in Ops /\ p.at = next
      /\ p.id = o.id /\ p.task = o.task /\ p.src = o.src /\ p.bin = o.bin
  BY <1>3, <1>4 DEF Ops
<1> HIDE DEF p
<1>7. op' \in [Clients -> Ops] /\ op'[c] = p
  BY <1>5, <1>6, GotoType DEF IndInv
<1> QED
  BY <1>3, <1>6, <1>7 DEF next

\* A revision that records its smoke carries what its own run ran.
LEMMA SavedRow ==
  ASSUME RevisionAssumption, IndInv, NEW c \in Clients, SmokeSaved(c)
  PROVE  LET i == op[c].id
             r == run[op[c].run] IN
         /\ i \in Ids /\ op[c].run \in Runs
         /\ row' \in [Ids -> Rows \cup {None}]
         /\ row[i] # None /\ row'[i] # None
         /\ row'[i].source = row[i].source
         /\ row'[i].status # "promoted"
         /\ row'[i].smoke = Smoke(r.result, r.source, r.binary, op[c].run)
         /\ row'[i].smoke \in Smokes
         /\ \A j \in Ids : j # i => row'[j] = row[j]
<1> DEFINE i == op[c].id
           r == run[op[c].run]
           status == IF r.result = "unviable" THEN "failed" ELSE "smoke_passed"
           m == Smoke(r.result, r.source, r.binary, op[c].run)
<1>1. i \in Ids /\ op[c].run \in Runs /\ r # None /\ r.result # None /\ r.harness = i
  BY DEF SmokeSaved, IndInv, OpRests
<1>2. row[i] # None
  BY <1>1 DEF IndInv, RunRests
<1>3. r \in RunRows /\ row[i] \in Rows
  BY <1>1, <1>2 DEF IndInv, TypeOK
<1>4. m \in Smokes /\ row[i].source \in Sources
  BY <1>1, <1>3 DEF RunRows, Rows, Smokes, Smoke
<1>5. status \in {"compiled", "smoke_passed", "failed", "promoted"} /\ status # "promoted"
  OBVIOUS
<1>6. row' = [row EXCEPT ![i] = Row(row[i].source, status, m)]
  BY DEF SmokeSaved
<1> DEFINE s == row[i].source
<1>8. TypeOK /\ m \in Smokes \cup {None} /\ s \in Sources
      /\ row' = [row EXCEPT ![i] = Row(s, status, m)]
  BY <1>4, <1>6 DEF IndInv
<1> HIDE DEF status, m, i, r, s
<1>7. /\ row' \in [Ids -> Rows \cup {None}]
      /\ row'[i] # None
      /\ row'[i].source = s /\ row'[i].status = status /\ row'[i].smoke = m
      /\ \A j \in Ids : j # i => row'[j] = row[j]
  <2> DEFINE x == Row(s, status, m)
  <2>1. x \in Rows /\ x.source = s /\ x.status = status /\ x.smoke = m
    BY <1>5, <1>8 DEF Row, Rows
  <2>2. x # None
    BY <2>1 DEF RevisionAssumption
  <2>3. row' = [row EXCEPT ![i] = x]
    BY <1>8
  <2> HIDE DEF x
  <2> QED
    BY <1>1, <1>8, <2>1, <2>2, <2>3 DEF TypeOK
<1> QED
  BY <1>1, <1>2, <1>4, <1>5, <1>7 DEF m, i, r, s

\* An approval records the smoke of the revision it promotes.
LEMMA ApproveFacts ==
  ASSUME RevisionAssumption, IndInv, NEW i \in Ids, ActiveIs(i), Verified(i),
         NEW kind \in {"clean_smoke", "known_findings"}, Approve(i, kind)
  PROVE  /\ row' \in [Ids -> Rows \cup {None}]
         /\ row'[i] # None
         /\ row'[i].source = row[i].source /\ row'[i].status = "promoted"
         /\ row'[i].smoke = row[i].smoke
         /\ \A j \in Ids : j # i => row'[j] = row[j]
         /\ approval' \subseteq Approvals
         /\ approval \subseteq approval'
         /\ \E a \in approval' :
               /\ approval' = approval \cup {a}
               /\ a.harness = i /\ a.source = row[i].smoke.source
               /\ a.binary = row[i].smoke.binary /\ a.kind = kind
<1> DEFINE a == [harness |-> i, source |-> row[i].smoke.source,
                 binary |-> row[i].smoke.binary, kind |-> kind]
<1>1. row[i].smoke \in Smokes /\ row[i].source \in Sources
  BY VerifiedType, ActiveType DEF IndInv
<1>2. row' = [row EXCEPT ![i] = Row(row[i].source, "promoted", row[i].smoke)]
  BY DEF Approve
<1>3. /\ row' \in [Ids -> Rows \cup {None}]
      /\ row'[i] # None
      /\ row'[i].source = row[i].source /\ row'[i].status = "promoted"
      /\ row'[i].smoke = row[i].smoke
      /\ \A j \in Ids : j # i => row'[j] = row[j]
  <2> DEFINE s == row[i].source
             m == row[i].smoke
  <2>1. TypeOK /\ s \in Sources /\ m \in Smokes \cup {None}
    BY <1>1 DEF IndInv
  <2>2. row' = [row EXCEPT ![i] = Row(s, "promoted", m)]
    BY <1>2
  <2> HIDE DEF s, m
  <2>3. /\ row' \in [Ids -> Rows \cup {None}]
        /\ row'[i] # None
        /\ row'[i].source = s /\ row'[i].status = "promoted" /\ row'[i].smoke = m
        /\ \A j \in Ids : j # i => row'[j] = row[j]
    BY <2>1, <2>2, PutRow
  <2> QED
    BY <2>3 DEF s, m
<1>4. a \in Approvals
  BY <1>1 DEF Approvals, Smokes
<1>5. approval' = approval \cup {a}
  BY DEF Approve
<1>6. a.harness = i /\ a.source = row[i].smoke.source
      /\ a.binary = row[i].smoke.binary /\ a.kind = kind
  OBVIOUS
<1> HIDE DEF a
<1> QED
  BY <1>3, <1>4, <1>5, <1>6 DEF IndInv, TypeOK

\* A compiled revision is recorded with the source its build was given.
LEMMA CompiledRow ==
  ASSUME RevisionAssumption, IndInv, NEW c \in Clients, UpsertCompiled(c)
  PROVE  LET i == op[c].id IN
         /\ i \in Ids
         /\ row' \in [Ids -> Rows \cup {None}]
         /\ row'[i] # None
         /\ row'[i].source = built[i] /\ row'[i].status = "compiled"
         /\ row'[i].smoke = None
         /\ \A j \in Ids : j # i => row'[j] = row[j]
<1> DEFINE i == op[c].id
           s == op[c].src
<1>1. i \in Ids /\ s \in Sources /\ built[i] = s
  BY DEF UpsertCompiled, IndInv, OpRests, Building
<1>2. TypeOK /\ row' = [row EXCEPT ![i] = Row(s, "compiled", None)]
  BY DEF UpsertCompiled, IndInv
<1> HIDE DEF i, s
<1>3. /\ row' \in [Ids -> Rows \cup {None}]
      /\ row'[i] # None
      /\ row'[i].source = s /\ row'[i].status = "compiled" /\ row'[i].smoke = None
      /\ \A j \in Ids : j # i => row'[j] = row[j]
  BY <1>1, <1>2, PutRow
<1> QED
  BY <1>1, <1>3 DEF i, s

\* A smoke starts on the very bytes its review allowed.
LEMMA SmokeRun ==
  ASSUME RevisionAssumption, IndInv, NEW c \in Clients, SmokeStarts(c)
  PROVE  LET i == op[c].id IN
         /\ i \in Ids /\ row[i] # None
         /\ Allows(i, src, bin)
         /\ \E r \in Runs :
               /\ run' \in [Runs -> RunRows \cup {None}]
               /\ run[r] = None /\ run'[r] # None
               /\ run'[r].kind = "smoke" /\ run'[r].status = "running"
               /\ run'[r].harness = i /\ run'[r].source = src /\ run'[r].binary = bin
               /\ \A q \in Runs : q # r => run'[q] = run[q]
               /\ op'[c].at = "smoking" /\ op'[c].run = r /\ op'[c].id = i
<1> DEFINE i == op[c].id
<1>1. i \in Ids /\ ActiveIs(i) /\ bin \in Ids /\ op[c] \in Ops /\ TypeOK
  BY DEF SmokeStarts, SmokeAdmits, Runnable, IndInv, TypeOK, OpRests
<1>2. src \in Sources /\ row[i] # None
  BY <1>1, ActiveType DEF ActiveIs
<1>3. Allows(i, src, bin)
  BY DEF SmokeStarts, SmokeAdmits, IndInv, OpRests
<1>4. PICK r \in Runs :
        /\ NextRun(r)
        /\ run' = [run EXCEPT ![r] = Run("smoke", "running", i, src, bin, None)]
        /\ Goto(c, [op[c] EXCEPT !.at = "smoking", !.run = r])
  BY DEF SmokeStarts
<1>5. op'[c].at = "smoking" /\ op'[c].run = r /\ op'[c].id = i
  BY <1>1, <1>4 DEF Goto, TypeOK, Ops
<1> HIDE DEF i
<1>6. /\ run' \in [Runs -> RunRows \cup {None}]
      /\ run[r] = None /\ run'[r] # None
      /\ run'[r].kind = "smoke" /\ run'[r].status = "running"
      /\ run'[r].harness = i /\ run'[r].source = src /\ run'[r].binary = bin
      /\ \A q \in Runs : q # r => run'[q] = run[q]
  <2> DEFINE x == Run("smoke", "running", i, src, bin, None)
  <2>1. /\ x \in RunRows /\ x # None
        /\ x.kind = "smoke" /\ x.status = "running" /\ x.harness = i
        /\ x.source = src /\ x.binary = bin
    BY <1>1, <1>2, <1>4, RunFacts
  <2>2. run' = [run EXCEPT ![r] = x] /\ run[r] = None
    BY <1>4 DEF NextRun
  <2> HIDE DEF x
  <2> QED
    BY <1>1, <1>2, <1>4, <2>1, <2>2 DEF TypeOK
<1> QED
  BY <1>1, <1>2, <1>3, <1>5, <1>6 DEF i

\* A campaign starts on the very bytes its revision is promoted for.
LEMMA CampaignRun ==
  ASSUME RevisionAssumption, IndInv, NEW c \in Clients, StartCampaign(c)
  PROVE  \E i \in Ids, r \in Runs :
            /\ row[i] # None /\ row[i].status = "promoted"
            /\ row[i].smoke.source = src /\ row[i].smoke.binary = bin
            /\ run' \in [Runs -> RunRows \cup {None}]
            /\ run[r] = None /\ run'[r] # None
            /\ run'[r].kind = "campaign" /\ run'[r].status = "running"
            /\ run'[r].harness = i /\ run'[r].source = src /\ run'[r].binary = bin
            /\ \A q \in Runs : q # r => run'[q] = run[q]
            /\ op'[c].at = "campaign" /\ op'[c].run = r
<1>1. PICK i \in Ids, r \in Runs :
        /\ ActiveIs(i)
        /\ row[i].status = "promoted"
        /\ Verified(i)
        /\ NextRun(r)
        /\ run' = [run EXCEPT ![r] = Run("campaign", "running", i, src, bin, None)]
        /\ Goto(c, [Idle EXCEPT !.at = "campaign", !.id = i, !.src = src,
                    !.bin = bin, !.run = r])
  BY DEF StartCampaign
<1>2. TypeOK
  BY DEF IndInv
<1>3. /\ src \in Sources /\ bin \in Ids /\ row[i] # None
      /\ row[i].smoke.source = src /\ row[i].smoke.binary = bin
  BY <1>1, <1>2, VerifiedType DEF ActiveIs
<1>4. op'[c].at = "campaign" /\ op'[c].run = r
  BY <1>1, <1>2 DEF Goto, TypeOK, Idle
<1>5. /\ run' \in [Runs -> RunRows \cup {None}]
      /\ run[r] = None /\ run'[r] # None
      /\ run'[r].kind = "campaign" /\ run'[r].status = "running"
      /\ run'[r].harness = i /\ run'[r].source = src /\ run'[r].binary = bin
      /\ \A q \in Runs : q # r => run'[q] = run[q]
  <2> DEFINE x == Run("campaign", "running", i, src, bin, None)
  <2>1. /\ x \in RunRows /\ x # None
        /\ x.kind = "campaign" /\ x.status = "running" /\ x.harness = i
        /\ x.source = src /\ x.binary = bin
    BY <1>1, <1>2, <1>3, RunFacts
  <2>2. run' = [run EXCEPT ![r] = x] /\ run[r] = None
    BY <1>1 DEF NextRun
  <2> HIDE DEF x
  <2> QED
    BY <1>1, <1>2, <1>3, <2>1, <2>2 DEF TypeOK
<1> QED
  BY <1>1, <1>3, <1>4, <1>5

\* Every step keeps the shapes.
LEMMA TypeKeeps ==
  ASSUME RevisionAssumption, IndInv, NEW c \in Clients, Works(c)
  PROVE  TypeOK'
<1>1. ASSUME NEW from \in {"idle", "queued"}, NEW t \in Tasks \cup {None}, NEW s \in Sources, CompileAs(c, from, t, s) PROVE TypeOK'
  <2>1. PICK i \in Ids : built' = [built EXCEPT ![i] = s]
                        /\ Goto(c, [Idle EXCEPT !.at = "build", !.task = t, !.id = i, !.src = s])
    BY <1>1 DEF CompileAs
  <2>2. [Idle EXCEPT !.at = "build", !.task = t, !.id = i, !.src = s] \in Ops
    BY IdleType DEF Ops, Places
  <2>3. op' \in [Clients -> Ops]
    BY <2>1, <2>2, GotoType DEF IndInv
  <2> QED
    BY <1>1, <2>1, <2>3 DEF CompileAs, IndInv, TypeOK, files, tables
<1>2. ASSUME Build(c) PROVE TypeOK'
  <2>1. op[c] \in Ops
    BY DEF IndInv, TypeOK
  <2>2. [op[c] EXCEPT !.at = "upsert"] \in Ops
    BY <2>1 DEF Ops, Places
  <2>3. op' \in [Clients -> Ops]
    BY <1>2, <2>2, GotoType DEF Build, IndInv
  <2>4. op[c].id \in Ids
    BY <1>2 DEF Build, IndInv, OpRests, Building
  <2> QED
    BY <1>2, <2>3, <2>4 DEF Build, IndInv, TypeOK, files, tables
<1>3. ASSUME BuildFails(c) PROVE TypeOK'
  <2>1. op' \in [Clients -> Ops]
    BY <1>3, FinishType DEF BuildFails, Release, Places, Waiting, IndInv
  <2> QED
    BY <1>3, <2>1 DEF BuildFails, IndInv, TypeOK, files, tables, Release
<1>4. ASSUME BuildRepaired(c) PROVE TypeOK'
  <2>1. PICK i \in Ids, s \in Sources : /\ built' = [built EXCEPT ![i] = s]
                                        /\ Goto(c, [op[c] EXCEPT !.id = i, !.src = s])
    BY <1>4 DEF BuildRepaired
  <2>2. op[c] \in Ops
    BY DEF IndInv, TypeOK
  <2>3. [op[c] EXCEPT !.id = i, !.src = s] \in Ops
    BY <2>2 DEF Ops
  <2>4. op' \in [Clients -> Ops]
    BY <2>1, <2>3, GotoType DEF IndInv
  <2> QED
    BY <1>4, <2>1, <2>4 DEF BuildRepaired, IndInv, TypeOK, files, tables
<1>5. ASSUME CompanionFails(c) PROVE TypeOK'
  <2>1. op' \in [Clients -> Ops]
    BY <1>5, FinishType DEF CompanionFails, Release, Places, Waiting, IndInv
  <2>2. left' \in [Faults -> Nat]
    BY <1>5, SpendType DEF CompanionFails, IndInv
  <2>3. op[c].id \in Ids
    BY <1>5 DEF CompanionFails, IndInv, OpRests, Building
  <2> QED
    BY <1>5, <2>1, <2>2, <2>3 DEF CompanionFails, IndInv, TypeOK, files, tables, Release
<1>6. ASSUME UpsertCompiled(c) PROVE TypeOK'
  <2>1. op[c] \in Ops
    BY DEF IndInv, TypeOK
  <2>2. [op[c] EXCEPT !.at = "source"] \in Ops
    BY <2>1 DEF Ops, Places
  <2>3. op' \in [Clients -> Ops]
    BY <1>6, <2>2, GotoType DEF UpsertCompiled, IndInv
  <2>4. op[c].id \in Ids /\ op[c].src \in Sources
    BY <1>6 DEF UpsertCompiled, IndInv, OpRests, Building
  <2>5. row' \in [Ids -> Rows \cup {None}]
    BY <1>6, <2>4, PutRow DEF UpsertCompiled, IndInv
  <2> QED
    BY <1>6, <2>3, <2>5 DEF UpsertCompiled, IndInv, TypeOK, files, tables
<1>7. ASSUME WriteSource(c) PROVE TypeOK'
  <2>1. op[c] \in Ops
    BY DEF IndInv, TypeOK
  <2>2. [op[c] EXCEPT !.at = "marker"] \in Ops
    BY <2>1 DEF Ops, Places
  <2>3. op' \in [Clients -> Ops]
    BY <1>7, <2>2, GotoType DEF WriteSource, IndInv
  <2>4. op[c].src \in Sources
    BY <1>7 DEF WriteSource, IndInv, OpRests, Building
  <2> QED
    BY <1>7, <2>3, <2>4 DEF WriteSource, IndInv, TypeOK, files, tables
<1>8. ASSUME WriteMarker(c) PROVE TypeOK'
  <2>1. op' \in [Clients -> Ops]
    BY <1>8, FinishType DEF WriteMarker, Release, Places, Waiting, IndInv
  <2>3. op[c].id \in Ids
    BY <1>8 DEF WriteMarker, IndInv, OpRests, Building
  <2> QED
    BY <1>8, <2>1, <2>3 DEF WriteMarker, IndInv, TypeOK, files, tables, Release
<1>9. ASSUME CompileWriteFails(c) PROVE TypeOK'
  <2>1. op' \in [Clients -> Ops]
    <3>1. CASE op[c].at = "upsert"
      BY <1>9, <3>1, FinishType DEF CompileWriteFails, Release, Places, Waiting, IndInv
    <3>2. CASE op[c].at # "upsert"
      BY <1>9, <3>2, FinishType DEF CompileWriteFails, Release, Places, Waiting, IndInv
    <3> QED
      BY <3>1, <3>2
  <2>2. left' \in [Faults -> Nat]
    BY <1>9, SpendType DEF CompileWriteFails, IndInv
  <2> QED
    BY <1>9, <2>1, <2>2 DEF CompileWriteFails, Release, IndInv, TypeOK, files, tables
<1>10. ASSUME StartSmoke(c) PROVE TypeOK'
  <2>1. PICK i \in Ids : Goto(c, [Idle EXCEPT !.at = "review", !.id = i])
    BY <1>10 DEF StartSmoke
  <2>2. [Idle EXCEPT !.at = "review", !.id = i] \in Ops
    BY IdleType DEF Ops, Places, Waiting
  <2>3. op' \in [Clients -> Ops]
    BY <2>1, <2>2, GotoType DEF IndInv
  <2> QED
    BY <1>10, <2>3 DEF StartSmoke, IndInv, TypeOK, files, tables
<1>11. ASSUME ReviewReused(c) PROVE TypeOK'
  <2>1. op' \in [Clients -> Ops]
    BY <1>11, ReviewedType DEF ReviewReused, Runnable
  <2> QED
    BY <1>11, <2>1 DEF ReviewReused, IndInv, TypeOK, files, tables
<1>12. ASSUME NEW v \in Verdicts, ReviewMade(c, v) PROVE TypeOK'
  <2>1. op[c].id \in Ids /\ ActiveIs(op[c].id) /\ bin \in Ids
    BY <1>12 DEF ReviewMade, InReview, Runnable, IndInv, TypeOK, OpRests
  <2>2. op' \in [Clients -> Ops]
    <3>1. CASE v = "refused"
      BY <1>12, <3>1, FinishType DEF ReviewMade, Places, IndInv
    <3>2. CASE v # "refused"
      BY <1>12, <3>2, ReviewedType DEF ReviewMade, Runnable
    <3> QED
      BY <3>1, <3>2
  <2>3. [source |-> row[op[c].id].source, binary |-> bin, verdict |-> v] \in Reviews
    BY <2>1, ActiveType DEF IndInv, Reviews
  <2>4. review' \in [Ids -> Reviews \cup {None}]
    BY <1>12, <2>1, <2>3 DEF ReviewMade, IndInv, TypeOK
  <2> QED
    BY <1>12, <2>2, <2>4 DEF ReviewMade, IndInv, TypeOK, files
<1>13. ASSUME ReviewFails(c) PROVE TypeOK'
  <2>1. op' \in [Clients -> Ops]
    BY <1>13, FinishType DEF ReviewFails, Release, Places, Waiting, IndInv
  <2> QED
    BY <1>13, <2>1 DEF ReviewFails, IndInv, TypeOK, files, tables
<1>14. ASSUME SmokeStarts(c) PROVE TypeOK'
  <2>1. run' \in [Runs -> RunRows \cup {None}]
    BY <1>14, SmokeRun
  <2>2. PICK r \in Runs : Goto(c, [op[c] EXCEPT !.at = "smoking", !.run = r])
    BY <1>14 DEF SmokeStarts
  <2>3. op[c] \in Ops
    BY DEF IndInv, TypeOK
  <2>4. [op[c] EXCEPT !.at = "smoking", !.run = r] \in Ops
    BY <2>3 DEF Ops, Places
  <2>5. op' \in [Clients -> Ops]
    BY <2>2, <2>4, GotoType DEF IndInv
  <2> QED
    BY <1>14, <2>1, <2>5 DEF SmokeStarts, IndInv, TypeOK, files
<1>15. ASSUME SmokeRefused(c) PROVE TypeOK'
  <2>1. op' \in [Clients -> Ops]
    BY <1>15, FinishType DEF SmokeRefused, Release, Places, Waiting, IndInv
  <2> QED
    BY <1>15, <2>1 DEF SmokeRefused, IndInv, TypeOK, files, tables
<1>16. ASSUME NEW s \in Results, SmokeRan(c, s) PROVE TypeOK'
  <2>1. op[c] \in Ops
    BY DEF IndInv, TypeOK
  <2>2. [op[c] EXCEPT !.at = "save"] \in Ops
    BY <2>1 DEF Ops, Places
  <2>3. op' \in [Clients -> Ops]
    BY <1>16, <2>2, GotoType DEF SmokeRan, IndInv
  <2>4. op[c].run \in Runs /\ run[op[c].run] # None
    BY <1>16, OwnRun DEF SmokeRan
  <2>5. run' \in [Runs -> RunRows \cup {None}]
    BY <1>16, <2>4, EndRun DEF SmokeRan, IndInv
  <2> QED
    BY <1>16, <2>3, <2>5 DEF SmokeRan, IndInv, TypeOK, files, tables
<1>17. ASSUME SmokeFails(c) PROVE TypeOK'
  <2>1. op' \in [Clients -> Ops]
    BY <1>17, FinishType DEF SmokeFails, Release, Places, IndInv
  <2>2. op[c].run \in Runs /\ run[op[c].run] # None
    BY <1>17, OwnRun DEF SmokeFails
  <2>3. run' \in [Runs -> RunRows \cup {None}]
    BY <1>17, <2>2, EndRun DEF SmokeFails, IndInv
  <2> QED
    BY <1>17, <2>1, <2>3 DEF SmokeFails, Release, IndInv, TypeOK, files
<1>18. ASSUME SmokeSaved(c) PROVE TypeOK'
  <2>1. op' \in [Clients -> Ops]
    BY <1>18, FinishType DEF SmokeSaved, Release, Places, IndInv
  <2>2. row' \in [Ids -> Rows \cup {None}]
    BY <1>18, SavedRow
  <2> QED
    BY <1>18, <2>1, <2>2 DEF SmokeSaved, Release, IndInv, TypeOK, files
<1>19. ASSUME SmokeSaveFails(c) PROVE TypeOK'
  <2>1. op' \in [Clients -> Ops]
    BY <1>19, FinishType DEF SmokeSaveFails, Release, Places, Waiting, IndInv
  <2>2. left' \in [Faults -> Nat]
    BY <1>19, SpendType DEF SmokeSaveFails, IndInv
  <2> QED
    BY <1>19, <2>1, <2>2 DEF SmokeSaveFails, IndInv, TypeOK, files, tables, Release
<1>20. ASSUME StartPromote(c) PROVE TypeOK'
  <2>1. PICK i \in Ids :
          /\ ActiveIs(i)
          /\ row[i].smoke # None
          /\ Goto(c, [Idle EXCEPT !.at = "promote", !.id = i,
                      !.src = row[i].smoke.source, !.bin = row[i].smoke.binary])
    BY <1>20 DEF StartPromote
  <2>2. row[i].smoke \in Smokes
    BY <2>1, ActiveType DEF IndInv, Rows
  <2>3. row[i].smoke.source \in Sources /\ row[i].smoke.binary \in Ids
    BY <2>2 DEF Smokes
  <2>4. [Idle EXCEPT !.at = "promote", !.id = i,
          !.src = row[i].smoke.source, !.bin = row[i].smoke.binary] \in Ops
    BY <2>3, IdleType DEF Ops, Places, Waiting
  <2>5. op' \in [Clients -> Ops]
    BY <2>1, <2>4, GotoType DEF IndInv
  <2> QED
    BY <1>20, <2>5 DEF StartPromote, IndInv, TypeOK, files, tables
<1>21. ASSUME Promote(c) PROVE TypeOK'
  <2>1. op' \in [Clients -> Ops]
    BY <1>21, FinishType DEF Promote, Places, IndInv
  <2>2. op[c].id \in Ids /\ ActiveIs(op[c].id) /\ Verified(op[c].id)
    BY <1>21 DEF Promote, PromoteAdmits, IndInv, OpRests
  <2>3. row' \in [Ids -> Rows \cup {None}] /\ approval' \subseteq Approvals
    BY <1>21, <2>2, ApproveFacts DEF Promote
  <2> QED
    BY <1>21, <2>1, <2>3 DEF Promote, IndInv, TypeOK, files
<1>22. ASSUME PromoteFails(c) PROVE TypeOK'
  <2>1. op' \in [Clients -> Ops]
    BY <1>22, FinishType DEF PromoteFails, Release, Places, Waiting, IndInv
  <2> QED
    BY <1>22, <2>1 DEF PromoteFails, IndInv, TypeOK, files, tables
<1>23. ASSUME PromoteWithFindings(c) PROVE TypeOK'
  <2>1. PICK i \in Ids : ActiveIs(i) /\ Verified(i) /\ Approve(i, "known_findings")
    BY <1>23 DEF PromoteWithFindings
  <2>2. row' \in [Ids -> Rows \cup {None}] /\ approval' \subseteq Approvals
    BY <2>1, ApproveFacts
  <2> QED
    BY <1>23, <2>2 DEF PromoteWithFindings, IndInv, TypeOK, files
<1>24. ASSUME StartCampaign(c) PROVE TypeOK'
  <2>1. PICK i \in Ids, r \in Runs :
          /\ ActiveIs(i)
          /\ Verified(i)
          /\ Goto(c, [Idle EXCEPT !.at = "campaign", !.id = i, !.src = src,
                      !.bin = bin, !.run = r])
    BY <1>24 DEF StartCampaign
  <2>2. src \in Sources /\ bin \in Ids
    BY <2>1, VerifiedType DEF IndInv
  <2>3. run' \in [Runs -> RunRows \cup {None}]
    BY <1>24, CampaignRun
  <2>4. [Idle EXCEPT !.at = "campaign", !.id = i, !.src = src, !.bin = bin, !.run = r] \in Ops
    BY <2>2, IdleType DEF Ops, Places
  <2>5. op' \in [Clients -> Ops]
    BY <2>1, <2>4, GotoType DEF IndInv
  <2> QED
    BY <1>24, <2>3, <2>5 DEF StartCampaign, IndInv, TypeOK, files
<1>25. ASSUME NEW s \in {"done", "failed"}, CampaignEnds(c, s) PROVE TypeOK'
  <2>1. op' \in [Clients -> Ops]
    BY <1>25, FinishType DEF CampaignEnds, Release, Places, IndInv
  <2>2. op[c].run \in Runs /\ run[op[c].run] # None
    BY <1>25, OwnRun DEF CampaignEnds
  <2>3. run' \in [Runs -> RunRows \cup {None}]
    BY <1>25, <2>2, EndRun DEF CampaignEnds, IndInv
  <2> QED
    BY <1>25, <2>1, <2>3 DEF CampaignEnds, Release, IndInv, TypeOK, files
<1>26. ASSUME CampaignRegressed(c) PROVE TypeOK'
  <2>1. PICK r \in 1..(op[c].run - 1) :
          Goto(c, [Idle EXCEPT !.at = "revert", !.run = r,
                   !.back = [id |-> op[c].id, src |-> op[c].src, bin |-> op[c].bin]])
    BY <1>26 DEF CampaignRegressed
  <2>2. op[c].run \in Runs /\ run[op[c].run] # None
    BY <1>26, OwnRun DEF CampaignRegressed
  <2>3. r \in Runs
    BY <2>1, <2>2 DEF Runs, RevisionAssumption
  <2>4. op[c] \in Ops
    BY DEF IndInv, TypeOK
  <2>5. [id |-> op[c].id, src |-> op[c].src, bin |-> op[c].bin] \in Files
    BY <2>4 DEF Ops, Files
  <2>6. [Idle EXCEPT !.at = "revert", !.run = r,
          !.back = [id |-> op[c].id, src |-> op[c].src, bin |-> op[c].bin]] \in Ops
    BY <2>3, <2>5, IdleType DEF Ops, Places
  <2>7. op' \in [Clients -> Ops]
    BY <2>1, <2>6, GotoType DEF IndInv
  <2>8. run' \in [Runs -> RunRows \cup {None}]
    BY <1>26, <2>2, EndRun DEF CampaignRegressed, IndInv
  <2> QED
    BY <1>26, <2>7, <2>8 DEF CampaignRegressed, IndInv, TypeOK, files
<1>27. ASSUME StartRevert(c) PROVE TypeOK'
  <2>1. PICK r \in Runs : Goto(c, [Idle EXCEPT !.at = "revert", !.run = r])
    BY <1>27 DEF StartRevert
  <2>2. [Idle EXCEPT !.at = "revert", !.run = r] \in Ops
    BY IdleType DEF Ops, Places
  <2>3. op' \in [Clients -> Ops]
    BY <2>1, <2>2, GotoType DEF IndInv
  <2> QED
    BY <1>27, <2>3 DEF StartRevert, IndInv, TypeOK, files, tables
<1>28. ASSUME RevertRead(c) PROVE TypeOK'
  <2>1. op' \in [Clients -> Ops]
    <3>1. CASE RevertAdmits(c)
      <4>1. run[op[c].run] \in RunRows /\ op[c] \in Ops
        BY <1>28 DEF RevertRead, IndInv, TypeOK, OpRests
      <4>2. run[op[c].run].harness \in Ids /\ run[op[c].run].source \in Sources
            /\ run[op[c].run].binary \in Ids
        BY <4>1 DEF RunRows
      <4>3. [op[c] EXCEPT !.at = "restore", !.id = run[op[c].run].harness,
              !.src = run[op[c].run].source, !.bin = run[op[c].run].binary] \in Ops
        BY <4>1, <4>2 DEF Ops, Places, Waiting
      <4> QED
        BY <1>28, <3>1, <4>3, GotoType DEF RevertRead, IndInv
    <3>2. CASE ~RevertAdmits(c)
      BY <1>28, <3>2, FinishType DEF RevertRead, Places, IndInv
    <3> QED
      BY <3>1, <3>2
  <2> QED
    BY <1>28, <2>1 DEF RevertRead, IndInv, TypeOK, files, tables
<1>29. ASSUME RestoreBinary(c) PROVE TypeOK'
  <2>1. op[c] \in Ops /\ op[c].bin \in Ids
    BY <1>29 DEF RestoreBinary, IndInv, TypeOK, OpRests
  <2>2. [id |-> active, src |-> src, bin |-> bin] \in Files
    BY DEF IndInv, TypeOK, Files
  <2>3. [op[c] EXCEPT !.at = "restore_source",
          !.back = [id |-> active, src |-> src, bin |-> bin]] \in Ops
    BY <2>1, <2>2 DEF Ops, Places
  <2>4. op' \in [Clients -> Ops]
    BY <1>29, <2>3, GotoType DEF RestoreBinary, IndInv
  <2> QED
    BY <1>29, <2>1, <2>4 DEF RestoreBinary, IndInv, TypeOK, tables
<1>30. ASSUME RestoreRefused(c) PROVE TypeOK'
  <2>1. op' \in [Clients -> Ops]
    BY <1>30, FinishType DEF RestoreRefused, Release, Places, Waiting, IndInv
  <2> QED
    BY <1>30, <2>1 DEF RestoreRefused, IndInv, TypeOK, files, tables
<1>31. ASSUME RestoreSource(c) PROVE TypeOK'
  <2>1. op[c] \in Ops
    BY DEF IndInv, TypeOK
  <2>2. [op[c] EXCEPT !.at = "restore_marker"] \in Ops
    BY <2>1 DEF Ops, Places
  <2>3. op' \in [Clients -> Ops]
    BY <1>31, <2>2, GotoType DEF RestoreSource, IndInv
  <2>4. op[c].src \in Sources
    BY <1>31 DEF RestoreSource, IndInv, OpRests
  <2> QED
    BY <1>31, <2>3, <2>4 DEF RestoreSource, IndInv, TypeOK, files, tables
<1>32. ASSUME RestoreMarker(c) PROVE TypeOK'
  <2>1. op' \in [Clients -> Ops]
    BY <1>32, FinishType DEF RestoreMarker, Release, Places, Waiting, IndInv
  <2>3. op[c].id \in Ids
    BY <1>32 DEF RestoreMarker, IndInv, OpRests
  <2> QED
    BY <1>32, <2>1, <2>3 DEF RestoreMarker, IndInv, TypeOK, files, tables, Release
<1>33. ASSUME RestoreFails(c) PROVE TypeOK'
  <2>1. op' \in [Clients -> Ops]
    BY <1>33, FinishType DEF RestoreFails, Release, Places, Waiting, IndInv
  <2>2. left' \in [Faults -> Nat]
    BY <1>33, SpendType DEF RestoreFails, IndInv
  <2>3. op[c].back \in Files
    BY <1>33 DEF RestoreFails, IndInv, TypeOK, OpRests, Ops
  <2> QED
    BY <1>33, <2>1, <2>2, <2>3 DEF RestoreFails, IndInv, TypeOK, files, tables, Release, Files
<1>34. ASSUME LeaseBusy(c) PROVE TypeOK'
  <2>1. op' \in [Clients -> Ops]
    BY <1>34, FinishType DEF LeaseBusy, Release, Places, Waiting, IndInv
  <2> QED
    BY <1>34, <2>1 DEF LeaseBusy, IndInv, TypeOK, files, tables
<1>35. ASSUME Drop(c) PROVE TypeOK'
  <2>1. op' \in [Clients -> Ops]
    BY <1>35, IdleType, GotoType DEF Drop, IndInv
  <2>2. left' \in [Faults -> Nat]
    BY <1>35, SpendType DEF Drop, IndInv
  <2> QED
    BY <1>35, <2>1, <2>2 DEF Drop, IndInv, TypeOK, files, tables
<1> QED
  BY <1>1, <1>2, <1>3, <1>4, <1>5, <1>6, <1>7, <1>8, <1>9, <1>10, <1>11, <1>12, <1>13, <1>14, <1>15, <1>16, <1>17, <1>18, <1>19, <1>20, <1>21, <1>22, <1>23, <1>24, <1>25, <1>26, <1>27, <1>28, <1>29, <1>30, <1>31, <1>32, <1>33, <1>34, <1>35 DEF Works, Start, Step, Compile

\* No step takes away what a record rests on, or touches another operation, its
\* lease or the run it holds the lease for.
LEMMA Frames ==
  ASSUME RevisionAssumption, IndInv, NEW c \in Clients, Works(c)
  PROVE  Frame(c)
<1> USE RevisionAssumption DEF RevisionAssumption, IndInv, TypeOK, Frame, Grows, files, tables, Goto, Finish, Release, OpRests, Building, Holding
<1>1. ASSUME NEW from \in {"idle", "queued"}, NEW t \in Tasks \cup {None}, NEW s \in Sources, CompileAs(c, from, t, s) PROVE Frame(c)
  BY <1>1 DEF CompileAs, NextId
<1>2. ASSUME Build(c) PROVE Frame(c)
  BY <1>2 DEF Build
<1>3. ASSUME BuildFails(c) PROVE Frame(c)
  BY <1>3 DEF BuildFails
<1>4. ASSUME BuildRepaired(c) PROVE Frame(c)
  BY <1>4 DEF BuildRepaired, NextId
<1>5. ASSUME CompanionFails(c) PROVE Frame(c)
  BY <1>5 DEF CompanionFails, Spend
<1>6. ASSUME UpsertCompiled(c) PROVE Frame(c)
  <2>1. op[c].id \in Ids /\ row'[op[c].id] # None
        /\ \A j \in Ids : j # op[c].id => row'[j] = row[j]
    BY <1>6, CompiledRow
  <2> QED
    BY <1>6, <2>1 DEF UpsertCompiled
<1>7. ASSUME WriteSource(c) PROVE Frame(c)
  BY <1>7 DEF WriteSource
<1>8. ASSUME WriteMarker(c) PROVE Frame(c)
  BY <1>8 DEF WriteMarker
<1>9. ASSUME CompileWriteFails(c) PROVE Frame(c)
  BY <1>9 DEF CompileWriteFails, Spend
<1>10. ASSUME StartSmoke(c) PROVE Frame(c)
  BY <1>10 DEF StartSmoke, ActiveIs
<1>11. ASSUME ReviewReused(c) PROVE Frame(c)
  BY <1>11 DEF ReviewReused, InReview, Reviewed, Runnable, ActiveIs, ReviewBinds
<1>12. ASSUME NEW v \in Verdicts, ReviewMade(c, v) PROVE Frame(c)
  BY <1>12 DEF ReviewMade, InReview, Reviewed, Runnable, ActiveIs
<1>13. ASSUME ReviewFails(c) PROVE Frame(c)
  BY <1>13 DEF ReviewFails, InReview
<1>14. ASSUME SmokeStarts(c) PROVE Frame(c)
  BY <1>14 DEF SmokeStarts, SmokeAdmits, Runnable, ActiveIs, NextRun, Run
<1>15. ASSUME SmokeRefused(c) PROVE Frame(c)
  BY <1>15 DEF SmokeRefused
<1>16. ASSUME NEW s \in Results, SmokeRan(c, s) PROVE Frame(c)
  <2> DEFINE q == op[c].run
  <2>1. q \in Runs /\ run[q] # None /\ run[q].status = "running"
    BY <1>16, OwnRun DEF SmokeRan
  <2>2. /\ run'[q] # None
        /\ run'[q].kind = run[q].kind /\ run'[q].harness = run[q].harness
        /\ run'[q].source = run[q].source /\ run'[q].binary = run[q].binary
        /\ \A r \in Runs : r # q => run'[r] = run[r]
    BY <1>16, <2>1, EndRun DEF SmokeRan
  <2>3. lease = c
    BY <1>16 DEF SmokeRan
  <2>4. \A d \in Clients \ {c} : op'[d] = op[d]
    BY <1>16 DEF SmokeRan
  <2> HIDE DEF q
  <2> QED
    BY <1>16, <2>1, <2>2, <2>3, <2>4 DEF SmokeRan
<1>17. ASSUME SmokeFails(c) PROVE Frame(c)
  <2> DEFINE q == op[c].run
  <2>1. q \in Runs /\ run[q] # None /\ run[q].status = "running"
    BY <1>17, OwnRun DEF SmokeFails
  <2>2. /\ run'[q] # None
        /\ run'[q].kind = run[q].kind /\ run'[q].harness = run[q].harness
        /\ run'[q].source = run[q].source /\ run'[q].binary = run[q].binary
        /\ \A r \in Runs : r # q => run'[r] = run[r]
    BY <1>17, <2>1, EndRun DEF SmokeFails
  <2>3. lease = c
    BY <1>17 DEF SmokeFails
  <2>4. \A d \in Clients \ {c} : op'[d] = op[d]
    BY <1>17 DEF SmokeFails
  <2> HIDE DEF q
  <2> QED
    BY <1>17, <2>1, <2>2, <2>3, <2>4 DEF SmokeFails
<1>18. ASSUME SmokeSaved(c) PROVE Frame(c)
  <2>1. op[c].id \in Ids /\ row'[op[c].id] # None
        /\ \A j \in Ids : j # op[c].id => row'[j] = row[j]
    BY <1>18, SavedRow
  <2> QED
    BY <1>18, <2>1 DEF SmokeSaved
<1>19. ASSUME SmokeSaveFails(c) PROVE Frame(c)
  BY <1>19 DEF SmokeSaveFails, Spend
<1>20. ASSUME StartPromote(c) PROVE Frame(c)
  BY <1>20 DEF StartPromote, ActiveIs
<1>21. ASSUME Promote(c) PROVE Frame(c)
  <2>1. op[c].id \in Ids /\ ActiveIs(op[c].id) /\ Verified(op[c].id)
    BY <1>21 DEF Promote, PromoteAdmits
  <2>2. row'[op[c].id] # None /\ approval \subseteq approval'
        /\ \A j \in Ids : j # op[c].id => row'[j] = row[j]
    BY <1>21, <2>1, ApproveFacts DEF Promote
  <2> QED
    BY <1>21, <2>2 DEF Promote
<1>22. ASSUME PromoteFails(c) PROVE Frame(c)
  BY <1>22 DEF PromoteFails
<1>23. ASSUME PromoteWithFindings(c) PROVE Frame(c)
  <2>1. PICK i \in Ids : ActiveIs(i) /\ Verified(i) /\ Approve(i, "known_findings")
    BY <1>23 DEF PromoteWithFindings
  <2>2. row'[i] # None /\ approval \subseteq approval'
        /\ \A j \in Ids : j # i => row'[j] = row[j]
    BY <2>1, ApproveFacts
  <2> QED
    BY <1>23, <2>2 DEF PromoteWithFindings
<1>24. ASSUME StartCampaign(c) PROVE Frame(c)
  BY <1>24 DEF StartCampaign, ActiveIs, Verified, NextRun, Run
<1>25. ASSUME NEW s \in {"done", "failed"}, CampaignEnds(c, s) PROVE Frame(c)
  <2> DEFINE q == op[c].run
  <2>1. q \in Runs /\ run[q] # None /\ run[q].status = "running"
    BY <1>25, OwnRun DEF CampaignEnds
  <2>2. /\ run'[q] # None
        /\ run'[q].kind = run[q].kind /\ run'[q].harness = run[q].harness
        /\ run'[q].source = run[q].source /\ run'[q].binary = run[q].binary
        /\ \A r \in Runs : r # q => run'[r] = run[r]
    BY <1>25, <2>1, EndRun DEF CampaignEnds
  <2>3. lease = c
    BY <1>25 DEF CampaignEnds
  <2>4. \A d \in Clients \ {c} : op'[d] = op[d]
    BY <1>25 DEF CampaignEnds
  <2> HIDE DEF q
  <2> QED
    BY <1>25, <2>1, <2>2, <2>3, <2>4 DEF CampaignEnds
<1>26. ASSUME CampaignRegressed(c) PROVE Frame(c)
  <2> DEFINE q == op[c].run
  <2>1. q \in Runs /\ run[q] # None /\ run[q].status = "running"
    BY <1>26, OwnRun DEF CampaignRegressed
  <2>2. /\ run'[q] # None
        /\ run'[q].kind = run[q].kind /\ run'[q].harness = run[q].harness
        /\ run'[q].source = run[q].source /\ run'[q].binary = run[q].binary
        /\ \A r \in Runs : r # q => run'[r] = run[r]
    BY <1>26, <2>1, EndRun DEF CampaignRegressed
  <2>3. lease = c
    BY <1>26 DEF CampaignRegressed
  <2>4. \A d \in Clients \ {c} : op'[d] = op[d]
    BY <1>26 DEF CampaignRegressed
  <2> HIDE DEF q
  <2> QED
    BY <1>26, <2>1, <2>2, <2>3, <2>4 DEF CampaignRegressed
<1>27. ASSUME StartRevert(c) PROVE Frame(c)
  BY <1>27 DEF StartRevert
<1>28. ASSUME RevertRead(c) PROVE Frame(c)
  BY <1>28 DEF RevertRead, RevertAdmits
<1>29. ASSUME RestoreBinary(c) PROVE Frame(c)
  BY <1>29 DEF RestoreBinary
<1>30. ASSUME RestoreRefused(c) PROVE Frame(c)
  BY <1>30 DEF RestoreRefused
<1>31. ASSUME RestoreSource(c) PROVE Frame(c)
  BY <1>31 DEF RestoreSource
<1>32. ASSUME RestoreMarker(c) PROVE Frame(c)
  BY <1>32 DEF RestoreMarker
<1>33. ASSUME RestoreFails(c) PROVE Frame(c)
  BY <1>33 DEF RestoreFails, Spend
<1>34. ASSUME LeaseBusy(c) PROVE Frame(c)
  BY <1>34 DEF LeaseBusy, Waiting
<1>35. ASSUME Drop(c) PROVE Frame(c)
  BY <1>35 DEF Drop, Spend
<1> QED
  BY <1>1, <1>2, <1>3, <1>4, <1>5, <1>6, <1>7, <1>8, <1>9, <1>10, <1>11, <1>12, <1>13, <1>14, <1>15, <1>16, <1>17, <1>18, <1>19, <1>20, <1>21, <1>22, <1>23, <1>24, <1>25, <1>26, <1>27, <1>28, <1>29, <1>30, <1>31, <1>32, <1>33, <1>34, <1>35 DEF Works, Start, Step, Compile

\* The operation that makes the step has established what its next step needs.
LEMMA OwnRests ==
  ASSUME RevisionAssumption, IndInv, NEW c \in Clients, Works(c)
  PROVE  OpRests(c)'
<1> USE RevisionAssumption DEF RevisionAssumption, IndInv, TypeOK, files, tables, Goto, Finish, Release, Idle, OpRests, Allows, Building, Holding
<1>1. ASSUME NEW from \in {"idle", "queued"}, NEW t \in Tasks \cup {None}, NEW s \in Sources, CompileAs(c, from, t, s) PROVE OpRests(c)'
  BY <1>1 DEF CompileAs, NextId
<1>2. ASSUME Build(c) PROVE OpRests(c)'
  BY <1>2 DEF Build
<1>3. ASSUME BuildFails(c) PROVE OpRests(c)'
  BY <1>3 DEF BuildFails
<1>4. ASSUME BuildRepaired(c) PROVE OpRests(c)'
  BY <1>4 DEF BuildRepaired, NextId
<1>5. ASSUME CompanionFails(c) PROVE OpRests(c)'
  BY <1>5 DEF CompanionFails, Spend
<1>6. ASSUME UpsertCompiled(c) PROVE OpRests(c)'
  BY <1>6 DEF UpsertCompiled, Row
<1>7. ASSUME WriteSource(c) PROVE OpRests(c)'
  BY <1>7 DEF WriteSource
<1>8. ASSUME WriteMarker(c) PROVE OpRests(c)'
  BY <1>8 DEF WriteMarker
<1>9. ASSUME CompileWriteFails(c) PROVE OpRests(c)'
  BY <1>9 DEF CompileWriteFails, Spend
<1>10. ASSUME StartSmoke(c) PROVE OpRests(c)'
  BY <1>10 DEF StartSmoke, ActiveIs
<1>11. ASSUME ReviewReused(c) PROVE OpRests(c)'
  BY <1>11 DEF ReviewReused, InReview, Reviewed, Runnable, ActiveIs, ReviewBinds
<1>12. ASSUME NEW v \in Verdicts, ReviewMade(c, v) PROVE OpRests(c)'
  <2>1. op[c].id \in Ids /\ ActiveIs(op[c].id) /\ bin # None /\ InReview(c)
    BY <1>12 DEF ReviewMade, InReview, Runnable
  <2>2. CASE v = "refused"
    <3>1. "failed" \in Places
      BY DEF Places
    <3>2. op'[c].at \in {"idle", "failed"}
      BY <1>12, <2>2, <3>1, FinishType DEF ReviewMade
    <3> QED
      BY <3>2
  <2>3. CASE v # "refused"
    <3> DEFINE x == [source |-> row[op[c].id].source, binary |-> bin, verdict |-> v]
    <3>1. x.source = row[op[c].id].source /\ x.binary = bin /\ x.verdict = v
      OBVIOUS
    <3>2. review'[op[c].id] = x
      BY <1>12, <2>1 DEF ReviewMade
    <3>3. x \in Reviews
      BY <2>1, ActiveType DEF Reviews
    <3>4. x # None
      BY <3>3
    <3> HIDE DEF x
    <3>5. Reviewed(c)
      BY <1>12, <2>3 DEF ReviewMade
    <3>6. /\ op'[c].at \in {"smoke", "reviewed"}
          /\ op'[c].id = op[c].id
          /\ op'[c].src = row[op[c].id].source /\ op'[c].bin = bin
      BY <2>1, <3>5, ReviewedType
    <3> QED
      BY <2>1, <2>3, <3>1, <3>2, <3>4, <3>6
  <2> QED
    BY <2>2, <2>3
<1>13. ASSUME ReviewFails(c) PROVE OpRests(c)'
  BY <1>13 DEF ReviewFails, InReview
<1>14. ASSUME SmokeStarts(c) PROVE OpRests(c)'
  <2>1. lease' = c
    BY <1>14 DEF SmokeStarts
  <2>2. PICK r \in Runs :
          /\ run'[r] # None
          /\ run'[r].kind = "smoke" /\ run'[r].status = "running"
          /\ run'[r].harness = op[c].id
          /\ op'[c].at = "smoking" /\ op'[c].run = r /\ op'[c].id = op[c].id
    BY <1>14, SmokeRun
  <2>3. op[c].id \in Ids
    BY <1>14, SmokeRun
  <2> QED
    BY <2>1, <2>2, <2>3
<1>15. ASSUME SmokeRefused(c) PROVE OpRests(c)'
  BY <1>15 DEF SmokeRefused
<1>16. ASSUME NEW s \in Results, SmokeRan(c, s) PROVE OpRests(c)'
  <2> DEFINE q == op[c].run
  <2>1. /\ q \in Runs /\ run[q] # None /\ op[c].id \in Ids
        /\ run[q].kind = "smoke" /\ run[q].harness = op[c].id /\ lease = c
    BY <1>16 DEF SmokeRan
  <2>2. /\ run'[q] # None
        /\ run'[q].kind = run[q].kind /\ run'[q].harness = run[q].harness
        /\ run'[q].status = "done" /\ run'[q].result = s
    BY <1>16, <2>1, EndRun DEF SmokeRan
  <2>3. op[c] \in Ops
    OBVIOUS
  <2>4. op'[c].at = "save" /\ op'[c].run = q /\ op'[c].id = op[c].id
    BY <1>16, <2>3 DEF SmokeRan, Ops
  <2>5. lease' = c
    BY <1>16, <2>1 DEF SmokeRan
  <2>6. s # None
    OBVIOUS
  <2> HIDE DEF q
  <2> QED
    BY <2>1, <2>2, <2>4, <2>5, <2>6
<1>17. ASSUME SmokeFails(c) PROVE OpRests(c)'
  BY <1>17 DEF SmokeFails, SetRun, Run
<1>18. ASSUME SmokeSaved(c) PROVE OpRests(c)'
  BY <1>18 DEF SmokeSaved, Row, Smoke
<1>19. ASSUME SmokeSaveFails(c) PROVE OpRests(c)'
  BY <1>19 DEF SmokeSaveFails, Spend
<1>20. ASSUME StartPromote(c) PROVE OpRests(c)'
  BY <1>20 DEF StartPromote, ActiveIs
<1>21. ASSUME Promote(c) PROVE OpRests(c)'
  <2>1. op'[c].at \in {"idle", "promoted"}
    BY <1>21 DEF Promote
  <2> QED
    BY <2>1
<1>22. ASSUME PromoteFails(c) PROVE OpRests(c)'
  BY <1>22 DEF PromoteFails
<1>23. ASSUME PromoteWithFindings(c) PROVE OpRests(c)'
  BY <1>23 DEF PromoteWithFindings, Approve, Verified, ActiveIs, Row
<1>24. ASSUME StartCampaign(c) PROVE OpRests(c)'
  <2>1. lease' = c
    BY <1>24 DEF StartCampaign
  <2>2. PICK r \in Runs :
          /\ run'[r] # None /\ run'[r].status = "running"
          /\ op'[c].at = "campaign" /\ op'[c].run = r
    BY <1>24, CampaignRun
  <2> QED
    BY <2>1, <2>2
<1>25. ASSUME NEW s \in {"done", "failed"}, CampaignEnds(c, s) PROVE OpRests(c)'
  BY <1>25 DEF CampaignEnds, SetRun, Run
<1>26. ASSUME CampaignRegressed(c) PROVE OpRests(c)'
  <2> DEFINE q == op[c].run
  <2>1. PICK r \in 1..(q - 1) :
          /\ run[r] # None
          /\ op' = [op EXCEPT ![c] = [Idle EXCEPT !.at = "revert", !.run = r,
                     !.back = [id |-> op[c].id, src |-> op[c].src, bin |-> op[c].bin]]]
    BY <1>26 DEF CampaignRegressed
  <2>2. q \in Runs /\ run[q] # None
    BY <1>26, OwnRun DEF CampaignRegressed
  <2>3. r \in Runs
    BY <2>1, <2>2 DEF Runs
  <2>4. run'[r] # None
    BY <1>26, <2>1, <2>2, <2>3, EndRun DEF CampaignRegressed
  <2>5. op'[c].at = "revert" /\ op'[c].run = r
    BY <2>1
  <2> QED
    BY <2>3, <2>4, <2>5
<1>27. ASSUME StartRevert(c) PROVE OpRests(c)'
  BY <1>27 DEF StartRevert
<1>28. ASSUME RevertRead(c) PROVE OpRests(c)'
  <2>1. CASE RevertAdmits(c)
    <3> DEFINE r == run[op[c].run]
    <3>1. r \in RunRows /\ op[c] \in Ops
      BY <1>28 DEF RevertRead
    <3>2. r.harness \in Ids /\ r.source \in Sources /\ r.binary \in Ids
      BY <3>1 DEF RunRows
    <3>3. op' = [op EXCEPT ![c] = [op[c] EXCEPT !.at = "restore", !.id = r.harness,
                                    !.src = r.source, !.bin = r.binary]]
      BY <1>28, <2>1 DEF RevertRead
    <3> HIDE DEF r
    <3>4. op'[c].at = "restore" /\ op'[c].id = r.harness /\ op'[c].src = r.source
          /\ op'[c].bin = r.binary
      BY <3>1, <3>3 DEF Ops
    <3> QED
      BY <3>2, <3>4
  <2>2. CASE ~RevertAdmits(c)
    <3>1. "failed" \in Places
      BY DEF Places
    <3>2. op'[c].at \in {"idle", "failed"}
      BY <1>28, <2>2, <3>1, FinishType DEF RevertRead
    <3> QED
      BY <3>2
  <2> QED
    BY <2>1, <2>2
<1>29. ASSUME RestoreBinary(c) PROVE OpRests(c)'
  <2> DEFINE b == [id |-> active, src |-> src, bin |-> bin]
  <2>1. op[c] \in Ops /\ op[c].id \in Ids /\ op[c].src \in Sources /\ op[c].bin \in Ids
    BY <1>29 DEF RestoreBinary
  <2>2. b \in Files
    BY DEF Files
  <2>3. b # None
    BY <2>2
  <2>4. op' = [op EXCEPT ![c] = [op[c] EXCEPT !.at = "restore_source", !.back = b]]
    BY <1>29 DEF RestoreBinary
  <2> HIDE DEF b
  <2>5. op'[c].at = "restore_source" /\ op'[c].id = op[c].id /\ op'[c].src = op[c].src
        /\ op'[c].bin = op[c].bin /\ op'[c].back = b
    BY <2>1, <2>4 DEF Ops
  <2>6. lease' = c
    BY <1>29 DEF RestoreBinary
  <2> QED
    BY <2>1, <2>3, <2>5, <2>6
<1>30. ASSUME RestoreRefused(c) PROVE OpRests(c)'
  BY <1>30 DEF RestoreRefused
<1>31. ASSUME RestoreSource(c) PROVE OpRests(c)'
  BY <1>31 DEF RestoreSource
<1>32. ASSUME RestoreMarker(c) PROVE OpRests(c)'
  BY <1>32 DEF RestoreMarker
<1>33. ASSUME RestoreFails(c) PROVE OpRests(c)'
  BY <1>33 DEF RestoreFails, Spend
<1>34. ASSUME LeaseBusy(c) PROVE OpRests(c)'
  BY <1>34 DEF LeaseBusy, Waiting
<1>35. ASSUME Drop(c) PROVE OpRests(c)'
  BY <1>35 DEF Drop, Spend
<1> QED
  BY <1>1, <1>2, <1>3, <1>4, <1>5, <1>6, <1>7, <1>8, <1>9, <1>10, <1>11, <1>12, <1>13, <1>14, <1>15, <1>16, <1>17, <1>18, <1>19, <1>20, <1>21, <1>22, <1>23, <1>24, <1>25, <1>26, <1>27, <1>28, <1>29, <1>30, <1>31, <1>32, <1>33, <1>34, <1>35 DEF Works, Start, Step, Compile

\* What a step writes to the tables rests on what is there.
LEMMA TablesRest ==
  ASSUME RevisionAssumption, IndInv, NEW c \in Clients, Works(c)
  PROVE  TablesStep
<1> USE RevisionAssumption DEF RevisionAssumption, IndInv, TypeOK, TablesStep, files, tables
<1>1. ASSUME NEW from \in {"idle", "queued"}, NEW t \in Tasks \cup {None}, NEW s \in Sources, CompileAs(c, from, t, s) PROVE TablesStep
  BY <1>1 DEF CompileAs, NextId
<1>2. ASSUME Build(c) PROVE TablesStep
  BY <1>2 DEF Build
<1>3. ASSUME BuildFails(c) PROVE TablesStep
  BY <1>3 DEF BuildFails
<1>4. ASSUME BuildRepaired(c) PROVE TablesStep
  BY <1>4 DEF BuildRepaired, NextId
<1>5. ASSUME CompanionFails(c) PROVE TablesStep
  BY <1>5 DEF CompanionFails, Spend
<1>6. ASSUME UpsertCompiled(c) PROVE TablesStep
  <2>0. PICK i \in Ids : i = op[c].id
    BY <1>6, CompiledRow
  <2>1. /\ row'[i].source = built[i] /\ row'[i].status = "compiled" /\ row'[i].smoke = None
        /\ \A j \in Ids : j # i => row'[j] = row[j]
    BY <1>6, <2>0, CompiledRow
  <2>2. RowRests(i)'
    BY <1>6, <2>1 DEF UpsertCompiled, RowRests
  <2> QED
    BY <1>6, <2>1, <2>2 DEF UpsertCompiled
<1>7. ASSUME WriteSource(c) PROVE TablesStep
  BY <1>7 DEF WriteSource
<1>8. ASSUME WriteMarker(c) PROVE TablesStep
  BY <1>8 DEF WriteMarker
<1>9. ASSUME CompileWriteFails(c) PROVE TablesStep
  BY <1>9 DEF CompileWriteFails, Spend
<1>10. ASSUME StartSmoke(c) PROVE TablesStep
  BY <1>10 DEF StartSmoke, ActiveIs
<1>11. ASSUME ReviewReused(c) PROVE TablesStep
  BY <1>11 DEF ReviewReused, InReview, Reviewed, Runnable, ActiveIs, ReviewBinds
<1>12. ASSUME NEW v \in Verdicts, ReviewMade(c, v) PROVE TablesStep
  BY <1>12 DEF ReviewMade, InReview, Reviewed, Runnable, ActiveIs
<1>13. ASSUME ReviewFails(c) PROVE TablesStep
  BY <1>13 DEF ReviewFails, InReview
<1>14. ASSUME SmokeStarts(c) PROVE TablesStep
  <2> DEFINE i == op[c].id
  <2>1. i \in Ids /\ row[i] # None /\ Allows(i, src, bin)
    BY <1>14, SmokeRun
  <2>2. PICK r \in Runs :
          /\ run'[r].kind = "smoke"
          /\ run'[r].harness = i /\ run'[r].source = src /\ run'[r].binary = bin
          /\ \A q \in Runs : q # r => run'[q] = run[q]
    BY <1>14, SmokeRun
  <2>3. RunRests(r)'
    BY <1>14, <2>1, <2>2 DEF SmokeStarts, RunRests, Allows
  <2> QED
    BY <1>14, <2>2, <2>3 DEF SmokeStarts
<1>15. ASSUME SmokeRefused(c) PROVE TablesStep
  BY <1>15 DEF SmokeRefused
<1>16. ASSUME NEW s \in Results, SmokeRan(c, s) PROVE TablesStep
  <2> DEFINE q == op[c].run
  <2>1. q \in Runs /\ run[q] # None
    BY <1>16, OwnRun DEF SmokeRan
  <2>2. SetRun(q, "done", s) /\ UNCHANGED <<row, approval>>
    BY <1>16 DEF SmokeRan
  <2> HIDE DEF q
  <2>3. \A r \in Runs : r # q => run'[r] = run[r]
    BY <2>1, <2>2 DEF SetRun
  <2> QED
    BY <2>1, <2>2, <2>3
<1>17. ASSUME SmokeFails(c) PROVE TablesStep
  <2> DEFINE q == op[c].run
  <2>1. q \in Runs /\ run[q] # None
    BY <1>17, OwnRun DEF SmokeFails
  <2>2. SetRun(q, "failed", None) /\ UNCHANGED <<row, approval>>
    BY <1>17 DEF SmokeFails
  <2> HIDE DEF q
  <2>3. \A r \in Runs : r # q => run'[r] = run[r]
    BY <2>1, <2>2 DEF SetRun
  <2> QED
    BY <2>1, <2>2, <2>3
<1>18. ASSUME SmokeSaved(c) PROVE TablesStep
  <2>0. PICK i \in Ids, q \in Runs : i = op[c].id /\ q = op[c].run
    BY <1>18, SavedRow
  <2>1. /\ row[i] # None
        /\ row'[i].source = row[i].source /\ row'[i].status # "promoted"
        /\ row'[i].smoke = Smoke(run[q].result, run[q].source, run[q].binary, q)
        /\ \A j \in Ids : j # i => row'[j] = row[j]
    BY <1>18, <2>0, SavedRow
  <2>2. run[q] # None /\ run[q].kind = "smoke" /\ run[q].status = "done" /\ run[q].harness = i
    BY <1>18, <2>0 DEF SmokeSaved, OpRests
  <2>3. /\ row'[i].smoke.run = q /\ row'[i].smoke.result = run[q].result
        /\ row'[i].smoke.source = run[q].source /\ row'[i].smoke.binary = run[q].binary
    BY <2>1 DEF Smoke
  <2>4. UNCHANGED <<run, approval, built, review>>
    BY <1>18 DEF SmokeSaved
  <2>5. RowRests(i)'
    BY <2>1, <2>2, <2>3, <2>4 DEF RowRests, SmokeOf
  <2> QED
    BY <2>1, <2>4, <2>5
<1>19. ASSUME SmokeSaveFails(c) PROVE TablesStep
  BY <1>19 DEF SmokeSaveFails, Spend
<1>20. ASSUME StartPromote(c) PROVE TablesStep
  BY <1>20 DEF StartPromote, ActiveIs
<1>21. ASSUME Promote(c) PROVE TablesStep
  <2>0. PICK i \in Ids : i = op[c].id
    BY <1>21 DEF Promote, OpRests
  <2>1. /\ ActiveIs(i) /\ Verified(i)
        /\ row[i].smoke.result = "clean" /\ Approve(i, "clean_smoke")
    BY <1>21, <2>0 DEF Promote, PromoteAdmits
  <2>2. /\ row[i] # None /\ row[i].smoke # None /\ SmokeOf(i, row[i].smoke)
        /\ row[i].source = built[i] /\ row[i].smoke.run \in Runs
    BY <2>1, ActiveType, VerifiedType DEF Verified, RowRests, Smokes
  <2>3. /\ row'[i].source = row[i].source /\ row'[i].smoke = row[i].smoke
        /\ \A j \in Ids : j # i => row'[j] = row[j]
    BY <2>1, ApproveFacts
  <2>4. PICK a \in approval' :
          /\ approval' = approval \cup {a}
          /\ a.harness = i /\ a.source = row[i].smoke.source
          /\ a.binary = row[i].smoke.binary /\ a.kind = "clean_smoke"
    BY <2>1, ApproveFacts
  <2>5. UNCHANGED <<run, built, review>>
    BY <1>21 DEF Promote
  <2>6. RowRests(i)'
    BY <2>1, <2>2, <2>3, <2>4, <2>5 DEF RowRests, SmokeOf
  <2>7. ApprovalRests(a)'
    BY <2>1, <2>2, <2>4, <2>5 DEF ApprovalRests, Started, SmokeOf
  <2> QED
    BY <2>3, <2>4, <2>5, <2>6, <2>7
<1>22. ASSUME PromoteFails(c) PROVE TablesStep
  BY <1>22 DEF PromoteFails
<1>23. ASSUME PromoteWithFindings(c) PROVE TablesStep
  <2>1. PICK i \in Ids : /\ ActiveIs(i) /\ Verified(i)
                        /\ row[i].smoke.result = "crashes" /\ Approve(i, "known_findings")
    BY <1>23 DEF PromoteWithFindings
  <2>2. /\ row[i] # None /\ row[i].smoke # None /\ SmokeOf(i, row[i].smoke)
        /\ row[i].source = built[i] /\ row[i].smoke.run \in Runs
    BY <2>1, ActiveType, VerifiedType DEF Verified, RowRests, Smokes
  <2>3. /\ row'[i].source = row[i].source /\ row'[i].smoke = row[i].smoke
        /\ \A j \in Ids : j # i => row'[j] = row[j]
    BY <2>1, ApproveFacts
  <2>4. PICK a \in approval' :
          /\ approval' = approval \cup {a}
          /\ a.harness = i /\ a.source = row[i].smoke.source
          /\ a.binary = row[i].smoke.binary /\ a.kind = "known_findings"
    BY <2>1, ApproveFacts
  <2>5. UNCHANGED <<run, built, review>>
    BY <1>23 DEF PromoteWithFindings
  <2>6. RowRests(i)'
    BY <2>1, <2>2, <2>3, <2>4, <2>5 DEF RowRests, SmokeOf
  <2>7. ApprovalRests(a)'
    BY <2>1, <2>2, <2>4, <2>5 DEF ApprovalRests, Started, SmokeOf
  <2> QED
    BY <2>3, <2>4, <2>5, <2>6, <2>7
<1>24. ASSUME StartCampaign(c) PROVE TablesStep
  <2>1. PICK i \in Ids, r \in Runs :
          /\ row[i] # None /\ row[i].status = "promoted"
          /\ row[i].smoke.source = src /\ row[i].smoke.binary = bin
          /\ run'[r].kind = "campaign"
          /\ run'[r].harness = i /\ run'[r].source = src /\ run'[r].binary = bin
          /\ \A q \in Runs : q # r => run'[q] = run[q]
    BY <1>24, CampaignRun
  <2>2. \E a \in approval : a.harness = i /\ a.source = src /\ a.binary = bin
    BY <2>1 DEF RowRests
  <2>3. RunRests(r)'
    BY <1>24, <2>1, <2>2 DEF StartCampaign, RunRests
  <2> QED
    BY <1>24, <2>1, <2>3 DEF StartCampaign
<1>25. ASSUME NEW s \in {"done", "failed"}, CampaignEnds(c, s) PROVE TablesStep
  <2> DEFINE q == op[c].run
  <2>1. q \in Runs /\ run[q] # None
    BY <1>25, OwnRun DEF CampaignEnds
  <2>2. SetRun(q, s, None) /\ UNCHANGED <<row, approval>>
    BY <1>25 DEF CampaignEnds
  <2> HIDE DEF q
  <2>3. \A r \in Runs : r # q => run'[r] = run[r]
    BY <2>1, <2>2 DEF SetRun
  <2> QED
    BY <2>1, <2>2, <2>3
<1>26. ASSUME CampaignRegressed(c) PROVE TablesStep
  <2> DEFINE q == op[c].run
  <2>1. q \in Runs /\ run[q] # None
    BY <1>26, OwnRun DEF CampaignRegressed
  <2>2. SetRun(q, "done", None) /\ UNCHANGED <<row, approval>>
    BY <1>26 DEF CampaignRegressed
  <2> HIDE DEF q
  <2>3. \A r \in Runs : r # q => run'[r] = run[r]
    BY <2>1, <2>2 DEF SetRun
  <2> QED
    BY <2>1, <2>2, <2>3
<1>27. ASSUME StartRevert(c) PROVE TablesStep
  BY <1>27 DEF StartRevert
<1>28. ASSUME RevertRead(c) PROVE TablesStep
  BY <1>28 DEF RevertRead, RevertAdmits
<1>29. ASSUME RestoreBinary(c) PROVE TablesStep
  BY <1>29 DEF RestoreBinary
<1>30. ASSUME RestoreRefused(c) PROVE TablesStep
  BY <1>30 DEF RestoreRefused
<1>31. ASSUME RestoreSource(c) PROVE TablesStep
  BY <1>31 DEF RestoreSource
<1>32. ASSUME RestoreMarker(c) PROVE TablesStep
  BY <1>32 DEF RestoreMarker
<1>33. ASSUME RestoreFails(c) PROVE TablesStep
  BY <1>33 DEF RestoreFails, Spend
<1>34. ASSUME LeaseBusy(c) PROVE TablesStep
  BY <1>34 DEF LeaseBusy, Waiting
<1>35. ASSUME Drop(c) PROVE TablesStep
  BY <1>35 DEF Drop, Spend
<1> QED
  BY <1>1, <1>2, <1>3, <1>4, <1>5, <1>6, <1>7, <1>8, <1>9, <1>10, <1>11, <1>12, <1>13, <1>14, <1>15, <1>16, <1>17, <1>18, <1>19, <1>20, <1>21, <1>22, <1>23, <1>24, <1>25, <1>26, <1>27, <1>28, <1>29, <1>30, <1>31, <1>32, <1>33, <1>34, <1>35 DEF Works, Start, Step, Compile

-----------------------------------------------------------------------------
(* The inductive invariant.                                                 *)

\* Nothing is recorded in an empty workspace.
LEMMA InitRests == RevisionAssumption /\ Init => IndInv
<1> SUFFICES ASSUME RevisionAssumption, Init PROVE IndInv
  OBVIOUS
<1>1. TypeOK
  BY IdleType DEF Init, TypeOK, RevisionAssumption
<1>2. \A i \in Ids : RowRests(i)
  BY DEF Init, RowRests
<1>3. \A r \in Runs : RunRests(r)
  BY DEF Init, RunRests
<1>4. ApprovalRestsOnSmoke
  BY DEF Init, ApprovalRestsOnSmoke
<1>5. \A c \in Clients : OpRests(c)
  BY DEF Init, OpRests, Idle, Holding, Building
<1> QED
  BY <1>1, <1>2, <1>3, <1>4, <1>5 DEF IndInv

\* A finished run stays the evidence it is.
LEMMA EvidenceKept ==
  ASSUME RevisionAssumption, IndInv, Grows, TypeOK', NEW a, ApprovalRests(a)
  PROVE  ApprovalRests(a)'
<1>1. PICK r \in Started :
        /\ run[r].kind = "smoke"
        /\ run[r].status = "done"
        /\ run[r].harness = a.harness
        /\ run[r].source = a.source
        /\ run[r].binary = a.binary
        /\ run[r].result = IF a.kind = "clean_smoke" THEN "clean" ELSE "crashes"
  BY DEF ApprovalRests
<1>2. r \in Runs /\ run[r] # None
  BY DEF Started, IndInv, TypeOK
<1>3. run'[r] = run[r] /\ run'[r] # None
  BY <1>1, <1>2 DEF Grows
<1>4. r \in Started'
  BY <1>2, <1>3 DEF Started, TypeOK
<1> QED
  BY <1>1, <1>3, <1>4 DEF ApprovalRests

\* A row that a step leaves alone keeps what it rests on.
LEMMA RowKept ==
  ASSUME RevisionAssumption, IndInv, Grows, NEW i \in Ids, row'[i] = row[i]
  PROVE  RowRests(i)'
<1> SUFFICES ASSUME row[i] # None PROVE RowRests(i)'
  BY DEF RowRests
<1>1. RowRests(i) /\ row[i] \in Rows
  BY DEF IndInv, TypeOK
<1>2. row'[i].source = built'[i]
  <2>1. row[i].source = built[i] /\ built[i] \in Sources
    BY <1>1 DEF RowRests, Rows
  <2>2. built[i] # None
    BY <2>1 DEF RevisionAssumption
  <2> QED
    BY <2>1, <2>2 DEF Grows
<1>3. ASSUME row[i].smoke # None PROVE SmokeOf(i, row[i].smoke)'
  <2>1. row[i].smoke.run \in Runs
    BY <1>1, <1>3 DEF Rows, Smokes
  <2>2. SmokeOf(i, row[i].smoke)
    BY <1>1, <1>3 DEF RowRests
  <2>3. run'[row[i].smoke.run] = run[row[i].smoke.run]
    BY <2>1, <2>2 DEF SmokeOf, Grows
  <2> QED
    BY <2>2, <2>3 DEF SmokeOf
<1>4. approval \subseteq approval'
  BY DEF Grows
<1> QED
  BY <1>1, <1>2, <1>3, <1>4 DEF RowRests

\* A run that was started before the step keeps what it rests on.
LEMMA RunKept ==
  ASSUME RevisionAssumption, IndInv, Grows, NEW r \in Runs, run[r] # None
  PROVE  RunRests(r)'
<1>1. RunRests(r) /\ run[r] \in RunRows
  BY DEF IndInv, TypeOK
<1>2. run[r].harness \in Ids
  BY <1>1 DEF RunRows
<1>3. /\ run'[r].kind = run[r].kind /\ run'[r].harness = run[r].harness
      /\ run'[r].source = run[r].source /\ run'[r].binary = run[r].binary
  BY DEF Grows
<1>4. row'[run[r].harness] # None
  BY <1>1, <1>2 DEF RunRests, Grows
<1>5. approval \subseteq approval'
  BY DEF Grows
<1>6. ASSUME run[r].kind = "smoke"
      PROVE  Allows(run[r].harness, run[r].source, run[r].binary)
             /\ review'[run[r].harness] = review[run[r].harness]
  BY <1>1, <1>2, <1>6 DEF RunRests, Allows, Grows
<1> QED
  BY <1>1, <1>3, <1>4, <1>5, <1>6 DEF RunRests, Allows

\* An operation keeps what it has established through a step of another: what
\* it may lose is under the lease it holds.
LEMMA OthersRest ==
  ASSUME RevisionAssumption, IndInv, NEW c, Frame(c), NEW d \in Clients, d # c
  PROVE  OpRests(d)'
<1>1. OpRests(d) /\ op'[d] = op[d] /\ op[d] \in Ops
  BY DEF IndInv, TypeOK, Frame
<1>2. ASSUME op[d].at \in Holding PROVE lease' = d /\ run' = run
  BY <1>1, <1>2 DEF OpRests, Frame, RevisionAssumption
<1>3. ASSUME op[d].at \in Building PROVE built'[op[d].id] = op[d].src
  BY <1>1, <1>3 DEF OpRests, Frame, Grows, RevisionAssumption
<1>4. ASSUME op[d].at = "smoke" PROVE review'[op[d].id] = review[op[d].id]
  BY <1>1, <1>4 DEF OpRests, Frame, Grows, Allows
<1>5. ASSUME op[d].at = "revert" PROVE run'[op[d].run] # None
  BY <1>1, <1>5 DEF OpRests, Frame, Grows
<1>6. {"smoking", "save", "campaign"} \subseteq Holding
  BY DEF Holding
<1> QED
  BY <1>1, <1>2, <1>3, <1>4, <1>5, <1>6 DEF OpRests, Allows

\* A step that leaves the others alone, its own operation informed and the tables
\* in order keeps the invariant.
LEMMA PutTogether ==
  ASSUME RevisionAssumption, IndInv, NEW c, TypeOK', Frame(c), TablesStep,
         c \in Clients => OpRests(c)'
  PROVE  IndInv'
<1>2. Grows
  BY DEF Frame
<1>3. \A i \in Ids : RowRests(i)'
  BY <1>2, RowKept DEF TablesStep
<1>4. ASSUME NEW r \in Runs PROVE RunRests(r)'
  <2>1. CASE run'[r] = None
    BY <2>1 DEF RunRests
  <2>2. CASE run[r] # None
    BY <1>2, <2>2, RunKept
  <2> QED
    BY <2>1, <2>2 DEF TablesStep
<1>5. ASSUME NEW a \in approval' PROVE ApprovalRests(a)'
  <2>1. CASE a \in approval
    <3>1. ApprovalRests(a)
      BY <2>1 DEF IndInv, ApprovalRestsOnSmoke
    <3> QED
      BY <1>2, <3>1, EvidenceKept
  <2>2. CASE a \notin approval
    BY <2>2 DEF TablesStep
  <2> QED
    BY <2>1, <2>2
<1>6. ASSUME NEW d \in Clients PROVE OpRests(d)'
  BY OthersRest
<1> QED
  BY <1>3, <1>4, <1>5, <1>6 DEF IndInv, ApprovalRestsOnSmoke

\* Every step of an operation keeps the invariant.
LEMMA WorkRests ==
  ASSUME RevisionAssumption, IndInv, NEW c \in Clients, Works(c)
  PROVE  IndInv'
<1>1. TypeOK' /\ Frame(c) /\ OpRests(c)' /\ TablesStep
  BY TypeKeeps, Frames, OwnRests, TablesRest
<1> QED
  BY <1>1, PutTogether

\* So does every step of the workspace, and a step that changes nothing of it.
LEMMA StepRests == RevisionAssumption /\ IndInv /\ [Next]_vars => IndInv'
<1> SUFFICES ASSUME RevisionAssumption, IndInv, [Next]_vars PROVE IndInv'
  OBVIOUS
<1>1. ASSUME NEW c \in Clients, Start(c) \/ Step(c) \/ Drop(c) PROVE IndInv'
  BY <1>1, WorkRests DEF Works
<1>2. CASE UNCHANGED vars
  <2> USE <1>2 DEF vars
  <2>1. TypeOK'
    BY DEF IndInv, TypeOK
  <2>2. \A i \in Ids : RowRests(i)'
    BY DEF IndInv, RowRests, SmokeOf
  <2>3. \A r \in Runs : RunRests(r)'
    BY DEF IndInv, RunRests, Allows
  <2>4. ApprovalRestsOnSmoke'
    BY DEF IndInv, ApprovalRestsOnSmoke, ApprovalRests, Started
  <2>5. \A c \in Clients : OpRests(c)'
    BY DEF IndInv, OpRests, Allows
  <2> QED
    BY <2>1, <2>2, <2>3, <2>4, <2>5 DEF IndInv
<1> QED
  BY <1>1, <1>2 DEF Next

\* What the invariant says of the runs and the approvals.
LEMMA RestsImplies == RevisionAssumption /\ IndInv => RanAsApproved
<1> SUFFICES ASSUME RevisionAssumption, IndInv PROVE RanAsApproved
  OBVIOUS
<1>1. \A r \in Started : r \in Runs /\ run[r] # None /\ RunRests(r)
  BY DEF IndInv, TypeOK, Started
<1>2. SmokeRanAsReviewed
  BY <1>1 DEF SmokeRanAsReviewed, RunRests, Allows
<1>3. CampaignRanAsApproved
  BY <1>1 DEF CampaignRanAsApproved, RunRests
<1>4. PromotedIsApproved
  BY DEF IndInv, PromotedIsApproved, RowRests
<1> QED
  BY <1>2, <1>3, <1>4 DEF RanAsApproved, IndInv

\* For any callers, sources, revisions, runs and failures, in every state that
\* calls on one workspace reach: each smoke ran the very bytes and source its
\* revision's review allowed, each approval rests on a finished smoke of the same
\* revision and digests, each campaign ran bytes approved for its revision, and a
\* promoted revision is approved for the smoke it carries (harness_smoke_locked,
\* promote_harness_in_transaction, campaign_harness).
THEOREM RunsAreQualified ==
  ASSUME RevisionAssumption PROVE Spec => []RanAsApproved
<1>1. Init => IndInv
  BY InitRests
<1>2. IndInv /\ [Next]_vars => IndInv'
  BY StepRests
<1>3. IndInv => RanAsApproved
  BY RestsImplies
<1> QED
  BY <1>1, <1>2, <1>3, PTL DEF Spec

\* Whatever a caller does, and wherever it dies, nothing that a record rests on is
\* taken away: a review and a finished run are final, an approval is never
\* withdrawn, a started run keeps the revision, source and binary it names, a
\* recorded revision stays recorded and a build keeps the source it was given.
THEOREM EvidenceIsFinal ==
  ASSUME RevisionAssumption PROVE Spec => [][Grows]_vars
<1>1. Init => IndInv
  BY InitRests
<1>2. IndInv /\ [Next]_vars => IndInv'
  BY StepRests
<1>3. IndInv /\ Next => Grows
  BY Frames DEF Next, Frame, Works
<1> QED
  BY <1>1, <1>2, <1>3, PTL DEF Spec

-----------------------------------------------------------------------------
(* Work order attempts, in the workspace of the first part.                  *)

\* A step of one call changes no attempt that another has the lock of, gives an
\* attempt no new owner, and changes none that ended.
OrderFrame(c) ==
    /\ \A a \in Tasks : attempt'[a] # attempt[a] => owner[a] \in {c, None}
    /\ \A a \in Tasks : owner'[a] # owner[a] => owner[a] \in {c, None}
    /\ \A a \in Tasks : owner[a] = None /\ attempt[a] # None => owner'[a] = None
    /\ \A d \in Clients \ {c} : kept'[d] = kept[d]
    /\ EndedStays

\* What a step writes rests on what is there.
OrdersStep ==
    /\ \A a \in Tasks : attempt'[a] = attempt[a] \/ AttemptRests(a)'
    /\ \A i \in Ids : review'[i] = review[i] \/ ReviewRests(i)'
    /\ \A p \in approval' \ approval : ShownClean(p.harness, p.source, p.binary)'

-----------------------------------------------------------------------------
(* What stays true through a step of another call.                          *)

\* A review is final, and so is the source of its revision.
LEMMA ReviewKept ==
  ASSUME RevisionAssumption, OrdersInv, Grows, NEW i \in Ids, review'[i] = review[i]
  PROVE  ReviewRests(i)'
<1> SUFFICES ASSUME review[i] # None PROVE review[i].source = built'[i]
  BY DEF ReviewRests
<1>1. review[i] \in Reviews /\ review[i].source = built[i]
  BY DEF OrdersInv, IndInv, TypeOK, ReviewRests
<1>2. built[i] \in Sources
  BY <1>1 DEF Reviews
<1> QED
  BY <1>1, <1>2 DEF Grows, RevisionAssumption

\* What a passed attempt rests on is final.
LEMMA PassedKept ==
  ASSUME RevisionAssumption, OrdersInv, Grows, NEW a \in Tasks, attempt[a] # None,
         attempt[a].status = "smoke_passed", attempt'[a] = attempt[a]
  PROVE  PassedRests(a)' /\ run'[attempt[a].run] = run[attempt[a].run]
<1>1. PassedRests(a) /\ attempt[a] \in Attempts
  BY DEF OrdersInv, OrdersTypeOK, AttemptRests
<1>2. attempt[a].source \in Sources
  BY <1>1 DEF Attempts
<1>3. run'[attempt[a].run] = run[attempt[a].run]
  BY <1>1 DEF PassedRests, Grows
<1>4. built'[attempt[a].harness] = built[attempt[a].harness]
  BY <1>1, <1>2 DEF PassedRests, Grows, RevisionAssumption
<1> QED
  BY <1>1, <1>3, <1>4 DEF PassedRests

\* An attempt that a step does not change keeps what it rests on.
LEMMA AttemptKept ==
  ASSUME RevisionAssumption, OrdersInv, Grows, NEW c, OrderFrame(c),
         NEW a \in Tasks, attempt'[a] = attempt[a]
  PROVE  AttemptRests(a)'
<1> SUFFICES ASSUME attempt[a] # None PROVE AttemptRests(a)'
  BY DEF AttemptRests
<1>1. AttemptRests(a)
  BY DEF OrdersInv
<1>2. CASE attempt[a].status = "smoke_passed"
  BY <1>2, PassedKept DEF AttemptRests
<1>3. CASE attempt[a].status = "interrupted"
  BY <1>1, <1>3 DEF AttemptRests, OrderFrame
<1>4. CASE attempt[a].status \notin {"smoke_passed", "interrupted"}
  BY <1>4 DEF AttemptRests
<1> QED
  BY <1>2, <1>3, <1>4

\* What an attempt has shown clean stays shown.
LEMMA CleanKept ==
  ASSUME RevisionAssumption, OrdersInv, Grows, EndedStays, NEW i, NEW s, NEW b,
         ShownClean(i, s, b)
  PROVE  ShownClean(i, s, b)'
<1>1. PICK a \in Tasks :
        /\ attempt[a] # None
        /\ attempt[a].status = "smoke_passed"
        /\ attempt[a].harness = i
        /\ attempt[a].source = s
        /\ attempt[a].kept.bin = b
        /\ run[attempt[a].run].result = "clean"
  BY DEF ShownClean
<1>2. attempt'[a] = attempt[a]
  BY <1>1 DEF EndedStays
<1>3. run'[attempt[a].run] = run[attempt[a].run]
  BY <1>1, <1>2, PassedKept
<1> QED
  BY <1>1, <1>2, <1>3 DEF ShownClean

\* The owner of an attempt finds it as it left it.
LEMMA OtherTask ==
  ASSUME RevisionAssumption, OrdersInv, NEW c, Frame(c), OrderFrame(c),
         NEW d \in Clients, d # c
  PROVE  TaskRests(d)'
<1>1. op'[d] = op[d] /\ TaskRests(d) /\ kept'[d] = kept[d] /\ Grows /\ op[d] \in Ops
  BY DEF OrdersInv, Frame, OrderFrame, IndInv, TypeOK
<1>2. CASE op[d].task = None
  BY <1>1, <1>2 DEF TaskRests
<1>3. CASE op[d].task # None
  <2>1. PICK a \in Tasks : a = op[d].task
    BY <1>1, <1>3 DEF Ops
  <2>2. owner[a] = d
    BY <1>1, <1>3, <2>1 DEF TaskRests
  <2>3. attempt'[a] = attempt[a] /\ owner'[a] = owner[a]
    BY <2>2 DEF OrderFrame, RevisionAssumption
  <2>4. attempt[a] # None => attempt[a].source \in Sources
    BY DEF OrdersInv, OrdersTypeOK, Attempts
  <2>5. ASSUME NEW stage, At(d, stage), Running(a) PROVE At(d, stage)'
    <3>1. built'[op[d].id] = built[op[d].id]
      BY <1>1, <2>1, <2>4, <2>5 DEF At, Running, Grows, RevisionAssumption
    <3> QED
      BY <1>1, <2>1, <2>3, <2>5, <3>1 DEF At
  <2>6. ASSUME NEW i \in Ids, NEW s, NEW b, Allows(i, s, b) PROVE Allows(i, s, b)'
    BY <1>1, <2>6 DEF Allows, Grows
  <2>7. Running(a) <=> Running(a)'
    BY <2>3 DEF Running
  <2>8. op[d].at = "smoked" => op[d].run \in Runs /\ run'[op[d].run] = run[op[d].run]
    BY <1>1, <1>3 DEF TaskRests, Grows
  <2>9. /\ op[d].at = "compiled" => At(d, "compile")'
        /\ op[d].at \in {"review_only", "reviewed"} => At(d, "review")'
        /\ op[d].at \in {"review", "smoke", "smoking", "save", "smoked"} => At(d, "smoke")'
    BY <1>1, <1>3, <2>1, <2>5 DEF TaskRests
  <2>10. /\ op[d].at = "reviewed" => Allows(op[d].id, op[d].src, op[d].bin)'
         /\ op[d].at \in {"review", "smoke", "smoking", "save", "smoked"} =>
               Allows(op[d].id, kept[d].src, kept[d].bin)'
    BY <1>1, <1>3, <2>6 DEF TaskRests, At, Allows, Grows
  <2> QED
    BY <1>1, <1>3, <2>1, <2>2, <2>3, <2>7, <2>8, <2>9, <2>10 DEF TaskRests
<1> QED
  BY <1>2, <1>3

\* A step that leaves other calls alone and writes only what rests on what is
\* there keeps the invariant.
LEMMA OrdersTogether ==
  ASSUME RevisionAssumption, OrdersInv, NEW c, IndInv', OrdersTypeOK', Frame(c),
         OrderFrame(c), OrdersStep, c \in Clients => TaskRests(c)' /\ PromoteRests(c)'
  PROVE  OrdersInv'
<1>1. Grows /\ EndedStays
  BY DEF Frame, OrderFrame
<1>2. \A i \in Ids : ReviewRests(i)'
  BY <1>1, ReviewKept DEF OrdersStep
<1>3. \A a \in Tasks : AttemptRests(a)'
  BY <1>1, AttemptKept DEF OrdersStep
<1>4. ASSUME NEW d \in Clients PROVE TaskRests(d)' /\ PromoteRests(d)'
  <2>1. CASE d = c
    BY <2>1
  <2>2. CASE d # c
    <3>1. TaskRests(d)'
      BY <2>2, OtherTask
    <3>2. op'[d] = op[d] /\ PromoteRests(d)
      BY <2>2 DEF Frame, OrdersInv
    <3>3. PICK i, s, b : i = op[d].id /\ s = op[d].src /\ b = op[d].bin
      OBVIOUS
    <3>4. op[d].at = "promote" => ShownClean(i, s, b)'
      BY <1>1, <3>2, <3>3, CleanKept DEF PromoteRests
    <3>5. PromoteRests(d)'
      BY <3>2, <3>3, <3>4 DEF PromoteRests
    <3> QED
      BY <3>1, <3>5
  <2> QED
    BY <2>1, <2>2
<1>5. ASSUME NEW p \in approval' PROVE ShownClean(p.harness, p.source, p.binary)'
  <2>1. CASE p \in approval
    BY <1>1, <2>1, CleanKept DEF OrdersInv, ApprovedAsAttempted
  <2>2. CASE p \notin approval
    BY <2>2 DEF OrdersStep
  <2> QED
    BY <2>1, <2>2
<1> QED
  BY <1>2, <1>3, <1>4, <1>5 DEF OrdersInv, ApprovedAsAttempted

-----------------------------------------------------------------------------
(* Steps in the workspace.                                                  *)

\* A call that ends, or gives its attempt the word, leaves the attempt to it.
LEMMA FinishTask ==
  ASSUME RevisionAssumption, OrdersInv, NEW c \in Clients, op[c].at # "insert",
         NEW p \in {"failed", "promoted"}, Finish(c, p), UNCHANGED orders
  PROVE  TaskRests(c)' /\ PromoteRests(c)'
<1>1. op[c] \in Ops /\ TaskRests(c) /\ op \in [Clients -> Ops]
  BY DEF OrdersInv, IndInv, TypeOK
<1>2. CASE op[c].task = None
  <2>1. op'[c] = Idle
    BY <1>1, <1>2 DEF Finish, Goto
  <2> QED
    BY <2>1 DEF Idle, TaskRests, PromoteRests, Asked
<1>3. CASE op[c].task # None
  <2>1. op'[c] = [op[c] EXCEPT !.at = p]
    BY <1>1, <1>3 DEF Finish, Goto
  <2>2. op'[c].at = p /\ op'[c].task = op[c].task
    BY <1>1, <2>1 DEF Ops
  <2>3. owner[op[c].task] = c /\ Running(op[c].task)
    BY <1>1, <1>3 DEF TaskRests
  <2>4. PromoteRests(c)'
    BY <2>2 DEF PromoteRests
  <2>5. TaskRests(c)'
    BY <1>3, <2>2, <2>3 DEF TaskRests, Asked, Building, Running, orders
  <2> QED
    BY <2>4, <2>5
<1> QED
  BY <1>2, <1>3

\* A review the call may go on with is of the revision of its attempt.
LEMMA ReviewedTask ==
  ASSUME RevisionAssumption, OrdersInv, NEW c \in Clients, InReview(c),
         NEW i, i = op[c].id, NEW s, s = row[i].source, NEW b, b = bin,
         ActiveIs(i), b # None, Reviewed(c), UNCHANGED orders, built' = built,
         Allows(i, s, b)', \A j \in Ids : review[j] # None => review'[j] = review[j]
  PROVE  TaskRests(c)' /\ PromoteRests(c)'
<1>1. /\ op'[c].at = IF op[c].at = "review" THEN "smoke" ELSE "reviewed"
      /\ op'[c].id = i /\ op'[c].task = op[c].task
      /\ op'[c].src = s /\ op'[c].bin = b
  BY ReviewedType DEF OrdersInv
<1>2. op[c].at \in {"review", "review_only"} /\ TaskRests(c) /\ op[c] \in Ops
  BY DEF InReview, OrdersInv, IndInv, TypeOK
<1>3. PromoteRests(c)'
  BY <1>1 DEF PromoteRests
<1>4. CASE op[c].task = None
  <2>1. op[c].at = "review"
    BY <1>2, <1>4 DEF TaskRests, Asked
  <2> QED
    BY <1>1, <1>3, <1>4, <2>1 DEF TaskRests, Asked
<1>5. CASE op[c].task # None
  <2>1. PICK a : a = op[c].task
    OBVIOUS
  <2>2. owner'[a] = c /\ Running(a)' /\ kept' = kept /\ attempt' = attempt
    BY <1>2, <1>5, <2>1 DEF TaskRests, Running, orders
  <2>3. CASE op[c].at = "review"
    <3>1. At(c, "smoke") /\ Allows(i, kept[c].src, kept[c].bin)
      BY <1>2, <1>5, <2>3 DEF TaskRests
    <3>2. At(c, "smoke")'
      BY <1>1, <2>2, <3>1 DEF At
    <3>3. Allows(i, kept[c].src, kept[c].bin)'
      BY <2>2, <3>1 DEF At, Allows
    <3> QED
      BY <1>1, <1>3, <1>5, <2>1, <2>2, <2>3, <3>2, <3>3 DEF TaskRests, Building
  <2>4. CASE op[c].at = "review_only"
    <3>1. At(c, "review")
      BY <1>2, <1>5, <2>4 DEF TaskRests
    <3>2. At(c, "review")'
      BY <1>1, <2>2, <3>1 DEF At
    <3> QED
      BY <1>1, <1>3, <1>5, <2>1, <2>2, <2>4, <3>2 DEF TaskRests, Building
  <2> QED
    BY <1>2, <2>3, <2>4
<1> QED
  BY <1>4, <1>5

\* A reused review allows what is there.
LEMMA ReusedTask ==
  ASSUME RevisionAssumption, OrdersInv, NEW c \in Clients, ReviewReused(c), UNCHANGED orders
  PROVE  TaskRests(c)' /\ PromoteRests(c)'
<1>1. PICK i, s, b : i = op[c].id /\ s = row[i].source /\ b = bin
  OBVIOUS
<1>2. /\ InReview(c) /\ ActiveIs(i) /\ b # None /\ Reviewed(c) /\ built' = built
      /\ review' = review /\ Allows(i, s, b)
  BY <1>1 DEF ReviewReused, Runnable, ReviewBinds, Allows, tables
<1>3. Allows(i, s, b)'
  BY <1>2 DEF Allows
<1> QED
  BY <1>1, <1>2, <1>3, ReviewedTask

\* A review that is made is of the revision's own source, and allows what is
\* there unless it refuses.
LEMMA MadeTask ==
  ASSUME RevisionAssumption, OrdersInv, NEW c \in Clients, NEW v \in Verdicts,
         ReviewMade(c, v), UNCHANGED orders
  PROVE  TaskRests(c)' /\ PromoteRests(c)' /\ OrdersStep
<1>1. PICK i, s, b : i = op[c].id /\ s = row[i].source /\ b = bin
  OBVIOUS
<1>2. /\ InReview(c) /\ ActiveIs(i) /\ b # None /\ built' = built /\ review[i] = None
      /\ review' = [review EXCEPT ![i] = [source |-> s, binary |-> b, verdict |-> v]]
      /\ approval' = approval
      /\ IF v = "refused" THEN Finish(c, "failed") ELSE Reviewed(c)
  BY <1>1 DEF ReviewMade, Runnable
<1>3. i \in Ids /\ review \in [Ids -> Reviews \cup {None}] /\ s = built[i]
  <2>1. i \in Ids /\ review \in [Ids -> Reviews \cup {None}]
    BY <1>1, <1>2 DEF InReview, OrdersInv, IndInv, TypeOK, OpRests
  <2>2. row[i] # None /\ RowRests(i)
    BY <1>2, <2>1 DEF ActiveIs, OrdersInv, IndInv
  <2> QED
    BY <1>1, <2>1, <2>2 DEF RowRests
<1>4. review'[i] = [source |-> s, binary |-> b, verdict |-> v]
      /\ \A j \in Ids : j # i => review'[j] = review[j]
  BY <1>2, <1>3
<1>5. \A j \in Ids : review[j] # None => review'[j] = review[j]
  BY <1>2, <1>4
<1>6. OrdersStep
  <2>1. ReviewRests(i)'
    BY <1>2, <1>3, <1>4 DEF ReviewRests
  <2> QED
    BY <1>2, <1>4, <2>1 DEF OrdersStep, orders
<1>7. CASE v = "refused"
  <2>1. Finish(c, "failed") /\ op[c].at # "insert"
    BY <1>2, <1>7 DEF InReview
  <2> QED
    BY <1>6, <2>1, FinishTask
<1>8. CASE v # "refused"
  <2>1. Reviewed(c)
    BY <1>2, <1>8
  <2>2. Allows(i, s, b)'
    <3>1. review'[i] # None
      <4>1. b \in Ids /\ s \in Sources
        BY <1>1, <1>2, <1>3, ActiveType DEF OrdersInv, IndInv, TypeOK
      <4>2. review'[i] \in Reviews
        BY <1>4, <4>1 DEF Reviews
      <4> QED
        BY <4>2 DEF RevisionAssumption
    <3> QED
      BY <1>4, <1>8, <3>1 DEF Allows
  <2> QED
    BY <1>1, <1>2, <1>5, <1>6, <2>1, <2>2, ReviewedTask
<1> QED
  BY <1>7, <1>8

\* What is promoted is what an attempt showed clean.
LEMMA PromotedTask ==
  ASSUME RevisionAssumption, OrdersInv, NEW c \in Clients, Promote(c), UNCHANGED orders
  PROVE  TaskRests(c)' /\ PromoteRests(c)' /\ OrdersStep
<1>1. op[c].at = "promote" /\ Finish(c, "promoted") /\ PromoteAdmits(c)
      /\ review' = review /\ run' = run
  BY DEF Promote
<1>2. TaskRests(c)' /\ PromoteRests(c)'
  BY <1>1, FinishTask
<1>3. PICK i \in Ids : i = op[c].id
  BY <1>1 DEF OrdersInv, IndInv, OpRests
<1>4. /\ ActiveIs(i) /\ Verified(i) /\ Approve(i, "clean_smoke")
      /\ row[i].smoke.source = op[c].src /\ row[i].smoke.binary = op[c].bin
  BY <1>3 DEF Promote, PromoteAdmits
<1>5. PICK p \in approval' :
        /\ approval' = approval \cup {p}
        /\ p.harness = i /\ p.source = row[i].smoke.source
        /\ p.binary = row[i].smoke.binary
  BY <1>4, ApproveFacts DEF OrdersInv
<1>6. ShownClean(p.harness, p.source, p.binary)
  BY <1>1, <1>3, <1>4, <1>5 DEF OrdersInv, PromoteRests
<1>7. ShownClean(p.harness, p.source, p.binary)'
  BY <1>1, <1>6 DEF ShownClean, orders
<1>8. OrdersStep
  BY <1>1, <1>5, <1>7 DEF OrdersStep, orders
<1> QED
  BY <1>2, <1>8

\* A revert that was admitted is no step of an attempt's own.
LEMMA RevertTask ==
  ASSUME RevisionAssumption, OrdersInv, NEW c \in Clients, RevertRead(c), UNCHANGED orders
  PROVE  TaskRests(c)' /\ PromoteRests(c)' /\ OrdersStep
<1>1. OrdersStep
  BY DEF RevertRead, OrdersStep, orders, tables
<1>2. CASE Finish(c, "failed")
  BY <1>1, <1>2, FinishTask DEF RevertRead
<1>3. CASE ~Finish(c, "failed")
  <2>1. PICK i, s, b : op' = [op EXCEPT ![c] =
                [op[c] EXCEPT !.at = "restore", !.id = i, !.src = s, !.bin = b]]
    BY <1>3 DEF RevertRead, Goto
  <2>2. op[c] \in Ops /\ op \in [Clients -> Ops] /\ TaskRests(c) /\ op[c].at = "revert"
    BY DEF OrdersInv, IndInv, TypeOK, RevertRead
  <2>3. op'[c].at = "restore" /\ op'[c].task = op[c].task
    BY <2>1, <2>2 DEF Ops
  <2>4. PromoteRests(c)'
    BY <2>3 DEF PromoteRests
  <2>5. TaskRests(c)'
    BY <2>2, <2>3 DEF TaskRests, Asked, Building, Running, orders
  <2> QED
    BY <1>1, <2>4, <2>5
<1> QED
  BY <1>2, <1>3

\* A step in the workspace leaves the call's attempt where its next step needs it.
LEMMA WorkspaceTask ==
  ASSUME RevisionAssumption, OrdersAssumption, OrdersInv, NEW c \in Clients, Workspace(c)
  PROVE  TaskRests(c)'
<1>0. UNCHANGED orders
  BY DEF Workspace
<1> USE RevisionAssumption, <1>0 DEF RevisionAssumption, OrdersInv, IndInv, TypeOK, OrdersTypeOK, files, tables, orders, Goto, Finish, Release, Idle, TaskRests, Asked, At, Running, Allows, OpRests, Building, Holding
<1>1. ASSUME Compile(c) PROVE TaskRests(c)'
  BY <1>1 DEF Compile, CompileAs, NextId
<1>2. ASSUME Build(c) PROVE TaskRests(c)'
  BY <1>2 DEF Build
<1>3. ASSUME BuildFails(c) PROVE TaskRests(c)'
  BY <1>3 DEF BuildFails
<1>4. ASSUME BuildRepaired(c) PROVE TaskRests(c)'
  BY <1>4 DEF BuildRepaired, NextId
<1>5. ASSUME CompanionFails(c) PROVE TaskRests(c)'
  BY <1>5 DEF CompanionFails, Spend
<1>6. ASSUME UpsertCompiled(c) PROVE TaskRests(c)'
  BY <1>6 DEF UpsertCompiled, Row
<1>7. ASSUME WriteSource(c) PROVE TaskRests(c)'
  BY <1>7 DEF WriteSource
<1>8. ASSUME WriteMarker(c) PROVE TaskRests(c)'
  BY <1>8 DEF WriteMarker
<1>9. ASSUME CompileWriteFails(c) PROVE TaskRests(c)'
  BY <1>9 DEF CompileWriteFails, Spend
<1>10. ASSUME StartSmoke(c) PROVE TaskRests(c)'
  BY <1>10 DEF StartSmoke, ActiveIs
<1>11. ASSUME ReviewReused(c) PROVE TaskRests(c)'
  BY <1>11, ReusedTask
<1>12. ASSUME NEW v \in Verdicts, ReviewMade(c, v) PROVE TaskRests(c)'
  BY <1>12, MadeTask
<1>13. ASSUME ReviewFails(c) PROVE TaskRests(c)'
  BY <1>13 DEF ReviewFails, InReview
<1>14. ASSUME SmokeStarts(c) PROVE TaskRests(c)'
  BY <1>14 DEF SmokeStarts, SmokeAdmits, Runnable, ActiveIs, NextRun, Run
<1>15. ASSUME SmokeRefused(c) PROVE TaskRests(c)'
  BY <1>15 DEF SmokeRefused
<1>16. ASSUME NEW s \in Results, SmokeRan(c, s) PROVE TaskRests(c)'
  BY <1>16 DEF SmokeRan, SetRun, Run
<1>17. ASSUME SmokeFails(c) PROVE TaskRests(c)'
  BY <1>17 DEF SmokeFails, SetRun, Run
<1>18. ASSUME SmokeSaved(c) PROVE TaskRests(c)'
  BY <1>18 DEF SmokeSaved, Row, Smoke
<1>19. ASSUME SmokeSaveFails(c) PROVE TaskRests(c)'
  BY <1>19 DEF SmokeSaveFails, Spend
<1>20. ASSUME Promote(c) PROVE TaskRests(c)'
  BY <1>20, PromotedTask
<1>21. ASSUME PromoteFails(c) PROVE TaskRests(c)'
  BY <1>21 DEF PromoteFails
<1>22. ASSUME NEW s \in {"done", "failed"}, CampaignEnds(c, s) PROVE TaskRests(c)'
  BY <1>22 DEF CampaignEnds, SetRun, Run
<1>23. ASSUME CampaignRegressed(c) PROVE TaskRests(c)'
  BY <1>23 DEF CampaignRegressed, SetRun, Run
<1>24. ASSUME RevertRead(c) PROVE TaskRests(c)'
  BY <1>24, RevertTask
<1>25. ASSUME RestoreBinary(c) PROVE TaskRests(c)'
  BY <1>25 DEF RestoreBinary
<1>26. ASSUME RestoreRefused(c) PROVE TaskRests(c)'
  BY <1>26 DEF RestoreRefused
<1>27. ASSUME RestoreSource(c) PROVE TaskRests(c)'
  BY <1>27 DEF RestoreSource
<1>28. ASSUME RestoreMarker(c) PROVE TaskRests(c)'
  BY <1>28 DEF RestoreMarker
<1>29. ASSUME RestoreFails(c) PROVE TaskRests(c)'
  BY <1>29 DEF RestoreFails, Spend
<1>30. ASSUME LeaseBusy(c) PROVE TaskRests(c)'
  BY <1>30 DEF LeaseBusy, Waiting
<1> HIDE DEF OrdersInv, IndInv, TypeOK, OrdersTypeOK, files, tables, orders, Goto, Finish, Release, Idle, TaskRests, Asked, At, Running, Allows, OpRests, Building, Holding
<1> QED
  BY <1>1, <1>2, <1>3, <1>4, <1>5, <1>6, <1>7, <1>8, <1>9, <1>10, <1>11, <1>12, <1>13, <1>14, <1>15, <1>16, <1>17, <1>18, <1>19, <1>20, <1>21, <1>22, <1>23, <1>24, <1>25, <1>26, <1>27, <1>28, <1>29, <1>30 DEF Workspace, Step

\* A step in the workspace starts no promotion; what it writes beside the attempts
\* is a review of the revision's own source, or an approval an attempt has shown clean.
LEMMA WorkspaceAside ==
  ASSUME RevisionAssumption, OrdersAssumption, OrdersInv, NEW c \in Clients, Workspace(c)
  PROVE  PromoteRests(c)' /\ OrdersStep
<1>0. UNCHANGED orders
  BY DEF Workspace
<1> USE RevisionAssumption, <1>0 DEF RevisionAssumption, OrdersInv, IndInv, TypeOK, files, tables, orders, Goto, Finish, Release, Idle, OrdersStep
<1>1. ASSUME Compile(c) PROVE PromoteRests(c)' /\ OrdersStep
  BY <1>1 DEF Compile, CompileAs, NextId, PromoteRests
<1>2. ASSUME Build(c) PROVE PromoteRests(c)' /\ OrdersStep
  BY <1>2 DEF Build, PromoteRests
<1>3. ASSUME BuildFails(c) PROVE PromoteRests(c)' /\ OrdersStep
  BY <1>3 DEF BuildFails, PromoteRests
<1>4. ASSUME BuildRepaired(c) PROVE PromoteRests(c)' /\ OrdersStep
  BY <1>4 DEF BuildRepaired, NextId, PromoteRests
<1>5. ASSUME CompanionFails(c) PROVE PromoteRests(c)' /\ OrdersStep
  BY <1>5 DEF CompanionFails, Spend, PromoteRests
<1>6. ASSUME UpsertCompiled(c) PROVE PromoteRests(c)' /\ OrdersStep
  BY <1>6 DEF UpsertCompiled, Row, PromoteRests
<1>7. ASSUME WriteSource(c) PROVE PromoteRests(c)' /\ OrdersStep
  BY <1>7 DEF WriteSource, PromoteRests
<1>8. ASSUME WriteMarker(c) PROVE PromoteRests(c)' /\ OrdersStep
  BY <1>8 DEF WriteMarker, PromoteRests
<1>9. ASSUME CompileWriteFails(c) PROVE PromoteRests(c)' /\ OrdersStep
  BY <1>9 DEF CompileWriteFails, Spend, PromoteRests
<1>10. ASSUME StartSmoke(c) PROVE PromoteRests(c)' /\ OrdersStep
  BY <1>10 DEF StartSmoke, ActiveIs, PromoteRests
<1>11. ASSUME ReviewReused(c) PROVE PromoteRests(c)' /\ OrdersStep
  BY <1>11 DEF ReviewReused, InReview, Reviewed, Runnable, ActiveIs, ReviewBinds, PromoteRests
<1>12. ASSUME NEW v \in Verdicts, ReviewMade(c, v) PROVE PromoteRests(c)' /\ OrdersStep
  BY <1>12, MadeTask
<1>13. ASSUME ReviewFails(c) PROVE PromoteRests(c)' /\ OrdersStep
  BY <1>13 DEF ReviewFails, InReview, PromoteRests
<1>14. ASSUME SmokeStarts(c) PROVE PromoteRests(c)' /\ OrdersStep
  BY <1>14 DEF SmokeStarts, SmokeAdmits, Runnable, ActiveIs, NextRun, Run, PromoteRests
<1>15. ASSUME SmokeRefused(c) PROVE PromoteRests(c)' /\ OrdersStep
  BY <1>15 DEF SmokeRefused, PromoteRests
<1>16. ASSUME NEW s \in Results, SmokeRan(c, s) PROVE PromoteRests(c)' /\ OrdersStep
  BY <1>16 DEF SmokeRan, SetRun, Run, PromoteRests
<1>17. ASSUME SmokeFails(c) PROVE PromoteRests(c)' /\ OrdersStep
  BY <1>17 DEF SmokeFails, SetRun, Run, PromoteRests
<1>18. ASSUME SmokeSaved(c) PROVE PromoteRests(c)' /\ OrdersStep
  BY <1>18 DEF SmokeSaved, Row, Smoke, PromoteRests
<1>19. ASSUME SmokeSaveFails(c) PROVE PromoteRests(c)' /\ OrdersStep
  BY <1>19 DEF SmokeSaveFails, Spend, PromoteRests
<1>20. ASSUME Promote(c) PROVE PromoteRests(c)' /\ OrdersStep
  BY <1>20, PromotedTask
<1>21. ASSUME PromoteFails(c) PROVE PromoteRests(c)' /\ OrdersStep
  BY <1>21 DEF PromoteFails, PromoteRests
<1>22. ASSUME NEW s \in {"done", "failed"}, CampaignEnds(c, s) PROVE PromoteRests(c)' /\ OrdersStep
  BY <1>22 DEF CampaignEnds, SetRun, Run, PromoteRests
<1>23. ASSUME CampaignRegressed(c) PROVE PromoteRests(c)' /\ OrdersStep
  BY <1>23 DEF CampaignRegressed, SetRun, Run, PromoteRests
<1>24. ASSUME RevertRead(c) PROVE PromoteRests(c)' /\ OrdersStep
  BY <1>24, RevertTask
<1>25. ASSUME RestoreBinary(c) PROVE PromoteRests(c)' /\ OrdersStep
  BY <1>25 DEF RestoreBinary, PromoteRests
<1>26. ASSUME RestoreRefused(c) PROVE PromoteRests(c)' /\ OrdersStep
  BY <1>26 DEF RestoreRefused, PromoteRests
<1>27. ASSUME RestoreSource(c) PROVE PromoteRests(c)' /\ OrdersStep
  BY <1>27 DEF RestoreSource, PromoteRests
<1>28. ASSUME RestoreMarker(c) PROVE PromoteRests(c)' /\ OrdersStep
  BY <1>28 DEF RestoreMarker, PromoteRests
<1>29. ASSUME RestoreFails(c) PROVE PromoteRests(c)' /\ OrdersStep
  BY <1>29 DEF RestoreFails, Spend, PromoteRests
<1>30. ASSUME LeaseBusy(c) PROVE PromoteRests(c)' /\ OrdersStep
  BY <1>30 DEF LeaseBusy, Waiting, PromoteRests
<1> HIDE DEF OrdersInv, IndInv, TypeOK, files, tables, orders, Goto, Finish, Release, Idle, OrdersStep
<1> QED
  BY <1>1, <1>2, <1>3, <1>4, <1>5, <1>6, <1>7, <1>8, <1>9, <1>10, <1>11, <1>12, <1>13, <1>14, <1>15, <1>16, <1>17, <1>18, <1>19, <1>20, <1>21, <1>22, <1>23, <1>24, <1>25, <1>26, <1>27, <1>28, <1>29, <1>30 DEF Workspace, Step

\* So a step in the workspace keeps the invariant, and every ended attempt.
LEMMA WorkspaceKeeps ==
  ASSUME RevisionAssumption, OrdersAssumption, OrdersInv, NEW c \in Clients, Workspace(c)
  PROVE  OrdersInv' /\ EndedStays
<1>1. Works(c) /\ UNCHANGED orders /\ IndInv
  BY DEF Workspace, Works, Start, OrdersInv
<1>2. IndInv' /\ Frame(c)
  BY <1>1, WorkRests, Frames
<1>3. OrdersTypeOK'
  BY <1>1 DEF OrdersInv, OrdersTypeOK, orders
<1>4. OrderFrame(c)
  BY <1>1 DEF OrderFrame, EndedStays, orders
<1> QED
  BY <1>2, <1>3, <1>4, WorkspaceTask, WorkspaceAside, OrdersTogether DEF OrderFrame

-----------------------------------------------------------------------------
(* Steps of the call that qualifies a submission.                           *)

\* A step that leaves the workspace and its records alone.
LEMMA QuietStep ==
  ASSUME RevisionAssumption, IndInv, NEW c, UNCHANGED <<files, tables, built, lease>>,
         left' \in [Faults -> Nat], op' \in [Clients -> Ops],
         \A d \in Clients \ {c} : op'[d] = op[d], c \in Clients => OpRests(c)'
  PROVE  IndInv' /\ Frame(c)
<1>1. TypeOK'
  BY DEF IndInv, TypeOK, files, tables
<1>2. Frame(c)
  BY DEF Frame, Grows, tables
<1>3. TablesStep
  BY DEF TablesStep, tables
<1> QED
  BY <1>1, <1>2, <1>3, PutTogether

\* The step is the call's own, in the workspace's terms.
LEMMA GotoFacts ==
  ASSUME IndInv, NEW c \in Clients, NEW o \in Ops, Goto(c, o)
  PROVE  /\ op' \in [Clients -> Ops]
         /\ op'[c] = o
         /\ \A d \in Clients \ {c} : op'[d] = op[d]
BY DEF IndInv, TypeOK, Goto

\* A call that is over has nothing left to establish.
LEMMA IdleRests ==
  ASSUME RevisionAssumption, NEW c \in Clients, op'[c] = Idle
  PROVE  OpRests(c)' /\ TaskRests(c)' /\ PromoteRests(c)'
<1>1. op'[c].at = "idle" /\ op'[c].task = None
  BY DEF Idle
<1>2. OpRests(c)'
  BY <1>1 DEF OpRests, Holding, Building
<1>3. TaskRests(c)'
  BY <1>1 DEF TaskRests, Asked
<1>4. PromoteRests(c)'
  BY <1>1 DEF PromoteRests
<1> QED
  BY <1>2, <1>3, <1>4

\* A call that returns gives back its own lock, and forgets.
LEMMA LetFacts ==
  ASSUME RevisionAssumption, OrdersTypeOK, NEW c \in Clients, Let(c)
  PROVE  /\ owner' \in [Tasks -> Clients \cup {None}]
         /\ kept' \in [Clients -> Kepts]
         /\ \A a \in Tasks : owner'[a] # owner[a] => owner[a] = c
         /\ \A a \in Tasks : owner[a] \in {c, None} => owner'[a] = None
         /\ \A d \in Clients \ {c} : kept'[d] = kept[d]
<1>1. Nothing \in Kepts
  BY DEF Nothing, Kepts
<1> QED
  BY <1>1 DEF Let, OrdersTypeOK, RevisionAssumption

\* The record of an attempt.
LEMMA AttemptFacts ==
  ASSUME OrdersAssumption, NEW s \in Sources, NEW status \in Statuses,
         NEW stage \in {"compile", "review", "smoke", "complete"},
         NEW h \in Ids \cup {None}, NEW r \in Runs \cup {None}, NEW k \in Kepts
  PROVE  LET x == Attempt(s, status, stage, h, r, k) IN
         /\ x \in Attempts /\ x # None
         /\ x.source = s /\ x.status = status /\ x.stage = stage
         /\ x.harness = h /\ x.run = r /\ x.kept = k
<1> DEFINE x == Attempt(s, status, stage, h, r, k)
<1>1. x \in Attempts
  BY DEF Attempt, Attempts
<1>2. x # None
  BY <1>1 DEF OrdersAssumption
<1> QED
  BY <1>1, <1>2 DEF Attempt

\* A statement that inserts an attempt, or changes one that is running.
LEMMA PutAttempt ==
  ASSUME OrdersTypeOK, NEW a \in Tasks, attempt[a] = None \/ Running(a),
         NEW x \in Attempts, x.stage = "complete" <=> x.status # "running",
         attempt' = [attempt EXCEPT ![a] = x]
  PROVE  /\ attempt' \in [Tasks -> Attempts \cup {None}]
         /\ attempt'[a] = x
         /\ \A b \in Tasks : b # a => attempt'[b] = attempt[b]
         /\ EndedStays
         /\ \A b \in Tasks : attempt'[b] # None =>
               (attempt'[b].stage = "complete" <=> attempt'[b].status # "running")
<1>1. attempt' \in [Tasks -> Attempts \cup {None}] /\ attempt'[a] = x
      /\ \A b \in Tasks : b # a => attempt'[b] = attempt[b]
  BY DEF OrdersTypeOK
<1>2. EndedStays
  BY <1>1 DEF EndedStays, Running
<1>3. ASSUME NEW b \in Tasks, attempt'[b] # None
      PROVE  attempt'[b].stage = "complete" <=> attempt'[b].status # "running"
  BY <1>1, <1>3 DEF OrdersTypeOK
<1> QED
  BY <1>1, <1>2, <1>3

\* The attempt of the call, where only such a call comes.
LEMMA OwnTask ==
  ASSUME OrdersInv, NEW c \in Clients, op[c].at \in Asked
  PROVE  /\ op[c] \in Ops
         /\ op[c].task \in Tasks
         /\ owner[op[c].task] = c
         /\ op[c].at # "insert" => Running(op[c].task) /\ attempt[op[c].task] \in Attempts
<1>1. op[c] \in Ops /\ op[c].task # None /\ TaskRests(c)
  BY DEF OrdersInv, IndInv, TypeOK, TaskRests
<1>2. op[c].task \in Tasks
  BY <1>1 DEF Ops
<1>3. owner[op[c].task] = c /\ (op[c].at # "insert" => Running(op[c].task))
  BY <1>1 DEF TaskRests
<1>4. Running(op[c].task) => attempt[op[c].task] \in Attempts
  BY <1>2 DEF Running, OrdersInv, OrdersTypeOK
<1> QED
  BY <1>1, <1>2, <1>3, <1>4

\* A call that returns, whatever it wrote to its own attempt before.
LEMMA ReturnKeeps ==
  ASSUME RevisionAssumption, OrdersInv, NEW c \in Clients, Return(c),
         UNCHANGED <<files, tables, built, lease, listed>>, left' \in [Faults -> Nat],
         attempt' \in [Tasks -> Attempts \cup {None}], EndedStays,
         \A a \in Tasks : attempt'[a] # None =>
            (attempt'[a].stage = "complete" <=> attempt'[a].status # "running"),
         \A a \in Tasks : attempt'[a] # attempt[a] => owner[a] = c /\ AttemptRests(a)'
  PROVE  OrdersInv' /\ EndedStays
<1>1. IndInv /\ OrdersTypeOK
  BY DEF OrdersInv
<1>2. Goto(c, Idle) /\ Let(c)
  BY DEF Return
<1>3. op' \in [Clients -> Ops] /\ op'[c] = Idle /\ \A d \in Clients \ {c} : op'[d] = op[d]
  BY <1>1, <1>2, IdleType, GotoFacts
<1>4. OpRests(c)' /\ TaskRests(c)' /\ PromoteRests(c)'
  BY <1>3, IdleRests
<1>5. IndInv' /\ Frame(c)
  BY <1>1, <1>3, <1>4, QuietStep
<1>6. OrdersTypeOK'
  BY <1>1, <1>2, LetFacts DEF OrdersTypeOK
<1>7. OrderFrame(c)
  BY <1>1, <1>2, LetFacts DEF OrderFrame
<1>8. OrdersStep
  BY DEF OrdersStep, tables
<1> QED
  BY <1>4, <1>5, <1>6, <1>7, <1>8, OrdersTogether

\* A call that returns and leaves its attempt as it is.
LEMMA LeaveKeeps ==
  ASSUME RevisionAssumption, OrdersInv, NEW c \in Clients, Return(c),
         UNCHANGED <<files, tables, built, lease, attempt, listed>>,
         left' \in [Faults -> Nat]
  PROVE  OrdersInv' /\ EndedStays
<1>1. attempt' = attempt /\ OrdersTypeOK
  BY DEF OrdersInv
<1>2. attempt' \in [Tasks -> Attempts \cup {None}] /\ EndedStays
  BY <1>1 DEF OrdersTypeOK, EndedStays
<1>3. \A a \in Tasks : attempt'[a] # None =>
            (attempt'[a].stage = "complete" <=> attempt'[a].status # "running")
  BY <1>1 DEF OrdersTypeOK
<1> QED
  BY <1>1, <1>2, <1>3, ReturnKeeps

\* The steps that end a call without a word to its attempt: the insert failed, a
\* storage error is given back as is, or the attempt's own statement fails.
LEMMA LeavingKeeps ==
  ASSUME RevisionAssumption, OrdersInv, NEW c \in Clients,
         InsertFails(c) \/ LeaveRunning(c) \/ AttemptWriteFails(c)
  PROVE  OrdersInv' /\ EndedStays
<1>1. Return(c) /\ UNCHANGED <<files, tables, built, lease, attempt, listed>>
  BY DEF InsertFails, LeaveRunning, AttemptWriteFails
<1>2. (\E S : Spend(S)) \/ UNCHANGED left
  BY DEF InsertFails, LeaveRunning, AttemptWriteFails
<1>3. left' \in [Faults -> Nat]
  BY <1>2, SpendType DEF OrdersInv, IndInv, TypeOK
<1> QED
  BY <1>1, <1>3, LeaveKeeps

\* A call that goes on to another place, with its attempt changed or not.
LEMMA GoingKeeps ==
  ASSUME RevisionAssumption, OrdersInv, NEW c \in Clients, NEW o \in Ops, Goto(c, o),
         UNCHANGED <<files, tables, built, lease, left, listed>>,
         attempt' \in [Tasks -> Attempts \cup {None}], EndedStays,
         \A a \in Tasks : attempt'[a] # None =>
            (attempt'[a].stage = "complete" <=> attempt'[a].status # "running"),
         \A a \in Tasks : attempt'[a] # attempt[a] => owner[a] = c /\ AttemptRests(a)',
         kept' \in [Clients -> Kepts], \A d \in Clients \ {c} : kept'[d] = kept[d],
         owner' \in [Tasks -> Clients \cup {None}],
         \A a \in Tasks : owner'[a] # owner[a] => owner[a] = None /\ attempt[a] = None,
         OpRests(c)', TaskRests(c)', PromoteRests(c)'
  PROVE  OrdersInv' /\ EndedStays
<1>1. IndInv /\ OrdersTypeOK
  BY DEF OrdersInv
<1>2. op' \in [Clients -> Ops] /\ \A d \in Clients \ {c} : op'[d] = op[d]
  BY <1>1, GotoFacts
<1>3. left' \in [Faults -> Nat]
  BY <1>1 DEF IndInv, TypeOK
<1>4. IndInv' /\ Frame(c)
  BY <1>1, <1>2, <1>3, QuietStep
<1>5. OrdersTypeOK'
  BY <1>1 DEF OrdersTypeOK
<1>6. OrderFrame(c)
  BY DEF OrderFrame
<1>7. OrdersStep
  BY DEF OrdersStep, tables
<1> QED
  BY <1>4, <1>5, <1>6, <1>7, OrdersTogether

\* The lock is taken for an identifier nobody has used.
LEMMA QualifyKeeps ==
  ASSUME RevisionAssumption, OrdersInv, NEW c \in Clients, NEW a \in Tasks,
         NEW s \in Sources, Qualify(c, a, s)
  PROVE  OrdersInv' /\ EndedStays
<1> DEFINE o == [Idle EXCEPT !.at = "insert", !.task = a, !.src = s]
<1>1. o \in Ops /\ o.at = "insert" /\ o.task = a /\ o.src = s
  BY IdleType DEF Ops, Places
<1>2. Goto(c, o)
  BY DEF Qualify
<1> HIDE DEF o
<1>3. op'[c] = o
  BY <1>1, <1>2, GotoFacts DEF OrdersInv
<1>4. attempt' = attempt /\ kept' = kept /\ OrdersTypeOK
      /\ UNCHANGED <<files, tables, built, lease, left, listed>>
  BY DEF Qualify, OrdersInv
<1>5. attempt[a] = None /\ owner[a] = None /\ owner' = [owner EXCEPT ![a] = c]
  BY DEF Qualify
<1>6. OpRests(c)'
  BY <1>1, <1>3 DEF OpRests, Holding, Building
<1>7. TaskRests(c)'
  BY <1>1, <1>3, <1>4, <1>5 DEF TaskRests, Asked, Building, OrdersTypeOK
<1>8. PromoteRests(c)'
  BY <1>1, <1>3 DEF PromoteRests
<1>9. /\ attempt' \in [Tasks -> Attempts \cup {None}] /\ EndedStays
      /\ kept' \in [Clients -> Kepts]
      /\ owner' \in [Tasks -> Clients \cup {None}]
      /\ \A b \in Tasks : owner'[b] # owner[b] => owner[b] = None /\ attempt[b] = None
      /\ \A b \in Tasks : attempt'[b] # None =>
            (attempt'[b].stage = "complete" <=> attempt'[b].status # "running")
  BY <1>4, <1>5 DEF OrdersTypeOK, EndedStays
<1> QED
  BY <1>1, <1>2, <1>4, <1>6, <1>7, <1>8, <1>9, GoingKeeps

\* The attempt is inserted as running, for the submitted source.
LEMMA InsertKeeps ==
  ASSUME RevisionAssumption, OrdersAssumption, OrdersInv, NEW c \in Clients, InsertAttempt(c)
  PROVE  OrdersInv' /\ EndedStays
<1>1. op[c].at = "insert" /\ OrdersTypeOK
  BY DEF InsertAttempt, OrdersInv
<1>2. PICK a \in Tasks : a = op[c].task
  BY <1>1, OwnTask DEF Asked
<1>3. /\ op[c] \in Ops /\ owner[a] = c
      /\ attempt[a] = None /\ op[c].src \in Sources
  BY <1>1, <1>2, OwnTask DEF Asked, OrdersInv, TaskRests, RevisionAssumption
<1> DEFINE o == [op[c] EXCEPT !.at = "queued"]
           x == Attempt(op[c].src, "running", "compile", None, None, Nothing)
<1>4. o \in Ops /\ o.at = "queued" /\ o.task = a /\ o.src = op[c].src
  BY <1>2, <1>3 DEF Ops, Places
<1>5. Nothing \in Kepts
  BY DEF Nothing, Kepts
<1>6. /\ x \in Attempts /\ x # None
      /\ x.source = op[c].src /\ x.status = "running" /\ x.stage = "compile" /\ x.harness = None
  BY <1>3, <1>5, AttemptFacts DEF Statuses
<1>7. /\ Goto(c, o) /\ attempt' = [attempt EXCEPT ![a] = x]
      /\ owner' = owner /\ kept' = kept
      /\ UNCHANGED <<files, tables, built, lease, left, listed>>
  BY <1>2 DEF InsertAttempt
<1> HIDE DEF o, x
<1>8. /\ attempt' \in [Tasks -> Attempts \cup {None}]
      /\ attempt'[a] = x
      /\ \A b \in Tasks : b # a => attempt'[b] = attempt[b]
      /\ EndedStays
      /\ \A b \in Tasks : attempt'[b] # None =>
            (attempt'[b].stage = "complete" <=> attempt'[b].status # "running")
  BY <1>1, <1>3, <1>6, <1>7, PutAttempt
<1>9. op'[c] = o
  BY <1>4, <1>7, GotoFacts DEF OrdersInv
<1>10. OpRests(c)'
  BY <1>4, <1>9 DEF OpRests, Holding, Building
<1>11. TaskRests(c)'
  BY <1>3, <1>4, <1>6, <1>7, <1>8, <1>9 DEF TaskRests, Asked, Building, Running
<1>12. PromoteRests(c)'
  BY <1>4, <1>9 DEF PromoteRests
<1>13. \A b \in Tasks : attempt'[b] # attempt[b] => owner[b] = c /\ AttemptRests(b)'
  BY <1>3, <1>6, <1>8 DEF AttemptRests
<1>14. kept' \in [Clients -> Kepts] /\ owner' \in [Tasks -> Clients \cup {None}]
  BY <1>1, <1>7 DEF OrdersTypeOK
<1> QED
  BY <1>4, <1>7, <1>8, <1>10, <1>11, <1>12, <1>13, <1>14, GoingKeeps

\* The compile of the attempt starts, or is refused before anything is built.
LEMMA StartCompileKeeps ==
  ASSUME RevisionAssumption, OrdersInv, NEW c \in Clients, StartCompile(c)
  PROVE  OrdersInv' /\ EndedStays
<1>1. op[c].at = "queued" /\ OrdersTypeOK /\ IndInv
  BY DEF StartCompile, OrdersInv
<1>2. PICK a \in Tasks : a = op[c].task
  BY <1>1, OwnTask DEF Asked
<1>3. /\ op[c] \in Ops /\ owner[a] = c /\ Running(a) /\ attempt[a] \in Attempts
      /\ attempt[a].stage = "compile" /\ attempt[a].harness = None
      /\ attempt[a].source = op[c].src
  BY <1>1, <1>2, OwnTask DEF Asked, OrdersInv, TaskRests, RevisionAssumption
<1>4. PICK s \in Sources : s = op[c].src
  BY <1>3 DEF Attempts
<1>5. CompileAs(c, "queued", a, s)
  BY <1>2, <1>4 DEF StartCompile
<1>6. Works(c)
  BY <1>5 DEF Works
<1>7. IndInv' /\ Frame(c)
  BY <1>1, <1>6, WorkRests, Frames
<1>8. attempt' = attempt /\ owner' = owner /\ listed' = listed
      /\ kept' = [kept EXCEPT ![c].stage = "compile"]
  BY DEF StartCompile
<1>9. kept' \in [Clients -> Kepts] /\ \A d \in Clients \ {c} : kept'[d] = kept[d]
  BY <1>1, <1>8 DEF OrdersTypeOK, Kepts
<1>10. OrdersTypeOK'
  BY <1>1, <1>8, <1>9 DEF OrdersTypeOK
<1>11. OrderFrame(c)
  BY <1>8, <1>9 DEF OrderFrame, EndedStays
<1>12. OrdersStep
  BY <1>5, <1>8 DEF OrdersStep, CompileAs, tables
<1>13. PICK i \in Ids :
         Goto(c, [Idle EXCEPT !.at = "build", !.task = a, !.id = i, !.src = s])
  BY <1>5 DEF CompileAs
<1>14. op'[c].at = "build" /\ op'[c].task = a /\ op'[c].src = s
  BY <1>1, <1>13 DEF Goto, Idle, IndInv, TypeOK
<1>15. TaskRests(c)'
  BY <1>3, <1>4, <1>8, <1>14 DEF TaskRests, Asked, Building, Running
<1>16. PromoteRests(c)'
  BY <1>14 DEF PromoteRests
<1> QED
  BY <1>7, <1>10, <1>11, <1>12, <1>15, <1>16, OrdersTogether DEF OrderFrame

\* The compile is refused before anything is built.
LEMMA RefusedKeeps ==
  ASSUME RevisionAssumption, OrdersInv, NEW c \in Clients, CompileRefused(c)
  PROVE  OrdersInv' /\ EndedStays
<1>1. op[c].at = "queued" /\ OrdersTypeOK
  BY DEF CompileRefused, OrdersInv
<1>2. PICK a \in Tasks : a = op[c].task
  BY <1>1, OwnTask DEF Asked
<1>3. op[c] \in Ops /\ owner[a] = c /\ Running(a)
  BY <1>1, <1>2, OwnTask DEF Asked
<1> DEFINE o == [op[c] EXCEPT !.at = "failed"]
<1>4. o \in Ops /\ o.at = "failed" /\ o.task = a
  BY <1>2, <1>3 DEF Ops, Places
<1>5. /\ Goto(c, o) /\ attempt' = attempt /\ owner' = owner
      /\ kept' = [kept EXCEPT ![c].stage = "compile"]
      /\ UNCHANGED <<files, tables, built, lease, left, listed>>
  BY DEF CompileRefused
<1> HIDE DEF o
<1>6. kept' \in [Clients -> Kepts] /\ \A d \in Clients \ {c} : kept'[d] = kept[d]
  BY <1>1, <1>5 DEF OrdersTypeOK, Kepts
<1>7. op'[c] = o
  BY <1>4, <1>5, GotoFacts DEF OrdersInv
<1>8. OpRests(c)' /\ PromoteRests(c)'
  BY <1>4, <1>7 DEF OpRests, Holding, Building, PromoteRests
<1>9. TaskRests(c)'
  BY <1>3, <1>4, <1>5, <1>7 DEF TaskRests, Asked, Building, Running
<1>10. /\ attempt' \in [Tasks -> Attempts \cup {None}] /\ EndedStays
       /\ owner' \in [Tasks -> Clients \cup {None}]
       /\ \A b \in Tasks : attempt'[b] # None =>
            (attempt'[b].stage = "complete" <=> attempt'[b].status # "running")
  BY <1>1, <1>5 DEF OrdersTypeOK, EndedStays
<1> QED
  BY <1>4, <1>5, <1>6, <1>8, <1>9, <1>10, GoingKeeps

\* The compiled revision becomes the attempt's, and its review is asked for.
LEMMA CompileDoneKeeps ==
  ASSUME RevisionAssumption, OrdersAssumption, OrdersInv, NEW c \in Clients, CompileDone(c)
  PROVE  OrdersInv' /\ EndedStays
<1>1. op[c].at = "compiled" /\ OrdersTypeOK /\ Advance(c, "compile", "review", "review_only")
  BY DEF CompileDone, OrdersInv
<1>2. PICK a \in Tasks : a = op[c].task
  BY <1>1, OwnTask DEF Asked
<1>3. /\ op[c] \in Ops /\ owner[a] = c /\ Running(a) /\ attempt[a] \in Attempts
      /\ op[c].id \in Ids /\ built[op[c].id] = attempt[a].source
      /\ attempt[a].harness = None
  BY <1>1, <1>2, OwnTask DEF Asked, OrdersInv, TaskRests, At, RevisionAssumption
<1> DEFINE o == [op[c] EXCEPT !.at = "review_only"]
           x == Attempt(attempt[a].source, "running", "review", op[c].id, None, Nothing)
           k == [stage |-> "review", src |-> None, bin |-> op[c].bin]
<1>4. o \in Ops /\ o.at = "review_only" /\ o.task = a /\ o.id = op[c].id
  BY <1>2, <1>3 DEF Ops, Places, Waiting
<1>5. Nothing \in Kepts /\ k \in Kepts
  BY <1>3 DEF Nothing, Kepts, Ops
<1>6. attempt[a].source \in Sources
  BY <1>3 DEF Attempts
<1>7. /\ x \in Attempts /\ x # None
      /\ x.source = attempt[a].source /\ x.status = "running" /\ x.stage = "review"
      /\ x.harness = op[c].id
  <2>1. op[c].id \in Ids \cup {None} /\ "running" \in Statuses
        /\ Nothing \in Kepts
    BY <1>3, <1>5 DEF Statuses
  <2> QED
    BY <1>6, <2>1, AttemptFacts
<1>8. /\ Goto(c, o) /\ attempt' = [attempt EXCEPT ![a] = x]
      /\ owner' = owner /\ kept' = [kept EXCEPT ![c] = k]
      /\ UNCHANGED <<files, tables, built, lease, left, listed>>
  BY <1>1, <1>2, <1>3 DEF Advance
<1> HIDE DEF o, x, k
<1>9. /\ attempt' \in [Tasks -> Attempts \cup {None}]
      /\ attempt'[a] = x
      /\ \A b \in Tasks : b # a => attempt'[b] = attempt[b]
      /\ EndedStays
      /\ \A b \in Tasks : attempt'[b] # None =>
            (attempt'[b].stage = "complete" <=> attempt'[b].status # "running")
  BY <1>1, <1>3, <1>7, <1>8, PutAttempt
<1>10. op'[c] = o
  BY <1>4, <1>8, GotoFacts DEF OrdersInv
<1>11. OpRests(c)' /\ PromoteRests(c)'
  BY <1>3, <1>4, <1>10 DEF OpRests, Holding, Building, PromoteRests
<1>12. TaskRests(c)'
  BY <1>3, <1>4, <1>7, <1>8, <1>9, <1>10 DEF TaskRests, Asked, Building, Running, At
<1>13. \A b \in Tasks : attempt'[b] # attempt[b] => owner[b] = c /\ AttemptRests(b)'
  BY <1>3, <1>7, <1>9 DEF AttemptRests
<1>14. /\ kept' \in [Clients -> Kepts] /\ owner' \in [Tasks -> Clients \cup {None}]
       /\ \A d \in Clients \ {c} : kept'[d] = kept[d]
  BY <1>1, <1>5, <1>8 DEF OrdersTypeOK
<1> QED
  BY <1>4, <1>8, <1>9, <1>11, <1>12, <1>13, <1>14, GoingKeeps

\* The digests of the review are kept, and the smoke begins with the review again.
LEMMA ReviewDoneKeeps ==
  ASSUME RevisionAssumption, OrdersAssumption, OrdersInv, NEW c \in Clients, ReviewDone(c)
  PROVE  OrdersInv' /\ EndedStays
<1>1. op[c].at = "reviewed" /\ OrdersTypeOK /\ Advance(c, "review", "smoke", "review")
  BY DEF ReviewDone, OrdersInv
<1>2. PICK a \in Tasks : a = op[c].task
  BY <1>1, OwnTask DEF Asked
<1>3. /\ op[c] \in Ops /\ owner[a] = c /\ Running(a) /\ attempt[a] \in Attempts
      /\ op[c].id \in Ids /\ built[op[c].id] = attempt[a].source
      /\ attempt[a].harness = op[c].id /\ attempt[a].harness # None
      /\ Allows(op[c].id, op[c].src, op[c].bin)
  BY <1>1, <1>2, OwnTask DEF Asked, OrdersInv, TaskRests, At, RevisionAssumption, Ids
<1> DEFINE o == [op[c] EXCEPT !.at = "review"]
           x == Attempt(attempt[a].source, "running", "smoke", attempt[a].harness, None, Nothing)
           k == [stage |-> "smoke", src |-> op[c].src, bin |-> op[c].bin]
<1>4. o \in Ops /\ o.at = "review" /\ o.task = a /\ o.id = op[c].id
  BY <1>2, <1>3 DEF Ops, Places, Waiting
<1>5. Nothing \in Kepts /\ k \in Kepts /\ k.src = op[c].src /\ k.bin = op[c].bin
  BY <1>3 DEF Nothing, Kepts, Ops
<1>6. attempt[a].source \in Sources
  BY <1>3 DEF Attempts
<1>7. /\ x \in Attempts /\ x # None
      /\ x.source = attempt[a].source /\ x.status = "running" /\ x.stage = "smoke"
      /\ x.harness = op[c].id
  <2>1. attempt[a].harness \in Ids \cup {None} /\ "running" \in Statuses
        /\ Nothing \in Kepts
    BY <1>3, <1>5 DEF Statuses
  <2>2. /\ x \in Attempts /\ x # None
        /\ x.source = attempt[a].source /\ x.status = "running" /\ x.stage = "smoke"
        /\ x.harness = attempt[a].harness
    BY <1>6, <2>1, AttemptFacts
  <2> HIDE DEF x
  <2> QED
    BY <1>3, <2>2
<1>8. /\ Goto(c, o) /\ attempt' = [attempt EXCEPT ![a] = x]
      /\ owner' = owner /\ kept' = [kept EXCEPT ![c] = k]
      /\ UNCHANGED <<files, tables, built, lease, left, listed>>
  BY <1>1, <1>2, <1>3 DEF Advance
<1> HIDE DEF o, x, k
<1>9. /\ attempt' \in [Tasks -> Attempts \cup {None}]
      /\ attempt'[a] = x
      /\ \A b \in Tasks : b # a => attempt'[b] = attempt[b]
      /\ EndedStays
      /\ \A b \in Tasks : attempt'[b] # None =>
            (attempt'[b].stage = "complete" <=> attempt'[b].status # "running")
  BY <1>1, <1>3, <1>7, <1>8, PutAttempt
<1>10. op'[c] = o
  BY <1>4, <1>8, GotoFacts DEF OrdersInv
<1>11. OpRests(c)' /\ PromoteRests(c)'
  BY <1>3, <1>4, <1>10 DEF OpRests, Holding, Building, PromoteRests
<1>12. /\ kept' \in [Clients -> Kepts] /\ owner' \in [Tasks -> Clients \cup {None}]
       /\ \A d \in Clients \ {c} : kept'[d] = kept[d]
       /\ kept'[c] = k
  BY <1>1, <1>5, <1>8 DEF OrdersTypeOK
<1>13. TaskRests(c)'
  BY <1>3, <1>4, <1>5, <1>7, <1>8, <1>9, <1>10, <1>12
  DEF TaskRests, Asked, Building, Running, At, Allows, tables
<1>14. \A b \in Tasks : attempt'[b] # attempt[b] => owner[b] = c /\ AttemptRests(b)'
  BY <1>3, <1>7, <1>9 DEF AttemptRests
<1> QED
  BY <1>4, <1>8, <1>9, <1>11, <1>12, <1>13, <1>14, GoingKeeps

\* A smoke of the attempt's revision that ended ran what the attempt's review saw.
LEMMA SmokeDoneKeeps ==
  ASSUME RevisionAssumption, OrdersAssumption, OrdersInv, NEW c \in Clients, SmokeDone(c)
  PROVE  OrdersInv' /\ EndedStays
<1>1. op[c].at = "smoked" /\ OrdersTypeOK /\ IndInv /\ Return(c)
      /\ UNCHANGED <<files, tables, built, lease, left, listed>>
  BY DEF SmokeDone, OrdersInv
<1>2. PICK a \in Tasks, i \in Ids, r \in Runs : a = op[c].task /\ i = op[c].id /\ r = op[c].run
  BY <1>1, OwnTask DEF Asked, OrdersInv, TaskRests, At
<1>3. /\ op[c] \in Ops /\ owner[a] = c /\ Running(a) /\ attempt[a] \in Attempts
      /\ built[i] = attempt[a].source /\ attempt[a].harness = i
      /\ Allows(i, kept[c].src, kept[c].bin)
      /\ run[r] # None /\ run[r].kind = "smoke" /\ run[r].status = "done" /\ run[r].harness = i
  BY <1>1, <1>2, OwnTask DEF Asked, OrdersInv, TaskRests, At, RevisionAssumption
<1>4. Allows(i, run[r].source, run[r].binary) /\ ReviewRests(i)
  BY <1>2, <1>3 DEF OrdersInv, IndInv, RunRests
<1>5. /\ run[r].source = kept[c].src /\ run[r].binary = kept[c].bin
      /\ run[r].source = attempt[a].source
  BY <1>3, <1>4 DEF Allows, ReviewRests
<1> DEFINE x == Attempt(attempt[a].source, "smoke_passed", "complete", i, r, kept[c])
<1>6. attempt[a].source \in Sources /\ kept[c] \in Kepts
  BY <1>1, <1>3 DEF Attempts, OrdersTypeOK
<1>7. /\ x \in Attempts /\ x # None
      /\ x.source = attempt[a].source /\ x.status = "smoke_passed" /\ x.stage = "complete"
      /\ x.harness = i /\ x.run = r /\ x.kept = kept[c]
  BY <1>6, AttemptFacts DEF Statuses
<1>8. i # None
  BY DEF RevisionAssumption, Ids
<1>9. attempt' = [attempt EXCEPT ![a] = x]
  BY <1>2, <1>3, <1>8 DEF SmokeDone, Complete
<1> HIDE DEF x
<1>10. /\ attempt' \in [Tasks -> Attempts \cup {None}]
       /\ attempt'[a] = x
       /\ \A b \in Tasks : b # a => attempt'[b] = attempt[b]
       /\ EndedStays
       /\ \A b \in Tasks : attempt'[b] # None =>
             (attempt'[b].stage = "complete" <=> attempt'[b].status # "running")
  BY <1>1, <1>3, <1>7, <1>9, PutAttempt
<1>11. run' = run /\ built' = built
  BY <1>1 DEF tables
<1>12. PassedRests(a)'
  BY <1>3, <1>5, <1>7, <1>10, <1>11 DEF PassedRests
<1>13. \A b \in Tasks : attempt'[b] # attempt[b] => owner[b] = c /\ AttemptRests(b)'
  BY <1>3, <1>7, <1>10, <1>12 DEF AttemptRests
<1>14. left' \in [Faults -> Nat]
  BY <1>1 DEF IndInv, TypeOK
<1> QED
  BY <1>1, <1>10, <1>13, <1>14, ReturnKeeps

\* A stage that failed ends the attempt, as neither passed nor interrupted.
LEMMA CompleteFailedKeeps ==
  ASSUME RevisionAssumption, OrdersAssumption, OrdersInv, NEW c \in Clients, CompleteFailed(c)
  PROVE  OrdersInv' /\ EndedStays
<1>1. op[c].at = "failed" /\ OrdersTypeOK /\ IndInv /\ Return(c)
      /\ UNCHANGED <<files, tables, built, lease, left, listed>>
  BY DEF CompleteFailed, OrdersInv
<1>2. PICK a \in Tasks : a = op[c].task
  BY <1>1, OwnTask DEF Asked
<1>3. op[c] \in Ops /\ owner[a] = c /\ Running(a) /\ attempt[a] \in Attempts
  BY <1>1, <1>2, OwnTask DEF Asked
<1> DEFINE h == IF attempt[a].harness = None /\ kept[c].stage # "compile"
                  THEN op[c].id ELSE attempt[a].harness
           status == FailedStatus(kept[c].stage)
           x == Attempt(attempt[a].source, status, "complete", h, op[c].run, kept[c])
<1>4. /\ attempt[a].source \in Sources /\ kept[c] \in Kepts
      /\ h \in Ids \cup {None} /\ op[c].run \in Runs \cup {None}
  BY <1>1, <1>3 DEF Attempts, OrdersTypeOK, Ops
<1>5. status \in Statuses /\ status \notin {"running", "smoke_passed", "interrupted"}
  BY DEF FailedStatus, Statuses
<1>6. attempt' = [attempt EXCEPT ![a] = x]
  BY <1>2 DEF CompleteFailed, Complete
<1> HIDE DEF h, status
<1>7. x \in Attempts /\ x # None /\ x.status = status /\ x.stage = "complete"
  BY <1>4, <1>5, AttemptFacts
<1> HIDE DEF x
<1>8. /\ attempt' \in [Tasks -> Attempts \cup {None}]
      /\ attempt'[a] = x
      /\ \A b \in Tasks : b # a => attempt'[b] = attempt[b]
      /\ EndedStays
      /\ \A b \in Tasks : attempt'[b] # None =>
            (attempt'[b].stage = "complete" <=> attempt'[b].status # "running")
  BY <1>1, <1>3, <1>5, <1>6, <1>7, PutAttempt
<1>9. \A b \in Tasks : attempt'[b] # attempt[b] => owner[b] = c /\ AttemptRests(b)'
  BY <1>3, <1>5, <1>7, <1>8 DEF AttemptRests
<1>10. left' \in [Faults -> Nat]
  BY <1>1 DEF IndInv, TypeOK
<1> QED
  BY <1>1, <1>8, <1>9, <1>10, ReturnKeeps

\* A promotion is asked for with what a passed attempt kept.
LEMMA PromoteAttemptKeeps ==
  ASSUME RevisionAssumption, OrdersInv, NEW c \in Clients, NEW a \in Tasks,
         PromoteAttempt(c, a)
  PROVE  OrdersInv' /\ EndedStays
<1>1. /\ OrdersTypeOK /\ IndInv /\ attempt[a] # None /\ PromotionEvidence(a)
      /\ UNCHANGED <<files, tables, built, lease, left, orders>>
  BY DEF PromoteAttempt, OrdersInv
<1>2. attempt[a].status = "smoke_passed" /\ PassedRests(a) /\ attempt[a] \in Attempts
  BY <1>1 DEF PromotionEvidence, OrdersInv, AttemptRests, OrdersTypeOK
<1>3. PICK i \in Ids, s \in Sources, b \in Ids :
        i = attempt[a].harness /\ s = attempt[a].kept.src /\ b = attempt[a].kept.bin
  <2>1. attempt[a].harness \in Ids /\ attempt[a].kept.src \in Sources
    BY <1>2 DEF PassedRests, Attempts
  <2>2. run[attempt[a].run] \in RunRows
    BY <1>1, <1>2 DEF PassedRests, IndInv, TypeOK
  <2>3. attempt[a].kept.bin \in Ids
    BY <1>2, <2>2 DEF PassedRests, RunRows
  <2> QED
    BY <2>1, <2>3
<1>4. run[attempt[a].run].result = "clean"
  <2>1. SmokeOf(i, row[i].smoke) /\ row[i].smoke.run = attempt[a].run
        /\ row[i].smoke.result = "clean"
    <3>1. row[i] # None
      BY <1>1, <1>2, <1>3 DEF PassedRests, IndInv, RunRests
    <3> QED
      BY <1>1, <1>3, <3>1 DEF PromotionEvidence, IndInv, RowRests
  <2> QED
    BY <2>1 DEF SmokeOf
<1>5. ShownClean(i, s, b)
  BY <1>1, <1>2, <1>3, <1>4 DEF ShownClean, PassedRests
<1> DEFINE o == [Idle EXCEPT !.at = "promote", !.id = i, !.src = s, !.bin = b]
<1>6. o \in Ops /\ o.at = "promote" /\ o.task = None /\ o.id = i /\ o.src = s /\ o.bin = b
  BY IdleType DEF Ops, Places, Waiting, Idle
<1>7. Goto(c, o)
  BY <1>3 DEF PromoteAttempt
<1> HIDE DEF o
<1>8. op'[c] = o
  BY <1>1, <1>6, <1>7, GotoFacts
<1>9. OpRests(c)' /\ TaskRests(c)'
  BY <1>6, <1>8 DEF OpRests, Holding, Building, TaskRests, Asked
<1>10. ShownClean(i, s, b)'
  BY <1>1, <1>5 DEF ShownClean, orders, tables
<1>11. PromoteRests(c)'
  BY <1>6, <1>8, <1>10 DEF PromoteRests
<1>12. attempt' = attempt /\ owner' = owner /\ kept' = kept /\ listed' = listed
  BY <1>1 DEF orders
<1>13. /\ attempt' \in [Tasks -> Attempts \cup {None}] /\ EndedStays
       /\ kept' \in [Clients -> Kepts]
       /\ owner' \in [Tasks -> Clients \cup {None}]
       /\ \A d \in Tasks : attempt'[d] # None =>
             (attempt'[d].stage = "complete" <=> attempt'[d].status # "running")
  BY <1>1, <1>12 DEF OrdersTypeOK, EndedStays
<1> QED
  BY <1>1, <1>6, <1>7, <1>9, <1>11, <1>12, <1>13, GoingKeeps

\* A dropped call gives back both locks and leaves its attempt running.
LEMMA DropKeeps ==
  ASSUME RevisionAssumption, OrdersInv, NEW c \in Clients, DropAttempt(c)
  PROVE  OrdersInv' /\ EndedStays
<1>1. OrdersTypeOK /\ IndInv /\ Drop(c) /\ Let(c) /\ attempt' = attempt /\ listed' = listed
  BY DEF DropAttempt, OrdersInv
<1>2. IndInv' /\ Frame(c)
  BY <1>1, WorkRests, Frames DEF Works
<1>3. op'[c] = Idle /\ review' = review /\ approval' = approval
  BY <1>1, IdleType, GotoFacts DEF Drop, tables
<1>4. TaskRests(c)' /\ PromoteRests(c)'
  BY <1>3, IdleRests
<1>5. OrdersTypeOK'
  BY <1>1, LetFacts DEF OrdersTypeOK
<1>6. OrderFrame(c)
  BY <1>1, LetFacts DEF OrderFrame, EndedStays
<1>7. OrdersStep
  BY <1>1, <1>3 DEF OrdersStep
<1> QED
  BY <1>2, <1>4, <1>5, <1>6, <1>7, OrdersTogether DEF OrderFrame

-----------------------------------------------------------------------------
(* Recovery.                                                                *)

\* A pass that only reads, or that fails, changes no attempt.
LEMMA ListKeeps ==
  ASSUME RevisionAssumption, OrdersInv, RecoverList \/ RecoverFails
  PROVE  OrdersInv' /\ EndedStays
<1>1. /\ OrdersTypeOK /\ IndInv /\ listed' \subseteq Tasks
      /\ UNCHANGED <<files, tables, built, lease, op, attempt, owner, kept>>
  BY DEF RecoverList, RecoverFails, OrdersInv, vars, files, tables
<1>2. left' \in [Faults -> Nat]
  <2>1. UNCHANGED left \/ \E S : Spend(S)
    BY DEF RecoverList, RecoverFails, vars
  <2> QED
    BY <1>1, <2>1, SpendType DEF IndInv, TypeOK
<1>3. op' \in [Clients -> Ops] /\ \A d \in Clients \ {None} : op'[d] = op[d]
  BY <1>1 DEF IndInv, TypeOK
<1>4. None \notin Clients
  BY DEF RevisionAssumption
<1>5. IndInv' /\ Frame(None)
  BY <1>1, <1>2, <1>3, <1>4, QuietStep
<1>6. OrdersTypeOK'
  BY <1>1 DEF OrdersTypeOK
<1>7. OrderFrame(None)
  BY <1>1 DEF OrderFrame, EndedStays
<1>8. OrdersStep
  BY <1>1 DEF OrdersStep, tables
<1> QED
  BY <1>4, <1>5, <1>6, <1>7, <1>8, OrdersTogether DEF OrderFrame

\* An attempt is interrupted only if it is running and nobody has its lock.
LEMMA RecoverOneKeeps ==
  ASSUME RevisionAssumption, OrdersAssumption, OrdersInv, NEW a \in Tasks, RecoverOne(a)
  PROVE  OrdersInv' /\ EndedStays
<1>1. /\ OrdersTypeOK /\ IndInv /\ listed' \subseteq Tasks
      /\ UNCHANGED <<vars, owner, kept>>
  BY DEF RecoverOne, OrdersInv, OrdersTypeOK
<1>2. /\ UNCHANGED <<files, tables, built, lease>> /\ left' \in [Faults -> Nat]
      /\ op' \in [Clients -> Ops] /\ \A d \in Clients \ {None} : op'[d] = op[d]
      /\ review' = review /\ approval' = approval
  BY <1>1 DEF IndInv, TypeOK, vars, files, tables
<1>3. None \notin Clients
  BY DEF RevisionAssumption
<1>4. IndInv' /\ Frame(None)
  BY <1>1, <1>2, <1>3, QuietStep
<1>5. CASE attempt' = attempt
  <2>1. OrdersTypeOK'
    BY <1>1, <1>5 DEF OrdersTypeOK
  <2>2. OrderFrame(None) /\ OrdersStep
    BY <1>1, <1>2, <1>5 DEF OrderFrame, EndedStays, OrdersStep
  <2> QED
    BY <1>3, <1>4, <2>1, <2>2, OrdersTogether DEF OrderFrame
<1>6. CASE attempt' # attempt
  <2> DEFINE t == attempt[a]
             x == Attempt(t.source, "interrupted", "complete", t.harness, t.run, t.kept)
  <2>1. owner[a] = None /\ Interrupt(a)
    BY <1>6 DEF RecoverOne
  <2>2. Running(a)
    BY <1>1, <1>6, <2>1 DEF Interrupt, OrdersTypeOK
  <2>3. attempt' = [attempt EXCEPT ![a] = x]
    BY <2>1, <2>2 DEF Interrupt
  <2>4. t \in Attempts
    BY <1>1, <2>2 DEF OrdersTypeOK, Running
  <2>5. x \in Attempts /\ x # None /\ x.status = "interrupted" /\ x.stage = "complete"
    <3>1. /\ t.source \in Sources /\ t.harness \in Ids \cup {None}
          /\ t.run \in Runs \cup {None} /\ t.kept \in Kepts
      BY <2>4 DEF Attempts
    <3>2. "interrupted" \in Statuses
      BY DEF Statuses
    <3> QED
      BY <3>1, <3>2, AttemptFacts
  <2> HIDE DEF x
  <2>6. /\ attempt' \in [Tasks -> Attempts \cup {None}]
        /\ attempt'[a] = x
        /\ \A b \in Tasks : b # a => attempt'[b] = attempt[b]
        /\ EndedStays
        /\ \A b \in Tasks : attempt'[b] # None =>
              (attempt'[b].stage = "complete" <=> attempt'[b].status # "running")
    BY <1>1, <2>2, <2>3, <2>5, PutAttempt
  <2>7. OrdersTypeOK'
    BY <1>1, <2>6 DEF OrdersTypeOK
  <2>8. AttemptRests(a)'
    BY <1>1, <2>1, <2>5, <2>6 DEF AttemptRests
  <2>9. OrderFrame(None)
    BY <1>1, <2>1, <2>6 DEF OrderFrame
  <2>10. OrdersStep
    BY <1>2, <2>6, <2>8 DEF OrdersStep
  <2> QED
    BY <1>3, <1>4, <2>6, <2>7, <2>9, <2>10, OrdersTogether
<1> QED
  BY <1>5, <1>6

-----------------------------------------------------------------------------
\* Nothing has been qualified yet.
LEMMA InitOrders == RevisionAssumption /\ WorkOrdersInit => OrdersInv
<1> SUFFICES ASSUME RevisionAssumption, WorkOrdersInit PROVE OrdersInv
  OBVIOUS
<1>1. IndInv /\ Init /\ OrdersInit
  BY InitRests DEF WorkOrdersInit
<1>2. Nothing \in Kepts
  BY DEF Nothing, Kepts
<1>3. OrdersTypeOK
  BY <1>1, <1>2 DEF OrdersInit, OrdersTypeOK
<1>4. \A c \in Clients : op[c].at = "idle" /\ op[c].task = None
  BY <1>1 DEF Init, Idle
<1>5. \A c \in Clients : TaskRests(c) /\ PromoteRests(c)
  BY <1>4 DEF TaskRests, Asked, PromoteRests
<1>6. (\A i \in Ids : ReviewRests(i)) /\ ApprovedAsAttempted
  BY <1>1 DEF Init, ReviewRests, ApprovedAsAttempted
<1>7. \A a \in Tasks : AttemptRests(a)
  BY <1>1 DEF OrdersInit, AttemptRests
<1> QED
  BY <1>1, <1>3, <1>5, <1>6, <1>7 DEF OrdersInv

\* Every step keeps the invariant and every ended attempt.
LEMMA OrdersKeep ==
  ASSUME RevisionAssumption, OrdersAssumption, OrdersInv, WorkOrdersNext
  PROVE  OrdersInv' /\ EndedStays
<1>1. ASSUME NEW c \in Clients, Workspace(c) PROVE OrdersInv' /\ EndedStays
  BY <1>1, WorkspaceKeeps
<1>2. ASSUME NEW c \in Clients, Own(c) PROVE OrdersInv' /\ EndedStays
  BY <1>2, InsertKeeps, LeavingKeeps, StartCompileKeeps, RefusedKeeps, CompileDoneKeeps,
     ReviewDoneKeeps, SmokeDoneKeeps, CompleteFailedKeeps DEF Own
<1>3. ASSUME NEW c \in Clients, DropAttempt(c) PROVE OrdersInv' /\ EndedStays
  BY <1>3, DropKeeps
<1>4. ASSUME NEW c \in Clients, NEW a \in Tasks,
             PromoteAttempt(c, a) \/ \E s \in Sources : Qualify(c, a, s)
      PROVE  OrdersInv' /\ EndedStays
  BY <1>4, PromoteAttemptKeeps, QualifyKeeps
<1>5. ASSUME RecoverList \/ Recover PROVE OrdersInv' /\ EndedStays
  BY <1>5, ListKeeps, RecoverOneKeeps DEF Recover
<1> QED
  BY <1>1, <1>2, <1>3, <1>4, <1>5 DEF WorkOrdersNext

\* A step that changes nothing keeps it, too.
LEMMA OrdersStutter ==
  ASSUME RevisionAssumption, OrdersInv, UNCHANGED allVars
  PROVE  OrdersInv'
<1>1. UNCHANGED vars /\ UNCHANGED orders
  BY DEF allVars
<1>2. /\ UNCHANGED <<files, tables, built, lease>> /\ left' \in [Faults -> Nat]
      /\ op' \in [Clients -> Ops] /\ \A d \in Clients \ {None} : op'[d] = op[d]
      /\ review' = review /\ approval' = approval
  BY <1>1 DEF OrdersInv, IndInv, TypeOK, vars, files, tables
<1>3. None \notin Clients /\ IndInv
  BY DEF RevisionAssumption, OrdersInv
<1>4. IndInv' /\ Frame(None)
  BY <1>2, <1>3, QuietStep
<1>5. OrdersTypeOK'
  BY <1>1 DEF OrdersInv, OrdersTypeOK, orders
<1>6. OrderFrame(None) /\ OrdersStep
  BY <1>1, <1>2 DEF OrderFrame, EndedStays, OrdersStep, orders
<1> QED
  BY <1>3, <1>4, <1>5, <1>6, OrdersTogether

\* What the invariant says of attempts.
LEMMA OrdersImplies ==
  ASSUME RevisionAssumption, OrdersInv
  PROVE  AttemptsAreEvidence
<1>1. PassedIsItsOwn
  BY DEF OrdersInv, AttemptRests, PassedRests, PassedIsItsOwn
<1>2. ASSUME NEW a \in Tasks, attempt[a] # None, attempt[a].status = "interrupted"
      PROVE  owner[a] = None /\ \A c \in Clients : op[c].task # a
  <2>1. owner[a] = None
    BY <1>2 DEF OrdersInv, AttemptRests
  <2>2. ASSUME NEW c \in Clients, op[c].task = a PROVE FALSE
    <3>1. owner[a] = c
      BY <2>2 DEF OrdersInv, TaskRests, RevisionAssumption
    <3> QED
      BY <2>1, <3>1 DEF RevisionAssumption
  <2> QED
    BY <2>1, <2>2
<1> QED
  BY <1>1, <1>2 DEF AttemptsAreEvidence, InterruptedHasNoOwner

\* For any callers, attempts, sources, revisions, runs and failures: a passed
\* attempt names a finished smoke run of the revision it compiled, from the
\* submitted source and with the digests its review saw, although other callers
\* compile and smoke the target between its stages; and no attempt is interrupted
\* by recovery while somebody works on it (qualify_harness_work_order_submission,
\* recover_harness_work_order_attempts).
THEOREM AttemptsAlwaysEvidence ==
  ASSUME RevisionAssumption, OrdersAssumption
  PROVE  WorkOrdersSpec => []AttemptsAreEvidence
<1>1. WorkOrdersInit => OrdersInv
  BY InitOrders
<1>2. OrdersInv /\ [WorkOrdersNext]_allVars => OrdersInv'
  BY OrdersKeep, OrdersStutter
<1>3. OrdersInv => AttemptsAreEvidence
  BY OrdersImplies
<1> QED
  BY <1>1, <1>2, <1>3, PTL DEF WorkOrdersSpec

\* What is approved through a work order is what one of its attempts showed clean,
\* and while attempts work in the workspace what runs there is still what was
\* reviewed, smoked and approved (promote_harness_work_order_attempt).
THEOREM OrdersApproveWhatTheyShowed ==
  ASSUME RevisionAssumption, OrdersAssumption
  PROVE  WorkOrdersSpec => [](ApprovedAsAttempted /\ RanAsApproved)
<1>1. WorkOrdersInit => OrdersInv
  BY InitOrders
<1>2. OrdersInv /\ [WorkOrdersNext]_allVars => OrdersInv'
  BY OrdersKeep, OrdersStutter
<1>3. OrdersInv => ApprovedAsAttempted /\ RanAsApproved
  BY RestsImplies DEF OrdersInv
<1> QED
  BY <1>1, <1>2, <1>3, PTL DEF WorkOrdersSpec

\* An attempt that ended keeps its outcome: no late call and no recovery pass that
\* listed it earlier changes it.
THEOREM EndedAttemptsStay ==
  ASSUME RevisionAssumption, OrdersAssumption
  PROVE  WorkOrdersSpec => [][EndedStays]_allVars
<1>1. WorkOrdersInit => OrdersInv
  BY InitOrders
<1>2. OrdersInv /\ [WorkOrdersNext]_allVars => OrdersInv'
  BY OrdersKeep, OrdersStutter
<1>3. OrdersInv /\ WorkOrdersNext => EndedStays
  BY OrdersKeep
<1> QED
  BY <1>1, <1>2, <1>3, PTL DEF WorkOrdersSpec
================================================================================
