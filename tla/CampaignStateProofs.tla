------------------------- MODULE CampaignStateProofs --------------------------
(***************************************************************************)
(* For any processes, campaigns, fires, limits, budgets and faults: the     *)
(* lock-free gate counts the permits that are out, never lets more          *)
(* campaigns fuzz than some limit it has had and follows the setting, if    *)
(* every setter takes the schedule mutation lock; and in one process no     *)
(* campaign exceeds its allowance or is charged for what it did not do,     *)
(* whatever writes fail and whatever dies.                                  *)
(***************************************************************************)
EXTENDS CampaignState, TLAPS, FiniteSetTheorems

-------------------------------------------------------------------------------
(* What the operators compute.                                               *)

\* A fault that happens comes out of what is left of it.
LEMMA SpendType ==
  ASSUME TypeOK, NEW S, Spend(S)
  PROVE  left' \in [Faults -> Nat]
<1>1. left \in [Faults -> Nat]
  BY DEF TypeOK
<1>2. ASSUME NEW x \in Faults PROVE (IF x \in S THEN left[x] - 1 ELSE left[x]) \in Nat
  BY <1>1 DEF Spend
<1> QED
  BY <1>2 DEF Spend

\* The setting an operator gives is at least one.
LEMMA AtLeastOneFacts ==
  ASSUME NEW n \in Nat
  PROVE  AtLeastOne(n) \in Nat \ {0} /\ (n # 0 => AtLeastOne(n) = n)
BY DEF AtLeastOne

\* Addition that saturates stays in u32 and keeps the order.
LEMMA SaturateFacts ==
  ASSUME NEW a \in Nat, NEW b \in Nat
  PROVE  /\ Saturate(a) \in 0..MaxU32
         /\ a <= b => Saturate(a) <= Saturate(b)
         /\ b <= MaxU32 /\ a <= b => Saturate(a) <= b
BY NumberAssumption DEF Saturate

\* The store of a write is in memory only if the write succeeded, and in the file
\* unless it was lost.
LEMMA WriteFacts ==
  ASSUME TypeOK, NEW p \in Procs, NEW m \in Persisted, NEW w, WriteThrough(p, m, w)
  PROVE  /\ file' \in Persisted /\ file' \in {file, m}
         /\ mem' \in [Procs -> Persisted]
         /\ \A q \in Procs : q # p => mem'[q] = mem[q]
         /\ w = "ok" => mem'[p] = m /\ file' = m
         /\ w # "ok" => mem' = mem
BY DEF TypeOK, WriteThrough

\* One campaign's state is replaced.
LEMMA WithFacts ==
  ASSUME NEW m \in Persisted, NEW c \in Campaigns, NEW s \in State
  PROVE  /\ With(m, c, s) \in Persisted
         /\ With(m, c, s).max = m.max
         /\ With(m, c, s).states[c] = s
         /\ \A d \in Campaigns : d # c => With(m, c, s).states[d] = m.states[d]
BY DEF With, Persisted

\* The cursor wraps.
LEMMA CursorType ==
  ASSUME NEW s \in State
  PROVE  NextCursor(s) \in 0..CursorSpan-1
BY NumberAssumption DEF NextCursor, State

\* Advancing the cursor charges nobody.
LEMMA AdvanceFacts ==
  ASSUME NEW m \in Persisted, NEW c \in Campaigns
  PROVE  /\ AdvanceCursor(m, c) \in Persisted
         /\ AdvanceCursor(m, c).max = m.max
         /\ \A d \in Campaigns : AdvanceCursor(m, c).states[d].runs = m.states[d].runs
<1> DEFINE s == [m.states[c] EXCEPT !.cursor = NextCursor(m.states[c])]
<1>1. m.states[c] \in State
  BY DEF Persisted
<1>2. s \in State /\ s.runs = m.states[c].runs
  BY <1>1, CursorType DEF State
<1>3. AdvanceCursor(m, c) = With(m, c, s)
  BY DEF AdvanceCursor
<1> HIDE DEF s
<1> QED
  BY <1>2, <1>3, WithFacts

\* A success charges its campaign with its iterations, and no other.
LEMMA SuccessFacts ==
  ASSUME NEW m \in Persisted, NEW c \in Campaigns, NEW n \in Nat
  PROVE  /\ RecordSuccess(m, c, n) \in Persisted
         /\ RecordSuccess(m, c, n).max = m.max
         /\ RecordSuccess(m, c, n).states[c].runs = Saturate(m.states[c].runs + n)
         /\ \A d \in Campaigns : d # c =>
               RecordSuccess(m, c, n).states[d].runs = m.states[d].runs
<1> DEFINE s == [cursor |-> NextCursor(m.states[c]),
                 runs |-> Saturate(m.states[c].runs + n)]
<1>1. m.states[c] \in State /\ m.states[c].runs + n \in Nat
  BY NumberAssumption DEF Persisted, State
<1>2. s \in State /\ s.runs = Saturate(m.states[c].runs + n)
  BY <1>1, CursorType, SaturateFacts DEF State
<1>3. RecordSuccess(m, c, n) = With(m, c, s)
  BY DEF RecordSuccess
<1> HIDE DEF s
<1> QED
  BY <1>2, <1>3, WithFacts

\* Another limit changes nobody's progress.
LEMMA SettingFacts ==
  ASSUME NEW m \in Persisted, NEW n \in Nat
  PROVE  /\ [m EXCEPT !.max = AtLeastOne(n)] \in Persisted
         /\ [m EXCEPT !.max = AtLeastOne(n)].states = m.states
BY AtLeastOneFacts DEF Persisted

\* A forgotten campaign is as new, and the others are as they were.
LEMMA ForgetFacts ==
  ASSUME NEW m \in Persisted, NEW c \in Campaigns
  PROVE  LET x == [m EXCEPT !.known = @ \ {c}, !.states = [@ EXCEPT ![c] = ZeroState]] IN
         /\ x \in Persisted
         /\ x.max = m.max
         /\ \A d \in Campaigns : d # c => x.states[d] = m.states[d]
<1>1. ZeroState \in State
  BY NumberAssumption DEF ZeroState, State
<1> QED
  BY <1>1 DEF Persisted

\* The records of calls that are over.
LEMMA IdleFacts ==
  /\ Idle \in Dispatches /\ Idle.pc = "idle" /\ Idle.proc = None
  /\ SetterIdle \in Settings /\ SetterIdle.pc = "idle" /\ SetterIdle.proc = None
  /\ Empty \in Persisted /\ Empty.max = DefaultLimit
  /\ \A c \in Campaigns : Empty.states[c].runs = 0
<1>1. ZeroState \in State /\ ZeroState.runs = 0
  BY NumberAssumption DEF ZeroState, State
<1> QED
  BY <1>1, NumberAssumption DEF Idle, Dispatches, FirePCs, SetterIdle, Settings, Empty, Persisted

\* A fire that is not idle has a process and a campaign.
LEMMA FireFacts ==
  ASSUME IndInv, NEW f \in Fires, fire[f].pc # "idle"
  PROVE  /\ fire[f] \in Dispatches
         /\ fire[f].proc \in Procs /\ fire[f].proc \in up
         /\ fire[f].camp \in Campaigns
<1>1. fire[f] \in Dispatches /\ FireRests(f) /\ up \subseteq Procs
  BY DEF IndInv, TypeOK, FiresRest
<1> QED
  BY <1>1 DEF FireRests

\* A caller who is setting the limit has a process.
LEMMA SetterFacts ==
  ASSUME IndInv, NEW s \in Setters, setter[s].pc # "idle"
  PROVE  /\ setter[s] \in Settings
         /\ setter[s].proc \in Procs /\ setter[s].proc \in up
<1>1. setter[s] \in Settings /\ SetterLives(s) /\ up \subseteq Procs
  BY DEF IndInv, TypeOK
<1> QED
  BY <1>1 DEF SetterLives

\* The slots of a gate are finitely many.
LEMMA SlotsFinite ==
  ASSUME NEW p
  PROVE  IsFiniteSet(Slots(p)) /\ Cardinality(Slots(p)) \in Nat
<1>1. Slots(p) \in SUBSET Fires
  BY DEF Slots
<1> QED
  BY <1>1, SetAssumption, FS_Subset, FS_CardinalityType

\* A fire with a permit is counted.
LEMMA SlotCounted ==
  ASSUME IndInv, NEW f \in Fires, HasSlot(f)
  PROVE  running[fire[f].proc] \in Nat \ {0}
<1>1. fire[f].proc \in Procs
  BY FireFacts DEF HasSlot
<1>2. f \in Slots(fire[f].proc)
  BY DEF Slots
<1>3. Cardinality(Slots(fire[f].proc)) # 0
  BY <1>2, SlotsFinite, FS_EmptySet
<1> QED
  BY <1>1, <1>3, SlotsFinite DEF IndInv, GateCountsPermits

\* A fire that returns gives back what it has, and touches no other.
LEMMA DropFacts ==
  ASSUME IndInv, NEW f \in Fires, fire[f].pc # "idle", NEW b \in BOOLEAN,
         b = HasSlot(f), DropPermits(f, b)
  PROVE  /\ fire' \in [Fires -> Dispatches] /\ fire' = [fire EXCEPT ![f] = Idle]
         /\ dispatching' \in [Procs -> SUBSET Campaigns]
         /\ \A p \in Procs : p # fire[f].proc => dispatching'[p] = dispatching[p]
         /\ dispatching'[fire[f].proc] = dispatching[fire[f].proc] \ {fire[f].camp}
         /\ running' \in [Procs -> Nat]
         /\ \A p \in Procs : running'[p] =
               IF b /\ p = fire[f].proc THEN running[p] - 1 ELSE running[p]
<1>1. fire[f].proc \in Procs /\ TypeOK
  BY FireFacts DEF IndInv
<1>2. fire' \in [Fires -> Dispatches] /\ fire' = [fire EXCEPT ![f] = Idle]
  BY <1>1, IdleFacts DEF TypeOK, DropPermits
<1>3. /\ dispatching' \in [Procs -> SUBSET Campaigns]
      /\ \A p \in Procs : p # fire[f].proc => dispatching'[p] = dispatching[p]
      /\ dispatching'[fire[f].proc] = dispatching[fire[f].proc] \ {fire[f].camp}
  BY <1>1 DEF TypeOK, DropPermits
<1>4. CASE b
  <2>1. running[fire[f].proc] \in Nat \ {0}
    BY <1>4, SlotCounted
  <2>2. running' = [running EXCEPT ![fire[f].proc] = @ - 1]
    BY <1>4 DEF DropPermits
  <2> QED
    BY <1>1, <1>2, <1>3, <1>4, <2>1, <2>2 DEF TypeOK
<1>5. CASE ~b
  BY <1>1, <1>2, <1>3, <1>5 DEF TypeOK, DropPermits
<1> QED
  BY <1>4, <1>5

\* What keeps the fires as they are keeps what they rest on.
LEMMA FiresKept ==
  ASSUME IndInv, UNCHANGED << fire, dispatching, up >>,
         \A p \in Procs : highest[p] <= highest'[p], highest' \in [Procs -> Nat]
  PROVE  FiresRest'
<1>1. OneFireEach'
  BY DEF IndInv, FiresRest, OneFireEach, InFlight
<1>2. ASSUME NEW f \in Fires PROVE FireRests(f)'
  <2>1. FireRests(f) /\ TypeOK
    BY DEF IndInv, FiresRest
  <2>2. CASE fire[f].pc = "cas"
    <3>1. fire[f].proc \in Procs /\ fire[f] \in Dispatches
      BY <2>2, FireFacts
    <3>2. fire[f].cur \in Nat /\ highest[fire[f].proc] \in Nat /\ highest'[fire[f].proc] \in Nat
      BY <3>1, <2>1 DEF Dispatches, TypeOK
    <3>3. fire[f].cur < highest'[fire[f].proc]
      BY <2>1, <2>2, <3>1, <3>2 DEF FireRests
    <3> QED
      BY <2>1, <3>3 DEF FireRests, InFlight
  <2>3. CASE fire[f].pc # "cas"
    BY <2>1, <2>3 DEF FireRests, InFlight
  <2> QED
    BY <2>2, <2>3
<1> QED
  BY <1>1, <1>2 DEF FiresRest

\* A fire that goes on in its process, with its campaign, disturbs no other.
LEMMA FireMoves ==
  ASSUME IndInv, NEW f \in Fires, InFlight(f), NEW x \in Dispatches,
         fire' = [fire EXCEPT ![f] = x], x.proc = fire[f].proc, x.camp = fire[f].camp,
         x.pc # "idle", x.pc = "cas" => x.cur < highest[x.proc],
         UNCHANGED << dispatching, up, highest >>
  PROVE  FiresRest'
<1>1. TypeOK /\ FiresRest
  BY DEF IndInv
<1>2. \A g \in Fires : fire'[g] = IF g = f THEN x ELSE fire[g]
  BY <1>1 DEF TypeOK
<1>3. \A g \in Fires : fire'[g].proc = fire[g].proc /\ fire'[g].camp = fire[g].camp
  BY <1>2
<1>4. \A g \in Fires : InFlight(g)' => InFlight(g)
  BY <1>2 DEF InFlight
<1>5. OneFireEach'
  BY <1>1, <1>3, <1>4 DEF FiresRest, OneFireEach
<1>6. ASSUME NEW g \in Fires PROVE FireRests(g)'
  <2>1. CASE g = f
    BY <1>1, <1>2, <1>4, <2>1 DEF FiresRest, FireRests, InFlight
  <2>2. CASE g # f
    BY <1>1, <1>2, <2>2 DEF FiresRest, FireRests, InFlight
  <2> QED
    BY <2>1, <2>2
<1> QED
  BY <1>5, <1>6 DEF FiresRest

\* A fire that returns leaves the others what they rest on.
LEMMA FireReturns ==
  ASSUME IndInv, NEW f \in Fires, InFlight(f), NEW b \in BOOLEAN, b = HasSlot(f),
         DropPermits(f, b), UNCHANGED << up, highest >>
  PROVE  FiresRest'
<1>1. TypeOK /\ FiresRest /\ fire[f].pc # "idle"
  BY DEF IndInv, InFlight
<1>2. /\ fire' = [fire EXCEPT ![f] = Idle]
      /\ \A p \in Procs : p # fire[f].proc => dispatching'[p] = dispatching[p]
      /\ dispatching'[fire[f].proc] = dispatching[fire[f].proc] \ {fire[f].camp}
  BY <1>1, DropFacts
<1>3. \A g \in Fires : fire'[g] = IF g = f THEN Idle ELSE fire[g]
  BY <1>1, <1>2 DEF TypeOK
<1>4. \A g \in Fires : InFlight(g)' => InFlight(g) /\ g # f /\ fire'[g] = fire[g]
  BY <1>3, IdleFacts DEF InFlight
<1>5. OneFireEach'
  BY <1>1, <1>4 DEF FiresRest, OneFireEach
<1>6. ASSUME NEW g \in Fires PROVE FireRests(g)'
  <2>1. CASE g = f
    BY <1>3, <2>1, IdleFacts DEF FireRests, InFlight
  <2>2. CASE g # f
    <3>1. fire'[g] = fire[g] /\ FireRests(g)
      BY <1>1, <1>3, <2>2 DEF FiresRest
    <3>2. ASSUME InFlight(g) PROVE fire[g].camp \in dispatching'[fire[g].proc]
      <4>1. fire[g].proc \in Procs /\ fire[g].camp \in dispatching[fire[g].proc]
        BY <3>1, <3>2, FireFacts DEF FireRests, InFlight
      <4>2. fire[g].proc = fire[f].proc => fire[g].camp # fire[f].camp
        BY <1>1, <2>2, <3>2 DEF FiresRest, OneFireEach
      <4> QED
        BY <1>2, <4>1, <4>2
    <3> QED
      BY <3>1, <3>2 DEF FireRests, InFlight
  <2> QED
    BY <2>1, <2>2
<1> QED
  BY <1>5, <1>6 DEF FiresRest

\* Whoever keeps the permits, and the counts, keeps the gate's account of them.
LEMMA SlotsKept ==
  ASSUME IndInv, UNCHANGED running,
         \A g \in Fires : /\ HasSlot(g)' <=> HasSlot(g)
                          /\ HasSlot(g) => fire'[g].proc = fire[g].proc
  PROVE  GateCountsPermits'
<1>1. ASSUME NEW p \in Procs PROVE Slots(p)' = Slots(p)
  BY DEF Slots
<1> QED
  BY <1>1 DEF IndInv, GateCountsPermits

\* A slot that is given back is counted off.
LEMMA SlotReturns ==
  ASSUME IndInv, NEW f \in Fires, InFlight(f), NEW b \in BOOLEAN, b = HasSlot(f),
         DropPermits(f, b)
  PROVE  GateCountsPermits' /\ \A p \in Procs : running'[p] <= running[p]
<1>1. TypeOK /\ fire[f].pc # "idle" /\ fire[f].proc \in Procs
  BY FireFacts DEF IndInv, InFlight
<1>2. /\ fire' = [fire EXCEPT ![f] = Idle]
      /\ \A p \in Procs : running'[p] =
             IF b /\ p = fire[f].proc THEN running[p] - 1 ELSE running[p]
  BY <1>1, DropFacts
<1>3. \A p \in Procs : running'[p] <= running[p]
  BY <1>1, <1>2 DEF TypeOK
<1>4. \A g \in Fires : fire'[g] = IF g = f THEN Idle ELSE fire[g]
  BY <1>1, <1>2 DEF TypeOK
<1>5. ASSUME NEW p \in Procs PROVE running'[p] = Cardinality(Slots(p)')
  <2>1. Slots(p)' = Slots(p) \ {f}
    BY <1>4, IdleFacts DEF Slots, HasSlot
  <2>2. running[p] = Cardinality(Slots(p)) /\ IsFiniteSet(Slots(p))
    BY SlotsFinite DEF IndInv, GateCountsPermits
  <2>3. CASE f \in Slots(p)
    <3>1. b /\ p = fire[f].proc
      BY <2>3 DEF Slots
    <3>2. Cardinality(Slots(p) \ {f}) = Cardinality(Slots(p)) - 1
      BY <2>2, <2>3, FS_RemoveElement
    <3> QED
      BY <1>2, <2>1, <2>2, <3>1, <3>2
  <2>4. CASE f \notin Slots(p)
    <3>1. ~(b /\ p = fire[f].proc)
      BY <2>4 DEF Slots
    <3>2. Slots(p) \ {f} = Slots(p)
      BY <2>4
    <3> QED
      BY <1>2, <2>1, <2>2, <3>1, <3>2
  <2> QED
    BY <2>3, <2>4
<1> QED
  BY <1>3, <1>5 DEF GateCountsPermits

\* The process that is down has no permits out.
LEMMA DownIsEmpty ==
  ASSUME IndInv, NEW p \in Procs, p \notin up
  PROVE  running[p] = 0
<1>1. Slots(p) = {}
  BY FireFacts DEF Slots, HasSlot
<1> QED
  BY <1>1, FS_EmptySet DEF IndInv, GateCountsPermits

\* A write that keeps the setting keeps it in every process.
LEMMA MaxKept ==
  ASSUME TypeOK, NEW p \in Procs, NEW m \in Persisted, NEW w, WriteThrough(p, m, w),
         m.max = mem[p].max
  PROVE  \A q \in Procs : mem'[q].max = mem[q].max
BY WriteFacts

\* Who touches neither the setting nor its callers keeps them in agreement.
LEMMA SettingsKept ==
  ASSUME IndInv, Guarded = Setters, UNCHANGED << setter, up, limit >>,
         \A q \in Procs : mem'[q].max = mem[q].max
  PROVE  SettersRest' /\ GateFollowsSetting'
<1>1. SettersRest /\ GateFollowsSetting /\ up \subseteq Procs
  BY DEF IndInv, TypeOK
<1>2. SettersRest'
  BY <1>1, SetterFacts DEF SettersRest
<1>3. GateFollowsSetting'
  BY <1>1 DEF GateFollowsSetting
<1> QED
  BY <1>2, <1>3

\* Who charges nobody, and takes no new fire in flight, keeps what is charged
\* honest: the file may fall back on what memory has.
LEMMA AllowanceKept ==
  ASSUME IndInv, OneProcess, TypeOK', defs' \subseteq defs, UNCHANGED history,
         NEW p \in Procs,
         \A c \in defs', q \in Procs : mem'[q].states[c].runs = mem[q].states[c].runs,
         \A c \in defs' : file'.states[c].runs \in
            {file.states[c].runs, mem[p].states[c].runs},
         \A g \in Fires : InFlight(g)' =>
            /\ InFlight(g) /\ fire'[g].camp = fire[g].camp
            /\ fire'[g].proc = fire[g].proc /\ fire'[g].snap = fire[g].snap
  PROVE  AllowanceRests'
<1>1. AllowanceRests /\ TypeOK
  BY DEF IndInv
<1>2. ASSUME NEW g \in Fires PROVE SnapRests(g)'
  <2>1. SnapRests(g)
    BY <1>1 DEF AllowanceRests
  <2>2. InFlight(g) => fire[g].proc \in Procs
    BY FireFacts DEF InFlight
  <2> QED
    BY <2>1, <2>2 DEF SnapRests
<1>3. ASSUME NEW c \in defs'
      PROVE  ChargeRests(c)' /\ reported[c] <= file'.states[c].runs
               /\ file'.states[c].runs <= done[c]
  <2>1. ChargeRests(c) /\ reported[c] <= file.states[c].runs /\ file.states[c].runs <= done[c]
    BY <1>1 DEF AllowanceRests, ChargedIsHonest
  <2> QED
    BY <2>1 DEF ChargeRests, history
<1>4. BudgetHolds' /\ ChargedIsHonest'
  BY <1>1, <1>3 DEF AllowanceRests, BudgetHolds, ChargedIsHonest, history
<1> QED
  BY <1>2, <1>3, <1>4 DEF AllowanceRests

\* Who touches no store and no fire charges nobody, whatever processes there are.
LEMMA NothingCharged ==
  ASSUME IndInv, OneProcess, TypeOK', defs' \subseteq defs,
         UNCHANGED << file, mem, history, fire >>
  PROVE  AllowanceRests'
<1>1. AllowanceRests
  BY DEF IndInv
<1>2. \A g \in Fires : SnapRests(g)'
  BY <1>1 DEF AllowanceRests, SnapRests, InFlight
<1>3. \A c \in defs' : ChargeRests(c)'
  BY <1>1 DEF AllowanceRests, ChargeRests, history
<1>4. BudgetHolds' /\ ChargedIsHonest'
  BY <1>1 DEF AllowanceRests, BudgetHolds, ChargedIsHonest, history
<1> QED
  BY <1>2, <1>3, <1>4 DEF AllowanceRests

-------------------------------------------------------------------------------
\* Every step keeps the shapes.
LEMMA StepType ==
  ASSUME IndInv, Next
  PROVE  TypeOK'
<1>1. ASSUME NEW f \in Fires, NEW p \in Procs, NEW c \in Campaigns, Fire(f, p, c)
      PROVE  TypeOK'
  <2>1. [Idle EXCEPT !.pc = "fired", !.proc = p, !.camp = c] \in Dispatches
    BY IdleFacts DEF Dispatches, FirePCs
  <2> QED
    BY <1>1, <2>1 DEF IndInv, Fire, TypeOK, store, schedules, gates, history
<1>2. ASSUME NEW f \in Fires, Admit(f)
      PROVE  TypeOK'
  <2>1. TypeOK /\ fire[f].proc \in Procs /\ fire[f].camp \in Campaigns /\ fire[f] \in Dispatches
    BY <1>2, FireFacts DEF Admit, IndInv
  <2> DEFINE snap == mem[fire[f].proc].states[fire[f].camp]
  <2>2. snap \in State
    BY <2>1 DEF TypeOK, Persisted
  <2>3. [fire[f] EXCEPT !.pc = "load", !.snap = snap] \in Dispatches
    BY <2>1, <2>2 DEF Dispatches, FirePCs
  <2>4. fire' \in {[fire EXCEPT ![f] = Idle],
                    [fire EXCEPT ![f] = [fire[f] EXCEPT !.pc = "load", !.snap = snap]]}
    BY <1>2, <2>1 DEF Admit, TypeOK
  <2> HIDE DEF snap
  <2>5. fire' \in [Fires -> Dispatches]
    BY <2>1, <2>3, <2>4, IdleFacts DEF TypeOK
  <2>6. dispatching' \in [Procs -> SUBSET Campaigns] /\ pausing' \subseteq Campaigns
    BY <1>2, <2>1 DEF Admit, TypeOK
  <2> QED
    BY <1>2, <2>1, <2>5, <2>6 DEF Admit, TypeOK, store, schedules, gates, history
<1>3. ASSUME NEW f \in Fires, LoadRunning(f)
      PROVE  TypeOK'
  <2>1. TypeOK /\ fire[f] \in Dispatches /\ running[fire[f].proc] \in Nat
    BY <1>3, FireFacts DEF LoadRunning, IndInv, TypeOK
  <2>2. [fire[f] EXCEPT !.pc = "compare", !.cur = running[fire[f].proc]] \in Dispatches
    BY <2>1 DEF Dispatches, FirePCs
  <2>3. fire' = [fire EXCEPT ![f] = [fire[f] EXCEPT !.pc = "compare", !.cur = running[fire[f].proc]]]
    BY <1>3, <2>1 DEF LoadRunning, TypeOK
  <2> QED
    BY <1>3, <2>1, <2>2, <2>3 DEF LoadRunning, TypeOK, store, schedules, gates, history
<1>4. ASSUME NEW f \in Fires, CompareLimit(f)
      PROVE  TypeOK'
  <2>1. TypeOK /\ fire[f] \in Dispatches /\ ~HasSlot(f) /\ fire[f].pc # "idle"
    BY <1>4, FireFacts DEF CompareLimit, IndInv, HasSlot
  <2>2. CASE DropPermits(f, FALSE)
    <3>1. FALSE = HasSlot(f)
      BY <2>1 DEF HasSlot
    <3>2. /\ fire' \in [Fires -> Dispatches] /\ running' \in [Procs -> Nat]
          /\ dispatching' \in [Procs -> SUBSET Campaigns]
      BY <2>1, <2>2, <3>1, DropFacts
    <3> QED
      BY <1>4, <2>1, <3>2 DEF CompareLimit, TypeOK, store, schedules, gates, history
  <2>3. CASE ~DropPermits(f, FALSE)
    <3>1. [fire[f] EXCEPT !.pc = "cas"] \in Dispatches
      BY <2>1 DEF Dispatches, FirePCs
    <3>2. fire' = [fire EXCEPT ![f] = [fire[f] EXCEPT !.pc = "cas"]]
      BY <1>4, <2>1, <2>3 DEF CompareLimit, TypeOK
    <3> QED
      BY <1>4, <2>1, <2>3, <3>1, <3>2 DEF CompareLimit, TypeOK, store, schedules, gates, history
  <2> QED
    BY <2>2, <2>3
<1>5. ASSUME NEW f \in Fires, Cas(f)
      PROVE  TypeOK'
  <2>1. TypeOK /\ fire[f] \in Dispatches /\ fire[f].proc \in Procs
    BY <1>5, FireFacts DEF Cas, IndInv
  <2> DEFINE pc == IF running[fire[f].proc] = fire[f].cur THEN "admitted" ELSE "load"
  <2>2. [fire[f] EXCEPT !.pc = pc, !.cur = 0] \in Dispatches
    BY <2>1 DEF Dispatches, FirePCs
  <2>3. fire' = [fire EXCEPT ![f] = [fire[f] EXCEPT !.pc = pc, !.cur = 0]]
    BY <1>5, <2>1 DEF Cas, TypeOK
  <2>4. running' \in [Procs -> Nat]
    BY <1>5, <2>1 DEF Cas, TypeOK
  <2> HIDE DEF pc
  <2>5. fire' \in [Fires -> Dispatches]
    BY <2>1, <2>2, <2>3 DEF TypeOK
  <2> QED
    BY <1>5, <2>1, <2>4, <2>5 DEF Cas, TypeOK, store, schedules, gates, history
<1>6. ASSUME NEW f \in Fires, StartRun(f)
      PROVE  TypeOK'
  <2>1. TypeOK /\ fire[f] \in Dispatches
    BY <1>6, FireFacts DEF StartRun, IndInv
  <2>2. [fire[f] EXCEPT !.pc = "running"] \in Dispatches
    BY <2>1 DEF Dispatches, FirePCs
  <2>3. fire' = [fire EXCEPT ![f] = [fire[f] EXCEPT !.pc = "running"]]
    BY <1>6, <2>1 DEF StartRun, TypeOK
  <2> QED
    BY <1>6, <2>1, <2>2, <2>3 DEF StartRun, TypeOK, store, schedules, gates, history
<1>7. ASSUME NEW f \in Fires, FireCancelled(f)
      PROVE  TypeOK'
  <2>1. TypeOK /\ fire[f].pc # "idle" /\ HasSlot(f)
    BY <1>7 DEF IndInv, HasSlot, FireCancelled
  <2>2. /\ fire' \in [Fires -> Dispatches] /\ running' \in [Procs -> Nat]
        /\ dispatching' \in [Procs -> SUBSET Campaigns]
    BY <1>7, <2>1, DropFacts DEF FireCancelled
  <2> QED
    BY <1>7, <2>1, <2>2, SpendType DEF FireCancelled, TypeOK, store, schedules, gates, history
<1>8. ASSUME NEW f \in Fires, NEW w \in Writes, FireFails(f, w)
      PROVE  TypeOK'
  <2>1. TypeOK /\ fire[f].pc # "idle" /\ HasSlot(f)
    BY <1>8 DEF IndInv, HasSlot, FireFails
  <2>2. /\ fire' \in [Fires -> Dispatches] /\ running' \in [Procs -> Nat]
        /\ dispatching' \in [Procs -> SUBSET Campaigns]
    BY <1>8, <2>1, DropFacts DEF FireFails
  <2>3. AdvanceCursor(mem[fire[f].proc], fire[f].camp) \in Persisted
    BY <2>1, FireFacts, AdvanceFacts DEF TypeOK
  <2>4. file' \in Persisted /\ mem' \in [Procs -> Persisted]
    BY <1>8, <2>1, <2>3, FireFacts, WriteFacts DEF FireFails
  <2> QED
    BY <1>8, <2>1, <2>2, <2>4, SpendType DEF FireFails, TypeOK, store, schedules, gates, history
<1>9. ASSUME NEW f \in Fires, NEW w \in Writes, NEW n \in 0..PerFire, FireSucceeds(f, n, w)
      PROVE  TypeOK'
  <2>1. TypeOK /\ fire[f].pc # "idle" /\ HasSlot(f)
    BY <1>9 DEF IndInv, HasSlot, FireSucceeds
  <2>2. /\ fire' \in [Fires -> Dispatches] /\ running' \in [Procs -> Nat]
        /\ dispatching' \in [Procs -> SUBSET Campaigns]
    BY <1>9, <2>1, DropFacts DEF FireSucceeds
  <2>3. RecordSuccess(mem[fire[f].proc], fire[f].camp, n) \in Persisted
    BY <2>1, FireFacts, SuccessFacts DEF TypeOK
  <2>4. file' \in Persisted /\ mem' \in [Procs -> Persisted]
    BY <1>9, <2>1, <2>3, FireFacts, WriteFacts DEF FireSucceeds
  <2>5. done' \in [Campaigns -> 0..MaxU32] /\ reported' \in [Campaigns -> 0..MaxU32]
    <3>1. fire[f].camp \in Campaigns /\ n \in Nat
      BY <2>1, FireFacts
    <3>2. /\ Saturate(done[fire[f].camp] + n) \in 0..MaxU32
          /\ Saturate(reported[fire[f].camp] + n) \in 0..MaxU32
      BY <2>1, <3>1, NumberAssumption, SaturateFacts DEF TypeOK
    <3> QED
      BY <1>9, <2>1, <3>1, <3>2 DEF FireSucceeds, TypeOK
  <2> QED
    BY <1>9, <2>1, <2>2, <2>4, SpendType, <2>5 DEF FireSucceeds, TypeOK, store, schedules, gates, history
<1>10. ASSUME NEW f \in Fires, Refuse(f)
      PROVE  TypeOK'
  <2>1. TypeOK /\ fire[f].pc # "idle" /\ HasSlot(f)
    BY <1>10 DEF IndInv, HasSlot, Refuse
  <2>2. /\ fire' \in [Fires -> Dispatches] /\ running' \in [Procs -> Nat]
        /\ dispatching' \in [Procs -> SUBSET Campaigns]
    BY <1>10, <2>1, DropFacts DEF Refuse
  <2> QED
    BY <1>10, <2>1, <2>2, SpendType DEF Refuse, TypeOK, store, schedules, gates, history
<1>11. ASSUME NEW f \in Fires, Abort(f)
      PROVE  TypeOK'
  <2>1. TypeOK /\ fire[f].pc # "idle" /\ HasSlot(f)
    BY <1>11 DEF IndInv, HasSlot, Abort
  <2>2. /\ fire' \in [Fires -> Dispatches] /\ running' \in [Procs -> Nat]
        /\ dispatching' \in [Procs -> SUBSET Campaigns]
    BY <1>11, <2>1, DropFacts DEF Abort
  <2> QED
    BY <1>11, <2>1, <2>2, SpendType DEF Abort, TypeOK, store, schedules, gates, history
<1>12. ASSUME NEW c \in Campaigns, PauseSelf(c)
      PROVE  TypeOK'
  <2>1. TypeOK
    BY DEF IndInv
  <2> QED
    BY <1>12, <2>1, SpendType DEF PauseSelf, TypeOK, store, schedules, gates, history
<1>13. ASSUME NEW c \in Campaigns, Resume(c)
      PROVE  TypeOK'
  <2>1. TypeOK
    BY DEF IndInv
  <2> QED
    BY <1>13, <2>1, SpendType DEF Resume, TypeOK, store, schedules, gates, history
<1>14. ASSUME NEW c \in Campaigns, Remove(c)
      PROVE  TypeOK'
  <2>1. TypeOK
    BY DEF IndInv
  <2> QED
    BY <1>14, <2>1, SpendType DEF Remove, TypeOK, store, schedules, gates, history
<1>15. ASSUME NEW c \in Campaigns, NEW p \in Procs, NEW w \in Writes, Forget(c, p, w)
      PROVE  TypeOK'
  <2>1. TypeOK /\ mem[p] \in Persisted
    BY DEF IndInv, TypeOK
  <2> DEFINE x == [mem[p] EXCEPT !.known = @ \ {c}, !.states = [@ EXCEPT ![c] = ZeroState]]
  <2>2. x \in Persisted
    BY <2>1, ForgetFacts
  <2>3. WriteThrough(p, x, w) \/ UNCHANGED store
    BY <1>15 DEF Forget
  <2> HIDE DEF x
  <2>4. file' \in Persisted /\ mem' \in [Procs -> Persisted]
    BY <2>1, <2>2, <2>3, WriteFacts DEF TypeOK, store
  <2> QED
    BY <1>15, <2>1, <2>4, SpendType DEF Forget, TypeOK, gates, history
<1>16. ASSUME NEW s \in Setters, NEW p \in Procs, NEW n \in Limits, NEW w \in Writes, SetMax(s, p, n, w)
      PROVE  TypeOK'
  <2>1. TypeOK /\ mem[p] \in Persisted /\ n \in Nat
    BY NumberAssumption DEF IndInv, TypeOK
  <2>2. file' \in Persisted /\ mem' \in [Procs -> Persisted]
    BY <1>16, <2>1, SettingFacts, WriteFacts DEF SetMax
  <2>3. [SetterIdle EXCEPT !.pc = "read", !.proc = p] \in Settings
    BY IdleFacts DEF Settings
  <2>4. setter' \in [Setters -> Settings]
    BY <1>16, <2>1, <2>3 DEF SetMax, TypeOK
  <2> QED
    BY <1>16, <2>1, <2>2, <2>4, SpendType DEF SetMax, TypeOK, schedules, gates, history
<1>17. ASSUME NEW s \in Setters, ReadMax(s)
      PROVE  TypeOK'
  <2>1. TypeOK /\ setter[s] \in Settings
    BY DEF IndInv, TypeOK
  <2>2. mem[setter[s].proc].max \in Nat
    BY <1>17, <2>1, SetterFacts DEF ReadMax, TypeOK, Persisted
  <2>3. [setter[s] EXCEPT !.pc = "apply", !.value = mem[setter[s].proc].max] \in Settings
    BY <2>1, <2>2 DEF Settings
  <2>4. setter' = [setter EXCEPT ![s] = [setter[s] EXCEPT !.pc = "apply", !.value = mem[setter[s].proc].max]]
    BY <1>17, <2>1 DEF ReadMax, TypeOK
  <2> QED
    BY <1>17, <2>1, <2>3, <2>4 DEF ReadMax, TypeOK, store, schedules, gates, history
<1>18. ASSUME NEW s \in Setters, ApplyMax(s)
      PROVE  TypeOK'
  <2>1. TypeOK /\ setter[s] \in Settings /\ setter[s].proc \in Procs
    BY <1>18, SetterFacts DEF ApplyMax, IndInv, TypeOK
  <2> DEFINE n == AtLeastOne(setter[s].value)
  <2>2. n \in Nat \ {0}
    BY <2>1, AtLeastOneFacts DEF Settings
  <2>3. /\ limit' = [limit EXCEPT ![setter[s].proc] = n]
        /\ highest' = [highest EXCEPT ![setter[s].proc] = Larger(@, n)]
        /\ setter' = [setter EXCEPT ![s] = SetterIdle]
    BY <1>18 DEF ApplyMax
  <2> HIDE DEF n
  <2>4. /\ limit' \in [Procs -> Nat \ {0}] /\ highest' \in [Procs -> Nat]
        /\ setter' \in [Setters -> Settings]
    BY <2>1, <2>2, <2>3, IdleFacts DEF TypeOK, Larger
  <2> QED
    BY <1>18, <2>1, <2>4 DEF ApplyMax, TypeOK, store, schedules, gates, history
<1>19. ASSUME NEW p \in Procs, Crash(p)
      PROVE  TypeOK'
  <2>1. TypeOK
    BY DEF IndInv
  <2>2. /\ fire' \in [Fires -> Dispatches] /\ setter' \in [Setters -> Settings]
        /\ dispatching' \in [Procs -> SUBSET Campaigns] /\ running' \in [Procs -> Nat]
        /\ up' \subseteq Procs
    BY <1>19, <2>1, IdleFacts DEF Crash, TypeOK
  <2> QED
    BY <1>19, <2>1, <2>2, SpendType DEF Crash, TypeOK, store, schedules, gates, history
<1>20. ASSUME NEW p \in Procs, Restart(p)
      PROVE  TypeOK'
  <2>1. TypeOK /\ AtLeastOne(file.max) \in Nat \ {0}
    BY AtLeastOneFacts DEF IndInv, TypeOK, Persisted
  <2> QED
    BY <1>20, <2>1 DEF Restart, TypeOK, store, schedules, gates, history
<1> QED
  BY <1>1, <1>2, <1>3, <1>4, <1>5, <1>6, <1>7, <1>8, <1>9, <1>10,
     <1>11, <1>12, <1>13, <1>14, <1>15, <1>16, <1>17, <1>18, <1>19, <1>20 DEF Next, Step

\* Every step keeps what the fires rest on: a campaign is in its process's
\* registry for as long as its fire is in flight, and in no other fire's hands.
LEMMA StepFires ==
  ASSUME IndInv, Next, TypeOK'
  PROVE  FiresRest'
<1>1. ASSUME NEW f \in Fires, NEW p \in Procs, NEW c \in Campaigns, Fire(f, p, c)
      PROVE  FiresRest'
  <2>1. TypeOK /\ FiresRest
    BY DEF IndInv
  <2> DEFINE x == [Idle EXCEPT !.pc = "fired", !.proc = p, !.camp = c]
  <2>2. x.pc = "fired" /\ x.proc = p /\ x.camp = c
    BY IdleFacts DEF Idle
  <2>3. /\ fire' = [fire EXCEPT ![f] = x] /\ p \in up
        /\ UNCHANGED << up, dispatching, highest >>
    BY <1>1 DEF Fire, gates
  <2> HIDE DEF x
  <2>4. \A g \in Fires : fire'[g] = IF g = f THEN x ELSE fire[g]
    BY <2>1, <2>3 DEF TypeOK
  <2>5. ~InFlight(f)' /\ \A g \in Fires : g # f => (InFlight(g)' <=> InFlight(g))
    BY <2>2, <2>4 DEF InFlight
  <2>6. OneFireEach'
    BY <2>1, <2>4, <2>5 DEF FiresRest, OneFireEach
  <2>7. ASSUME NEW g \in Fires PROVE FireRests(g)'
    <3>1. CASE g = f
      BY <2>2, <2>3, <2>4, <2>5, <3>1 DEF FireRests
    <3>2. CASE g # f
      BY <2>1, <2>3, <2>4, <3>2 DEF FiresRest, FireRests, InFlight
    <3> QED
      BY <3>1, <3>2
  <2> QED
    BY <2>6, <2>7 DEF FiresRest
<1>2. ASSUME NEW f \in Fires, Admit(f)
      PROVE  FiresRest'
  <2>1. TypeOK /\ FiresRest /\ fire[f].pc = "fired" /\ ~InFlight(f)
    BY <1>2 DEF Admit, IndInv, InFlight
  <2>2. /\ fire[f] \in Dispatches /\ fire[f].proc \in Procs /\ fire[f].proc \in up
        /\ fire[f].camp \in Campaigns
    BY <2>1, FireFacts
  <2>3. UNCHANGED << up, highest >>
    BY <1>2 DEF Admit, gates
  <2>4. CASE fire' = [fire EXCEPT ![f] = Idle] /\ UNCHANGED dispatching
    <3>1. \A g \in Fires : fire'[g] = IF g = f THEN Idle ELSE fire[g]
      BY <2>1, <2>4 DEF TypeOK
    <3>2. ~InFlight(f)' /\ \A g \in Fires : g # f => (InFlight(g)' <=> InFlight(g))
      BY <3>1, IdleFacts DEF InFlight
    <3>3. OneFireEach'
      BY <2>1, <3>1, <3>2 DEF FiresRest, OneFireEach
    <3>4. \A g \in Fires : FireRests(g)'
      BY <2>1, <2>3, <2>4, <3>1, IdleFacts DEF FiresRest, FireRests, InFlight
    <3> QED
      BY <3>3, <3>4 DEF FiresRest
  <2>5. CASE /\ TryDispatch(fire[f].proc, fire[f].camp)
             /\ dispatching' = [dispatching EXCEPT ![fire[f].proc] = @ \cup {fire[f].camp}]
             /\ fire' = [fire EXCEPT ![f].pc = "load",
                                     ![f].snap = mem[fire[f].proc].states[fire[f].camp]]
    <3>1. /\ \A g \in Fires : g # f => fire'[g] = fire[g]
          /\ fire'[f].pc = "load" /\ fire'[f].proc = fire[f].proc /\ fire'[f].camp = fire[f].camp
      BY <2>1, <2>2, <2>5 DEF TypeOK, Dispatches
    <3>2. /\ \A p \in Procs : dispatching[p] \subseteq dispatching'[p]
          /\ fire[f].camp \in dispatching'[fire[f].proc]
      BY <2>1, <2>2, <2>5 DEF TypeOK
    <3>3. ASSUME NEW g \in Fires, g # f, InFlight(g), fire[g].proc = fire[f].proc
          PROVE  fire[g].camp # fire[f].camp
      BY <2>1, <2>5, <3>3 DEF FiresRest, FireRests, TryDispatch
    <3>4. \A g \in Fires : g # f => (InFlight(g)' <=> InFlight(g))
      BY <3>1 DEF InFlight
    <3>5. OneFireEach'
      BY <2>1, <3>1, <3>3, <3>4 DEF FiresRest, OneFireEach
    <3>6. ASSUME NEW g \in Fires PROVE FireRests(g)'
      <4>1. CASE g = f
        BY <2>2, <2>3, <3>1, <3>2, <4>1 DEF FireRests
      <4>2. CASE g # f
        <5>1. fire'[g] = fire[g] /\ FireRests(g)
          BY <2>1, <3>1, <4>2 DEF FiresRest
        <5>2. fire[g].pc # "idle" => fire[g].proc \in Procs
          BY FireFacts
        <5> QED
          BY <2>3, <3>2, <5>1, <5>2 DEF FireRests, InFlight
      <4> QED
        BY <4>1, <4>2
    <3> QED
      BY <3>5, <3>6 DEF FiresRest
  <2> QED
    BY <1>2, <2>4, <2>5 DEF Admit
<1>3. ASSUME NEW f \in Fires, LoadRunning(f)
      PROVE  FiresRest'
  <2>1. InFlight(f) /\ fire[f] \in Dispatches /\ fire[f].proc \in Procs /\ TypeOK
    BY <1>3, FireFacts DEF LoadRunning, IndInv, InFlight
  <2> DEFINE x == [fire[f] EXCEPT !.pc = "compare", !.cur = running[fire[f].proc]]
  <2>2. fire' = [fire EXCEPT ![f] = x] /\ UNCHANGED << dispatching, up, highest >>
    BY <1>3, <2>1 DEF LoadRunning, TypeOK, gates
  <2>3. x \in Dispatches /\ x.proc = fire[f].proc /\ x.camp = fire[f].camp /\ x.pc \in {"compare"}
    BY <2>1 DEF Dispatches, FirePCs, TypeOK
  <2> HIDE DEF x
  <2> QED
    BY <2>1, <2>2, <2>3, FireMoves
<1>4. ASSUME NEW f \in Fires, CompareLimit(f)
      PROVE  FiresRest'
  <2>1. /\ InFlight(f) /\ fire[f] \in Dispatches /\ fire[f].proc \in Procs /\ TypeOK
        /\ FALSE = HasSlot(f) /\ UNCHANGED << up, highest >>
    BY <1>4, FireFacts DEF CompareLimit, IndInv, InFlight, HasSlot
  <2>2. CASE fire[f].cur >= limit[fire[f].proc]
    <3>1. DropPermits(f, FALSE)
      BY <1>4, <2>2 DEF CompareLimit
    <3> QED
      BY <2>1, <3>1, FireReturns
  <2>3. CASE ~(fire[f].cur >= limit[fire[f].proc])
    <3> DEFINE x == [fire[f] EXCEPT !.pc = "cas"]
    <3>1. fire' = [fire EXCEPT ![f] = x] /\ UNCHANGED dispatching
      BY <1>4, <2>1, <2>3 DEF CompareLimit, TypeOK
    <3>2. /\ x \in Dispatches /\ x.proc = fire[f].proc /\ x.camp = fire[f].camp /\ x.pc = "cas"
          /\ x.cur = fire[f].cur
      BY <2>1 DEF Dispatches, FirePCs
    <3>3. fire[f].cur \in Nat /\ limit[fire[f].proc] \in Nat /\ highest[fire[f].proc] \in Nat
      BY <2>1 DEF Dispatches, TypeOK
    <3>4. fire[f].cur < highest[fire[f].proc]
      BY <2>1, <2>3, <3>3 DEF IndInv, LimitSeen
    <3> HIDE DEF x
    <3> QED
      BY <2>1, <3>1, <3>2, <3>4, FireMoves
  <2> QED
    BY <2>2, <2>3
<1>5. ASSUME NEW f \in Fires, Cas(f)
      PROVE  FiresRest'
  <2>1. InFlight(f) /\ fire[f] \in Dispatches /\ fire[f].proc \in Procs /\ TypeOK
    BY <1>5, FireFacts DEF Cas, IndInv, InFlight
  <2> DEFINE x == [fire[f] EXCEPT !.pc = IF running[fire[f].proc] = fire[f].cur THEN "admitted" ELSE "load",
                              !.cur = 0]
  <2>2. fire' = [fire EXCEPT ![f] = x] /\ UNCHANGED << dispatching, up, highest >>
    BY <1>5, <2>1 DEF Cas, TypeOK, gates
  <2>3. x \in Dispatches /\ x.proc = fire[f].proc /\ x.camp = fire[f].camp /\ x.pc \in {"admitted", "load"}
    BY <2>1 DEF Dispatches, FirePCs, TypeOK
  <2> HIDE DEF x
  <2> QED
    BY <2>1, <2>2, <2>3, FireMoves
<1>6. ASSUME NEW f \in Fires, StartRun(f)
      PROVE  FiresRest'
  <2>1. InFlight(f) /\ fire[f] \in Dispatches /\ fire[f].proc \in Procs /\ TypeOK
    BY <1>6, FireFacts DEF StartRun, IndInv, InFlight
  <2> DEFINE x == [fire[f] EXCEPT !.pc = "running"]
  <2>2. fire' = [fire EXCEPT ![f] = x] /\ UNCHANGED << dispatching, up, highest >>
    BY <1>6, <2>1 DEF StartRun, TypeOK, gates
  <2>3. x \in Dispatches /\ x.proc = fire[f].proc /\ x.camp = fire[f].camp /\ x.pc \in {"running"}
    BY <2>1 DEF Dispatches, FirePCs, TypeOK
  <2> HIDE DEF x
  <2> QED
    BY <2>1, <2>2, <2>3, FireMoves
<1>7. ASSUME NEW f \in Fires, FireCancelled(f)
      PROVE  FiresRest'
  <2>1. InFlight(f) /\ TRUE = HasSlot(f)
    BY <1>7 DEF FireCancelled, InFlight, HasSlot
  <2>2. DropPermits(f, TRUE) /\ UNCHANGED << up, highest >>
    BY <1>7 DEF FireCancelled
  <2> QED
    BY <2>1, <2>2, FireReturns
<1>8. ASSUME NEW f \in Fires, NEW w \in Writes, FireFails(f, w)
      PROVE  FiresRest'
  <2>1. InFlight(f) /\ TRUE = HasSlot(f)
    BY <1>8 DEF FireFails, InFlight, HasSlot
  <2>2. DropPermits(f, TRUE) /\ UNCHANGED << up, highest >>
    BY <1>8 DEF FireFails
  <2> QED
    BY <2>1, <2>2, FireReturns
<1>9. ASSUME NEW f \in Fires, NEW w \in Writes, NEW n \in 0..PerFire, FireSucceeds(f, n, w)
      PROVE  FiresRest'
  <2>1. InFlight(f) /\ TRUE = HasSlot(f)
    BY <1>9 DEF FireSucceeds, InFlight, HasSlot
  <2>2. DropPermits(f, TRUE) /\ UNCHANGED << up, highest >>
    BY <1>9 DEF FireSucceeds
  <2> QED
    BY <2>1, <2>2, FireReturns
<1>10. ASSUME NEW f \in Fires, Refuse(f)
      PROVE  FiresRest'
  <2>1. InFlight(f) /\ TRUE = HasSlot(f)
    BY <1>10 DEF Refuse, InFlight, HasSlot
  <2>2. DropPermits(f, TRUE) /\ UNCHANGED << up, highest >>
    BY <1>10 DEF Refuse
  <2> QED
    BY <2>1, <2>2, FireReturns
<1>11. ASSUME NEW f \in Fires, Abort(f)
      PROVE  FiresRest'
  <2>1. InFlight(f) /\ TRUE = HasSlot(f)
    BY <1>11 DEF Abort, InFlight, HasSlot
  <2>2. DropPermits(f, TRUE) /\ UNCHANGED << up, highest >>
    BY <1>11 DEF Abort
  <2> QED
    BY <2>1, <2>2, FireReturns
<1>12. ASSUME NEW c \in Campaigns, PauseSelf(c)
      PROVE  FiresRest'
  <2>1. UNCHANGED << fire, dispatching, up, highest >>
    BY <1>12 DEF PauseSelf, store, schedules, gates, history
  <2>2. \A q \in Procs : highest[q] <= highest'[q]
    BY <2>1 DEF IndInv, TypeOK
  <2> QED
    BY <2>1, <2>2, FiresKept DEF TypeOK
<1>13. ASSUME NEW c \in Campaigns, Resume(c)
      PROVE  FiresRest'
  <2>1. UNCHANGED << fire, dispatching, up, highest >>
    BY <1>13 DEF Resume, store, schedules, gates, history
  <2>2. \A q \in Procs : highest[q] <= highest'[q]
    BY <2>1 DEF IndInv, TypeOK
  <2> QED
    BY <2>1, <2>2, FiresKept DEF TypeOK
<1>14. ASSUME NEW c \in Campaigns, Remove(c)
      PROVE  FiresRest'
  <2>1. UNCHANGED << fire, dispatching, up, highest >>
    BY <1>14 DEF Remove, store, schedules, gates, history
  <2>2. \A q \in Procs : highest[q] <= highest'[q]
    BY <2>1 DEF IndInv, TypeOK
  <2> QED
    BY <2>1, <2>2, FiresKept DEF TypeOK
<1>15. ASSUME NEW c \in Campaigns, NEW p \in Procs, NEW w \in Writes, Forget(c, p, w)
      PROVE  FiresRest'
  <2>1. UNCHANGED << fire, dispatching, up, highest >>
    BY <1>15 DEF Forget, store, schedules, gates, history
  <2>2. \A q \in Procs : highest[q] <= highest'[q]
    BY <2>1 DEF IndInv, TypeOK
  <2> QED
    BY <2>1, <2>2, FiresKept DEF TypeOK
<1>16. ASSUME NEW s \in Setters, NEW p \in Procs, NEW n \in Limits, NEW w \in Writes, SetMax(s, p, n, w)
      PROVE  FiresRest'
  <2>1. UNCHANGED << fire, dispatching, up, highest >>
    BY <1>16 DEF SetMax, store, schedules, gates, history
  <2>2. \A q \in Procs : highest[q] <= highest'[q]
    BY <2>1 DEF IndInv, TypeOK
  <2> QED
    BY <2>1, <2>2, FiresKept DEF TypeOK
<1>17. ASSUME NEW s \in Setters, ReadMax(s)
      PROVE  FiresRest'
  <2>1. UNCHANGED << fire, dispatching, up, highest >>
    BY <1>17 DEF ReadMax, store, schedules, gates, history
  <2>2. \A q \in Procs : highest[q] <= highest'[q]
    BY <2>1 DEF IndInv, TypeOK
  <2> QED
    BY <2>1, <2>2, FiresKept DEF TypeOK
<1>18. ASSUME NEW s \in Setters, ApplyMax(s)
      PROVE  FiresRest'
  <2>1. TypeOK /\ setter[s].proc \in Procs /\ AtLeastOne(setter[s].value) \in Nat
    BY <1>18, SetterFacts, AtLeastOneFacts DEF ApplyMax, IndInv, Settings
  <2>2. \A p \in Procs : highest[p] <= highest'[p]
    BY <1>18, <2>1 DEF ApplyMax, TypeOK, Larger
  <2>3. UNCHANGED << fire, dispatching, up >>
    BY <1>18 DEF ApplyMax
  <2> QED
    BY <2>2, <2>3, FiresKept DEF TypeOK
<1>19. ASSUME NEW p \in Procs, Crash(p)
      PROVE  FiresRest'
  <2>1. TypeOK /\ FiresRest
    BY DEF IndInv
  <2>2. /\ \A g \in Fires : fire'[g] = IF fire[g].proc = p THEN Idle ELSE fire[g]
        /\ up' = up \ {p} /\ UNCHANGED highest
        /\ \A q \in Procs : q # p => dispatching'[q] = dispatching[q]
    BY <1>19, <2>1 DEF Crash, TypeOK
  <2>3. \A g \in Fires : InFlight(g)' => InFlight(g) /\ fire'[g] = fire[g]
    BY <2>2, IdleFacts DEF InFlight
  <2>4. OneFireEach'
    BY <2>1, <2>3 DEF FiresRest, OneFireEach
  <2>5. ASSUME NEW g \in Fires PROVE FireRests(g)'
    <3>1. CASE fire[g].proc = p
      BY <2>2, <3>1, IdleFacts DEF FireRests, InFlight
    <3>2. CASE fire[g].proc # p
      <4>1. fire'[g] = fire[g] /\ FireRests(g)
        BY <2>1, <2>2, <3>2 DEF FiresRest
      <4>2. fire[g].pc # "idle" => fire[g].proc \in Procs
        BY FireFacts
      <4> QED
        BY <2>2, <3>2, <4>1, <4>2 DEF FireRests, InFlight
    <3> QED
      BY <3>1, <3>2
  <2> QED
    BY <2>4, <2>5 DEF FiresRest
<1>20. ASSUME NEW p \in Procs, Restart(p)
      PROVE  FiresRest'
  <2>1. TypeOK /\ FiresRest
    BY DEF IndInv
  <2>2. /\ UNCHANGED << fire, dispatching >> /\ up' = up \cup {p} /\ p \notin up
        /\ \A q \in Procs : q # p => highest'[q] = highest[q]
    BY <1>20, <2>1 DEF Restart, TypeOK
  <2>3. OneFireEach'
    BY <2>1, <2>2 DEF FiresRest, OneFireEach, InFlight
  <2>4. ASSUME NEW g \in Fires PROVE FireRests(g)'
    <3>1. FireRests(g)
      BY <2>1 DEF FiresRest
    <3>2. fire[g].pc # "idle" => fire[g].proc \in Procs /\ fire[g].proc # p
      BY <2>2, FireFacts
    <3> QED
      BY <2>2, <3>1, <3>2 DEF FireRests, InFlight
  <2> QED
    BY <2>3, <2>4 DEF FiresRest
<1> QED
  BY <1>1, <1>2, <1>3, <1>4, <1>5, <1>6, <1>7, <1>8, <1>9, <1>10,
     <1>11, <1>12, <1>13, <1>14, <1>15, <1>16, <1>17, <1>18, <1>19, <1>20 DEF Next, Step

\* Every step keeps the gate's account: a slot is counted when the exchange that
\* takes it succeeds, and counted off when its fire returns.
LEMMA StepGate ==
  ASSUME IndInv, Next, TypeOK'
  PROVE  GateCountsPermits' /\ GateNeverOverrun' /\ LimitSeen'
<1>1. ASSUME NEW f \in Fires, NEW p \in Procs, NEW c \in Campaigns, Fire(f, p, c)
      PROVE  GateCountsPermits' /\ GateNeverOverrun' /\ LimitSeen'
  <2>1. TypeOK /\ UNCHANGED << running, limit, highest >>
    BY <1>1 DEF Fire, IndInv, gates
  <2>2. \A g \in Fires : /\ HasSlot(g)' <=> HasSlot(g)
                         /\ HasSlot(g) => fire'[g].proc = fire[g].proc
    BY <1>1, <2>1, IdleFacts DEF Fire, TypeOK, HasSlot, Dispatches, Idle
  <2>3. GateCountsPermits'
    BY <2>1, <2>2, SlotsKept
  <2> QED
    BY <2>1, <2>3 DEF IndInv, GateNeverOverrun, LimitSeen
<1>2. ASSUME NEW f \in Fires, Admit(f)
      PROVE  GateCountsPermits' /\ GateNeverOverrun' /\ LimitSeen'
  <2>1. TypeOK /\ UNCHANGED << running, limit, highest >> /\ ~HasSlot(f)
    BY <1>2 DEF Admit, IndInv, gates, HasSlot
  <2>2. (\A g \in Fires : g # f => fire'[g] = fire[g]) /\ ~HasSlot(f)'
    <3>1. CASE fire' = [fire EXCEPT ![f] = Idle]
      BY <2>1, <3>1, IdleFacts DEF TypeOK, HasSlot
    <3>2. CASE fire' = [fire EXCEPT ![f].pc = "load",
                                    ![f].snap = mem[fire[f].proc].states[fire[f].camp]]
      BY <2>1, <3>2 DEF TypeOK, HasSlot, Dispatches
    <3> QED
      BY <1>2, <3>1, <3>2 DEF Admit
  <2>3. GateCountsPermits'
    BY <2>1, <2>2, SlotsKept DEF HasSlot
  <2> QED
    BY <2>1, <2>3 DEF IndInv, GateNeverOverrun, LimitSeen
<1>3. ASSUME NEW f \in Fires, LoadRunning(f)
      PROVE  GateCountsPermits' /\ GateNeverOverrun' /\ LimitSeen'
  <2>1. TypeOK /\ UNCHANGED << running, limit, highest >>
    BY <1>3 DEF LoadRunning, IndInv, gates
  <2>2. \A g \in Fires : /\ HasSlot(g)' <=> HasSlot(g)
                         /\ HasSlot(g) => fire'[g].proc = fire[g].proc
    BY <1>3, <2>1, IdleFacts DEF LoadRunning, TypeOK, HasSlot, Dispatches
  <2>3. GateCountsPermits'
    BY <2>1, <2>2, SlotsKept
  <2> QED
    BY <2>1, <2>3 DEF IndInv, GateNeverOverrun, LimitSeen
<1>4. ASSUME NEW f \in Fires, CompareLimit(f)
      PROVE  GateCountsPermits' /\ GateNeverOverrun' /\ LimitSeen'
  <2>1. /\ InFlight(f) /\ TypeOK /\ FALSE = HasSlot(f) /\ fire[f] \in Dispatches
        /\ UNCHANGED << limit, highest >>
    BY <1>4, FireFacts DEF CompareLimit, IndInv, InFlight, HasSlot
  <2>2. CASE fire[f].cur >= limit[fire[f].proc]
    <3>1. DropPermits(f, FALSE)
      BY <1>4, <2>2 DEF CompareLimit
    <3>2. GateCountsPermits' /\ \A p \in Procs : running'[p] <= running[p]
      BY <2>1, <3>1, SlotReturns
    <3> QED
      BY <2>1, <3>2 DEF IndInv, TypeOK, GateNeverOverrun, LimitSeen
  <2>3. CASE ~(fire[f].cur >= limit[fire[f].proc])
    <3>1. UNCHANGED running /\ fire' = [fire EXCEPT ![f].pc = "cas"]
      BY <1>4, <2>3 DEF CompareLimit
    <3>2. \A g \in Fires : /\ HasSlot(g)' <=> HasSlot(g)
                           /\ HasSlot(g) => fire'[g].proc = fire[g].proc
      BY <2>1, <3>1 DEF TypeOK, HasSlot, Dispatches
    <3>3. GateCountsPermits'
      BY <3>1, <3>2, SlotsKept
    <3> QED
      BY <2>1, <3>1, <3>3 DEF IndInv, GateNeverOverrun, LimitSeen
  <2> QED
    BY <2>2, <2>3
<1>5. ASSUME NEW f \in Fires, Cas(f)
      PROVE  GateCountsPermits' /\ GateNeverOverrun' /\ LimitSeen'
  <2>1. /\ TypeOK /\ fire[f] \in Dispatches /\ fire[f].proc \in Procs /\ fire[f].pc = "cas"
        /\ UNCHANGED << limit, highest >>
    BY <1>5, FireFacts DEF Cas, IndInv
  <2>2. CASE running[fire[f].proc] # fire[f].cur
    <3>1. UNCHANGED running /\ fire' = [fire EXCEPT ![f].pc = "load", ![f].cur = 0]
      BY <1>5, <2>2 DEF Cas
    <3>2. \A g \in Fires : /\ HasSlot(g)' <=> HasSlot(g)
                           /\ HasSlot(g) => fire'[g].proc = fire[g].proc
      BY <2>1, <3>1 DEF TypeOK, HasSlot, Dispatches
    <3>3. GateCountsPermits'
      BY <3>1, <3>2, SlotsKept
    <3> QED
      BY <2>1, <3>1, <3>3 DEF IndInv, GateNeverOverrun, LimitSeen
  <2>3. CASE running[fire[f].proc] = fire[f].cur
    <3>1. /\ running' = [running EXCEPT ![fire[f].proc] = @ + 1]
          /\ fire' = [fire EXCEPT ![f].pc = "admitted", ![f].cur = 0]
      BY <1>5, <2>3 DEF Cas
    <3>2. /\ \A g \in Fires : g # f => fire'[g] = fire[g]
          /\ fire'[f].pc = "admitted" /\ fire'[f].proc = fire[f].proc
      BY <2>1, <3>1 DEF TypeOK, Dispatches
    <3>3. ASSUME NEW p \in Procs PROVE running'[p] = Cardinality(Slots(p)')
      <4>1. running[p] = Cardinality(Slots(p)) /\ IsFiniteSet(Slots(p)) /\ f \notin Slots(p)
        BY <2>1, SlotsFinite DEF IndInv, GateCountsPermits, Slots, HasSlot
      <4>2. CASE p = fire[f].proc
        <5>1. Slots(p)' = Slots(p) \cup {f}
          BY <3>2, <4>2 DEF Slots, HasSlot
        <5>2. Cardinality(Slots(p) \cup {f}) = Cardinality(Slots(p)) + 1
          BY <4>1, FS_AddElement
        <5> QED
          BY <2>1, <3>1, <4>1, <4>2, <5>1, <5>2 DEF TypeOK
      <4>3. CASE p # fire[f].proc
        <5>1. Slots(p)' = Slots(p)
          BY <2>1, <3>2, <4>3 DEF Slots, HasSlot
        <5> QED
          BY <2>1, <3>1, <4>1, <4>3, <5>1 DEF TypeOK
      <4> QED
        BY <4>2, <4>3
    <3>4. GateCountsPermits'
      BY <3>3 DEF GateCountsPermits
    <3>5. running[fire[f].proc] < highest[fire[f].proc]
      BY <2>1, <2>3 DEF IndInv, FiresRest, FireRests
    <3>6. GateNeverOverrun'
      BY <2>1, <3>1, <3>5 DEF IndInv, TypeOK, GateNeverOverrun
    <3> QED
      BY <2>1, <3>4, <3>6 DEF IndInv, LimitSeen
  <2> QED
    BY <2>2, <2>3
<1>6. ASSUME NEW f \in Fires, StartRun(f)
      PROVE  GateCountsPermits' /\ GateNeverOverrun' /\ LimitSeen'
  <2>1. TypeOK /\ UNCHANGED << running, limit, highest >>
    BY <1>6 DEF StartRun, IndInv, gates
  <2>2. \A g \in Fires : /\ HasSlot(g)' <=> HasSlot(g)
                         /\ HasSlot(g) => fire'[g].proc = fire[g].proc
    BY <1>6, <2>1, IdleFacts DEF StartRun, TypeOK, HasSlot, Dispatches
  <2>3. GateCountsPermits'
    BY <2>1, <2>2, SlotsKept
  <2> QED
    BY <2>1, <2>3 DEF IndInv, GateNeverOverrun, LimitSeen
<1>7. ASSUME NEW f \in Fires, FireCancelled(f)
      PROVE  GateCountsPermits' /\ GateNeverOverrun' /\ LimitSeen'
  <2>1. InFlight(f) /\ TRUE = HasSlot(f)
    BY <1>7 DEF FireCancelled, InFlight, HasSlot
  <2>2. DropPermits(f, TRUE) /\ UNCHANGED << limit, highest >>
    BY <1>7 DEF FireCancelled
  <2>3. GateCountsPermits' /\ \A p \in Procs : running'[p] <= running[p]
    BY <2>1, <2>2, SlotReturns
  <2> QED
    BY <2>2, <2>3 DEF IndInv, TypeOK, GateNeverOverrun, LimitSeen
<1>8. ASSUME NEW f \in Fires, NEW w \in Writes, FireFails(f, w)
      PROVE  GateCountsPermits' /\ GateNeverOverrun' /\ LimitSeen'
  <2>1. InFlight(f) /\ TRUE = HasSlot(f)
    BY <1>8 DEF FireFails, InFlight, HasSlot
  <2>2. DropPermits(f, TRUE) /\ UNCHANGED << limit, highest >>
    BY <1>8 DEF FireFails
  <2>3. GateCountsPermits' /\ \A p \in Procs : running'[p] <= running[p]
    BY <2>1, <2>2, SlotReturns
  <2> QED
    BY <2>2, <2>3 DEF IndInv, TypeOK, GateNeverOverrun, LimitSeen
<1>9. ASSUME NEW f \in Fires, NEW w \in Writes, NEW n \in 0..PerFire, FireSucceeds(f, n, w)
      PROVE  GateCountsPermits' /\ GateNeverOverrun' /\ LimitSeen'
  <2>1. InFlight(f) /\ TRUE = HasSlot(f)
    BY <1>9 DEF FireSucceeds, InFlight, HasSlot
  <2>2. DropPermits(f, TRUE) /\ UNCHANGED << limit, highest >>
    BY <1>9 DEF FireSucceeds
  <2>3. GateCountsPermits' /\ \A p \in Procs : running'[p] <= running[p]
    BY <2>1, <2>2, SlotReturns
  <2> QED
    BY <2>2, <2>3 DEF IndInv, TypeOK, GateNeverOverrun, LimitSeen
<1>10. ASSUME NEW f \in Fires, Refuse(f)
      PROVE  GateCountsPermits' /\ GateNeverOverrun' /\ LimitSeen'
  <2>1. InFlight(f) /\ TRUE = HasSlot(f)
    BY <1>10 DEF Refuse, InFlight, HasSlot
  <2>2. DropPermits(f, TRUE) /\ UNCHANGED << limit, highest >>
    BY <1>10 DEF Refuse
  <2>3. GateCountsPermits' /\ \A p \in Procs : running'[p] <= running[p]
    BY <2>1, <2>2, SlotReturns
  <2> QED
    BY <2>2, <2>3 DEF IndInv, TypeOK, GateNeverOverrun, LimitSeen
<1>11. ASSUME NEW f \in Fires, Abort(f)
      PROVE  GateCountsPermits' /\ GateNeverOverrun' /\ LimitSeen'
  <2>1. InFlight(f) /\ TRUE = HasSlot(f)
    BY <1>11 DEF Abort, InFlight, HasSlot
  <2>2. DropPermits(f, TRUE) /\ UNCHANGED << limit, highest >>
    BY <1>11 DEF Abort
  <2>3. GateCountsPermits' /\ \A p \in Procs : running'[p] <= running[p]
    BY <2>1, <2>2, SlotReturns
  <2> QED
    BY <2>2, <2>3 DEF IndInv, TypeOK, GateNeverOverrun, LimitSeen
<1>12. ASSUME NEW c \in Campaigns, PauseSelf(c)
      PROVE  GateCountsPermits' /\ GateNeverOverrun' /\ LimitSeen'
  <2>1. UNCHANGED << fire, running, limit, highest >>
    BY <1>12 DEF PauseSelf, gates
  <2>2. GateCountsPermits'
    BY <2>1, SlotsKept DEF HasSlot
  <2> QED
    BY <2>1, <2>2 DEF IndInv, GateNeverOverrun, LimitSeen
<1>13. ASSUME NEW c \in Campaigns, Resume(c)
      PROVE  GateCountsPermits' /\ GateNeverOverrun' /\ LimitSeen'
  <2>1. UNCHANGED << fire, running, limit, highest >>
    BY <1>13 DEF Resume, gates
  <2>2. GateCountsPermits'
    BY <2>1, SlotsKept DEF HasSlot
  <2> QED
    BY <2>1, <2>2 DEF IndInv, GateNeverOverrun, LimitSeen
<1>14. ASSUME NEW c \in Campaigns, Remove(c)
      PROVE  GateCountsPermits' /\ GateNeverOverrun' /\ LimitSeen'
  <2>1. UNCHANGED << fire, running, limit, highest >>
    BY <1>14 DEF Remove, gates
  <2>2. GateCountsPermits'
    BY <2>1, SlotsKept DEF HasSlot
  <2> QED
    BY <2>1, <2>2 DEF IndInv, GateNeverOverrun, LimitSeen
<1>15. ASSUME NEW c \in Campaigns, NEW p \in Procs, NEW w \in Writes, Forget(c, p, w)
      PROVE  GateCountsPermits' /\ GateNeverOverrun' /\ LimitSeen'
  <2>1. UNCHANGED << fire, running, limit, highest >>
    BY <1>15 DEF Forget, gates
  <2>2. GateCountsPermits'
    BY <2>1, SlotsKept DEF HasSlot
  <2> QED
    BY <2>1, <2>2 DEF IndInv, GateNeverOverrun, LimitSeen
<1>16. ASSUME NEW s \in Setters, NEW p \in Procs, NEW n \in Limits, NEW w \in Writes, SetMax(s, p, n, w)
      PROVE  GateCountsPermits' /\ GateNeverOverrun' /\ LimitSeen'
  <2>1. UNCHANGED << fire, running, limit, highest >>
    BY <1>16 DEF SetMax, gates
  <2>2. GateCountsPermits'
    BY <2>1, SlotsKept DEF HasSlot
  <2> QED
    BY <2>1, <2>2 DEF IndInv, GateNeverOverrun, LimitSeen
<1>17. ASSUME NEW s \in Setters, ReadMax(s)
      PROVE  GateCountsPermits' /\ GateNeverOverrun' /\ LimitSeen'
  <2>1. UNCHANGED << fire, running, limit, highest >>
    BY <1>17 DEF ReadMax, gates
  <2>2. GateCountsPermits'
    BY <2>1, SlotsKept DEF HasSlot
  <2> QED
    BY <2>1, <2>2 DEF IndInv, GateNeverOverrun, LimitSeen
<1>18. ASSUME NEW s \in Setters, ApplyMax(s)
      PROVE  GateCountsPermits' /\ GateNeverOverrun' /\ LimitSeen'
  <2>1. TypeOK /\ setter[s].proc \in Procs /\ AtLeastOne(setter[s].value) \in Nat
    BY <1>18, SetterFacts, AtLeastOneFacts DEF ApplyMax, IndInv, Settings
  <2>2. UNCHANGED << fire, running >>
    BY <1>18 DEF ApplyMax
  <2>3. GateCountsPermits'
    BY <2>2, SlotsKept DEF HasSlot
  <2>4. GateNeverOverrun' /\ LimitSeen'
    BY <1>18, <2>1 DEF ApplyMax, IndInv, TypeOK, Larger, GateNeverOverrun, LimitSeen
  <2> QED
    BY <2>3, <2>4
<1>19. ASSUME NEW p \in Procs, Crash(p)
      PROVE  GateCountsPermits' /\ GateNeverOverrun' /\ LimitSeen'
  <2>1. TypeOK /\ UNCHANGED << limit, highest >>
    BY <1>19 DEF IndInv, Crash
  <2>2. /\ \A g \in Fires : fire'[g] = IF fire[g].proc = p THEN Idle ELSE fire[g]
        /\ \A q \in Procs : running'[q] = IF q = p THEN 0 ELSE running[q]
    BY <1>19, <2>1 DEF Crash, TypeOK
  <2>3. ASSUME NEW q \in Procs PROVE running'[q] = Cardinality(Slots(q)')
    <3>1. CASE q = p
      <4>1. Slots(q)' = {}
        BY <2>2, <3>1, IdleFacts DEF Slots, HasSlot
      <4> QED
        BY <2>2, <3>1, <4>1, FS_EmptySet
    <3>2. CASE q # p
      <4>1. Slots(q)' = Slots(q)
        BY <2>2, <3>2, IdleFacts DEF Slots, HasSlot
      <4> QED
        BY <2>2, <3>2, <4>1 DEF IndInv, GateCountsPermits
    <3> QED
      BY <3>1, <3>2
  <2>4. GateCountsPermits'
    BY <2>3 DEF GateCountsPermits
  <2> QED
    BY <2>1, <2>2, <2>4 DEF IndInv, TypeOK, GateNeverOverrun, LimitSeen
<1>20. ASSUME NEW p \in Procs, Restart(p)
      PROVE  GateCountsPermits' /\ GateNeverOverrun' /\ LimitSeen'
  <2>1. TypeOK /\ UNCHANGED << fire, running >> /\ p \notin up
    BY <1>20 DEF IndInv, Restart
  <2>2. GateCountsPermits'
    BY <2>1, SlotsKept DEF HasSlot
  <2>3. AtLeastOne(file.max) \in Nat /\ running[p] = 0
    BY <2>1, AtLeastOneFacts, DownIsEmpty DEF TypeOK, Persisted
  <2>4. GateNeverOverrun' /\ LimitSeen'
    BY <1>20, <2>1, <2>3 DEF Restart, IndInv, TypeOK, GateNeverOverrun, LimitSeen
  <2> QED
    BY <2>2, <2>4
<1> QED
  BY <1>1, <1>2, <1>3, <1>4, <1>5, <1>6, <1>7, <1>8, <1>9, <1>10,
     <1>11, <1>12, <1>13, <1>14, <1>15, <1>16, <1>17, <1>18, <1>19, <1>20 DEF Next, Step

\* Every step leaves the callers who set the limit in processes that run.
LEMMA StepLives ==
  ASSUME IndInv, Next
  PROVE  \A t \in Setters : SetterLives(t)'
<1>1. ASSUME NEW f \in Fires, NEW p \in Procs, NEW c \in Campaigns, Fire(f, p, c)
      PROVE  \A t \in Setters : SetterLives(t)'
  <2>1. UNCHANGED << setter, up >>
    BY <1>1 DEF Fire, gates
  <2> QED
    BY <2>1 DEF IndInv, SetterLives
<1>2. ASSUME NEW f \in Fires, Admit(f)
      PROVE  \A t \in Setters : SetterLives(t)'
  <2>1. UNCHANGED << setter, up >>
    BY <1>2 DEF Admit, gates
  <2> QED
    BY <2>1 DEF IndInv, SetterLives
<1>3. ASSUME NEW f \in Fires, LoadRunning(f)
      PROVE  \A t \in Setters : SetterLives(t)'
  <2>1. UNCHANGED << setter, up >>
    BY <1>3 DEF LoadRunning, gates
  <2> QED
    BY <2>1 DEF IndInv, SetterLives
<1>4. ASSUME NEW f \in Fires, CompareLimit(f)
      PROVE  \A t \in Setters : SetterLives(t)'
  <2>1. UNCHANGED << setter, up >>
    BY <1>4 DEF CompareLimit, gates
  <2> QED
    BY <2>1 DEF IndInv, SetterLives
<1>5. ASSUME NEW f \in Fires, Cas(f)
      PROVE  \A t \in Setters : SetterLives(t)'
  <2>1. UNCHANGED << setter, up >>
    BY <1>5 DEF Cas, gates
  <2> QED
    BY <2>1 DEF IndInv, SetterLives
<1>6. ASSUME NEW f \in Fires, StartRun(f)
      PROVE  \A t \in Setters : SetterLives(t)'
  <2>1. UNCHANGED << setter, up >>
    BY <1>6 DEF StartRun, gates
  <2> QED
    BY <2>1 DEF IndInv, SetterLives
<1>7. ASSUME NEW f \in Fires, FireCancelled(f)
      PROVE  \A t \in Setters : SetterLives(t)'
  <2>1. UNCHANGED << setter, up >>
    BY <1>7 DEF FireCancelled, gates
  <2> QED
    BY <2>1 DEF IndInv, SetterLives
<1>8. ASSUME NEW f \in Fires, NEW w \in Writes, FireFails(f, w)
      PROVE  \A t \in Setters : SetterLives(t)'
  <2>1. UNCHANGED << setter, up >>
    BY <1>8 DEF FireFails, gates
  <2> QED
    BY <2>1 DEF IndInv, SetterLives
<1>9. ASSUME NEW f \in Fires, NEW w \in Writes, NEW n \in 0..PerFire, FireSucceeds(f, n, w)
      PROVE  \A t \in Setters : SetterLives(t)'
  <2>1. UNCHANGED << setter, up >>
    BY <1>9 DEF FireSucceeds, gates
  <2> QED
    BY <2>1 DEF IndInv, SetterLives
<1>10. ASSUME NEW f \in Fires, Refuse(f)
      PROVE  \A t \in Setters : SetterLives(t)'
  <2>1. UNCHANGED << setter, up >>
    BY <1>10 DEF Refuse, gates
  <2> QED
    BY <2>1 DEF IndInv, SetterLives
<1>11. ASSUME NEW f \in Fires, Abort(f)
      PROVE  \A t \in Setters : SetterLives(t)'
  <2>1. UNCHANGED << setter, up >>
    BY <1>11 DEF Abort, gates
  <2> QED
    BY <2>1 DEF IndInv, SetterLives
<1>12. ASSUME NEW c \in Campaigns, PauseSelf(c)
      PROVE  \A t \in Setters : SetterLives(t)'
  <2>1. UNCHANGED << setter, up >>
    BY <1>12 DEF PauseSelf, gates
  <2> QED
    BY <2>1 DEF IndInv, SetterLives
<1>13. ASSUME NEW c \in Campaigns, Resume(c)
      PROVE  \A t \in Setters : SetterLives(t)'
  <2>1. UNCHANGED << setter, up >>
    BY <1>13 DEF Resume, gates
  <2> QED
    BY <2>1 DEF IndInv, SetterLives
<1>14. ASSUME NEW c \in Campaigns, Remove(c)
      PROVE  \A t \in Setters : SetterLives(t)'
  <2>1. UNCHANGED << setter, up >>
    BY <1>14 DEF Remove, gates
  <2> QED
    BY <2>1 DEF IndInv, SetterLives
<1>15. ASSUME NEW c \in Campaigns, NEW p \in Procs, NEW w \in Writes, Forget(c, p, w)
      PROVE  \A t \in Setters : SetterLives(t)'
  <2>1. UNCHANGED << setter, up >>
    BY <1>15 DEF Forget, gates
  <2> QED
    BY <2>1 DEF IndInv, SetterLives
<1>16. ASSUME NEW s \in Setters, NEW p \in Procs, NEW n \in Limits, NEW w \in Writes, SetMax(s, p, n, w)
      PROVE  \A t \in Setters : SetterLives(t)'
  <2>1. TypeOK /\ UNCHANGED up /\ p \in up /\ \A t \in Setters : SetterLives(t)
    BY <1>16 DEF IndInv, SetMax
  <2>2. ASSUME NEW t \in Setters
        PROVE  setter'[t] = setter[t] \/ (setter'[t].pc = "read" /\ setter'[t].proc = p)
    BY <1>16, <2>1 DEF SetMax, TypeOK, SetterIdle
  <2> QED
    BY <2>1, <2>2 DEF SetterLives
<1>17. ASSUME NEW s \in Setters, ReadMax(s)
      PROVE  \A t \in Setters : SetterLives(t)'
  <2>1. /\ TypeOK /\ UNCHANGED up /\ setter[s] \in Settings /\ setter[s].proc \in up
        /\ \A t \in Setters : SetterLives(t)
    BY <1>17, SetterFacts DEF IndInv, ReadMax
  <2>2. /\ \A t \in Setters : t # s => setter'[t] = setter[t]
        /\ setter'[s].pc = "apply" /\ setter'[s].proc = setter[s].proc
    BY <1>17, <2>1 DEF ReadMax, TypeOK, Settings
  <2> QED
    BY <2>1, <2>2 DEF SetterLives
<1>18. ASSUME NEW s \in Setters, ApplyMax(s)
      PROVE  \A t \in Setters : SetterLives(t)'
  <2>1. TypeOK /\ UNCHANGED up /\ \A t \in Setters : SetterLives(t)
    BY <1>18 DEF IndInv, ApplyMax
  <2>2. \A t \in Setters : setter'[t] = IF t = s THEN SetterIdle ELSE setter[t]
    BY <1>18, <2>1 DEF ApplyMax, TypeOK
  <2> QED
    BY <2>1, <2>2, IdleFacts DEF SetterLives
<1>19. ASSUME NEW p \in Procs, Crash(p)
      PROVE  \A t \in Setters : SetterLives(t)'
  <2>1. TypeOK /\ up' = up \ {p} /\ \A t \in Setters : SetterLives(t)
    BY <1>19 DEF IndInv, Crash
  <2>2. \A t \in Setters : setter'[t] = IF setter[t].proc = p THEN SetterIdle ELSE setter[t]
    BY <1>19 DEF Crash
  <2> QED
    BY <2>1, <2>2, IdleFacts DEF SetterLives
<1>20. ASSUME NEW p \in Procs, Restart(p)
      PROVE  \A t \in Setters : SetterLives(t)'
  <2>1. UNCHANGED setter /\ up' = up \cup {p}
    BY <1>20 DEF Restart
  <2> QED
    BY <2>1 DEF IndInv, SetterLives
<1> QED
  BY <1>1, <1>2, <1>3, <1>4, <1>5, <1>6, <1>7, <1>8, <1>9, <1>10,
     <1>11, <1>12, <1>13, <1>14, <1>15, <1>16, <1>17, <1>18, <1>19, <1>20 DEF Next, Step

\* Every step keeps the limit with the setting, if the setters take turns: what
\* a setter read back is still the setting when it reaches the gate.
LEMMA StepSettings ==
  ASSUME IndInv, Next, Guarded = Setters
  PROVE  SettersRest' /\ GateFollowsSetting'
<1>1. ASSUME NEW f \in Fires, NEW p \in Procs, NEW c \in Campaigns, Fire(f, p, c)
      PROVE  SettersRest' /\ GateFollowsSetting'
  <2>1. UNCHANGED << setter, up, limit, mem >>
    BY <1>1 DEF Fire, gates, store
  <2> QED
    BY <2>1, SettingsKept
<1>2. ASSUME NEW f \in Fires, Admit(f)
      PROVE  SettersRest' /\ GateFollowsSetting'
  <2>1. UNCHANGED << setter, up, limit, mem >>
    BY <1>2 DEF Admit, gates, store
  <2> QED
    BY <2>1, SettingsKept
<1>3. ASSUME NEW f \in Fires, LoadRunning(f)
      PROVE  SettersRest' /\ GateFollowsSetting'
  <2>1. UNCHANGED << setter, up, limit, mem >>
    BY <1>3 DEF LoadRunning, gates, store
  <2> QED
    BY <2>1, SettingsKept
<1>4. ASSUME NEW f \in Fires, CompareLimit(f)
      PROVE  SettersRest' /\ GateFollowsSetting'
  <2>1. UNCHANGED << setter, up, limit, mem >>
    BY <1>4 DEF CompareLimit, gates, store
  <2> QED
    BY <2>1, SettingsKept
<1>5. ASSUME NEW f \in Fires, Cas(f)
      PROVE  SettersRest' /\ GateFollowsSetting'
  <2>1. UNCHANGED << setter, up, limit, mem >>
    BY <1>5 DEF Cas, gates, store
  <2> QED
    BY <2>1, SettingsKept
<1>6. ASSUME NEW f \in Fires, StartRun(f)
      PROVE  SettersRest' /\ GateFollowsSetting'
  <2>1. UNCHANGED << setter, up, limit, mem >>
    BY <1>6 DEF StartRun, gates, store
  <2> QED
    BY <2>1, SettingsKept
<1>7. ASSUME NEW f \in Fires, FireCancelled(f)
      PROVE  SettersRest' /\ GateFollowsSetting'
  <2>1. UNCHANGED << setter, up, limit, mem >>
    BY <1>7 DEF FireCancelled, gates, store
  <2> QED
    BY <2>1, SettingsKept
<1>8. ASSUME NEW f \in Fires, NEW w \in Writes, FireFails(f, w)
      PROVE  SettersRest' /\ GateFollowsSetting'
  <2>1. TypeOK /\ fire[f].proc \in Procs /\ fire[f].camp \in Campaigns
    BY <1>8, FireFacts DEF FireFails, IndInv
  <2> DEFINE x == AdvanceCursor(mem[fire[f].proc], fire[f].camp)
  <2>2. x \in Persisted /\ x.max = mem[fire[f].proc].max
    BY <2>1, AdvanceFacts DEF TypeOK
  <2>3. WriteThrough(fire[f].proc, x, w) /\ UNCHANGED << setter, up, limit >>
    BY <1>8 DEF FireFails
  <2> HIDE DEF x
  <2> QED
    BY <2>1, <2>2, <2>3, MaxKept, SettingsKept
<1>9. ASSUME NEW f \in Fires, NEW w \in Writes, NEW n \in 0..PerFire, FireSucceeds(f, n, w)
      PROVE  SettersRest' /\ GateFollowsSetting'
  <2>1. TypeOK /\ fire[f].proc \in Procs /\ fire[f].camp \in Campaigns /\ n \in Nat
    BY <1>9, FireFacts DEF FireSucceeds, IndInv
  <2> DEFINE x == RecordSuccess(mem[fire[f].proc], fire[f].camp, n)
  <2>2. x \in Persisted /\ x.max = mem[fire[f].proc].max
    BY <2>1, SuccessFacts DEF TypeOK
  <2>3. WriteThrough(fire[f].proc, x, w) /\ UNCHANGED << setter, up, limit >>
    BY <1>9 DEF FireSucceeds
  <2> HIDE DEF x
  <2> QED
    BY <2>1, <2>2, <2>3, MaxKept, SettingsKept
<1>10. ASSUME NEW f \in Fires, Refuse(f)
      PROVE  SettersRest' /\ GateFollowsSetting'
  <2>1. UNCHANGED << setter, up, limit, mem >>
    BY <1>10 DEF Refuse, gates, store
  <2> QED
    BY <2>1, SettingsKept
<1>11. ASSUME NEW f \in Fires, Abort(f)
      PROVE  SettersRest' /\ GateFollowsSetting'
  <2>1. UNCHANGED << setter, up, limit, mem >>
    BY <1>11 DEF Abort, gates, store
  <2> QED
    BY <2>1, SettingsKept
<1>12. ASSUME NEW c \in Campaigns, PauseSelf(c)
      PROVE  SettersRest' /\ GateFollowsSetting'
  <2>1. UNCHANGED << setter, up, limit, mem >>
    BY <1>12 DEF PauseSelf, gates, store
  <2> QED
    BY <2>1, SettingsKept
<1>13. ASSUME NEW c \in Campaigns, Resume(c)
      PROVE  SettersRest' /\ GateFollowsSetting'
  <2>1. UNCHANGED << setter, up, limit, mem >>
    BY <1>13 DEF Resume, gates, store
  <2> QED
    BY <2>1, SettingsKept
<1>14. ASSUME NEW c \in Campaigns, Remove(c)
      PROVE  SettersRest' /\ GateFollowsSetting'
  <2>1. UNCHANGED << setter, up, limit, mem >>
    BY <1>14 DEF Remove, gates, store
  <2> QED
    BY <2>1, SettingsKept
<1>15. ASSUME NEW c \in Campaigns, NEW p \in Procs, NEW w \in Writes, Forget(c, p, w)
      PROVE  SettersRest' /\ GateFollowsSetting'
  <2>1. TypeOK /\ mem[p] \in Persisted
    BY DEF IndInv, TypeOK
  <2> DEFINE x == [mem[p] EXCEPT !.known = @ \ {c}, !.states = [@ EXCEPT ![c] = ZeroState]]
  <2>2. x \in Persisted /\ x.max = mem[p].max
    BY <2>1, ForgetFacts
  <2>3. WriteThrough(p, x, w) \/ UNCHANGED mem
    BY <1>15 DEF Forget, store
  <2> HIDE DEF x
  <2>4. \A q \in Procs : mem'[q].max = mem[q].max
    BY <2>1, <2>2, <2>3, MaxKept
  <2>5. UNCHANGED << setter, up, limit >>
    BY <1>15 DEF Forget, gates
  <2> QED
    BY <2>4, <2>5, SettingsKept
<1>16. ASSUME NEW s \in Setters, NEW p \in Procs, NEW n \in Limits, NEW w \in Writes, SetMax(s, p, n, w)
      PROVE  SettersRest' /\ GateFollowsSetting'
  <2>1. TypeOK /\ SettersRest /\ GateFollowsSetting /\ mem[p] \in Persisted /\ n \in Nat
    BY NumberAssumption DEF IndInv, TypeOK
  <2>2. (\A t \in Setters : setter[t].pc = "idle") /\ UNCHANGED << up, limit >>
    BY <1>16 DEF SetMax, gates
  <2>3. /\ \A q \in Procs : q # p => mem'[q] = mem[q]
        /\ w # "ok" => mem' = mem
    BY <1>16, <2>1, SettingFacts, WriteFacts DEF SetMax
  <2>4. CASE w # "ok"
    <3>1. UNCHANGED << setter, mem >>
      BY <1>16, <2>3, <2>4 DEF SetMax
    <3> QED
      BY <2>2, <3>1, SettingsKept
  <2>5. CASE w = "ok"
    <3>1. /\ \A t \in Setters : t # s => setter'[t] = setter[t]
          /\ setter'[s].pc = "read" /\ setter'[s].proc = p
      BY <1>16, <2>1, <2>5 DEF SetMax, TypeOK, SetterIdle
    <3>2. SettersRest'
      BY <2>2, <3>1 DEF SettersRest
    <3>3. ASSUME NEW q \in up', \A t \in Setters : setter'[t].proc # q
          PROVE  limit'[q] = mem'[q].max
      <4>1. q # p /\ q \in Procs /\ q \in up
        BY <2>1, <2>2, <3>1, <3>3 DEF TypeOK
      <4>2. setter[s].proc # q
        <5>1. SetterLives(s) /\ None \notin Procs
          BY SetAssumption DEF IndInv
        <5> QED
          BY <2>2, <4>1, <5>1 DEF SetterLives
      <4>3. limit[q] = mem[q].max
        BY <2>1, <3>1, <3>3, <4>1, <4>2 DEF GateFollowsSetting
      <4> QED
        BY <2>2, <2>3, <4>1, <4>3
    <3> QED
      BY <3>2, <3>3 DEF GateFollowsSetting
  <2> QED
    BY <2>4, <2>5
<1>17. ASSUME NEW s \in Setters, ReadMax(s)
      PROVE  SettersRest' /\ GateFollowsSetting'
  <2>1. /\ TypeOK /\ SettersRest /\ GateFollowsSetting /\ setter[s] \in Settings
        /\ setter[s].pc = "read" /\ UNCHANGED << up, limit, mem >>
    BY <1>17 DEF IndInv, ReadMax, TypeOK, gates, store
  <2>2. /\ \A t \in Setters : t # s => setter'[t] = setter[t]
        /\ setter'[s].pc = "apply" /\ setter'[s].proc = setter[s].proc
        /\ setter'[s].value = mem[setter[s].proc].max
    BY <1>17, <2>1 DEF ReadMax, TypeOK, Settings
  <2>3. SettersRest'
    BY <2>1, <2>2 DEF SettersRest
  <2>4. GateFollowsSetting'
    BY <2>1, <2>2 DEF GateFollowsSetting
  <2> QED
    BY <2>3, <2>4
<1>18. ASSUME NEW s \in Setters, ApplyMax(s)
      PROVE  SettersRest' /\ GateFollowsSetting'
  <2>1. /\ TypeOK /\ SettersRest /\ GateFollowsSetting /\ setter[s].proc \in Procs
        /\ setter[s].pc = "apply" /\ UNCHANGED << up, mem >>
    BY <1>18, SetterFacts DEF IndInv, ApplyMax, store
  <2>2. \A t \in Setters : setter'[t] = IF t = s THEN SetterIdle ELSE setter[t]
    BY <1>18, <2>1 DEF ApplyMax, TypeOK
  <2>3. SettersRest'
    BY <2>1, <2>2, IdleFacts DEF SettersRest
  <2>4. AtLeastOne(setter[s].value) = mem[setter[s].proc].max
    <3>1. setter[s].value = mem[setter[s].proc].max /\ mem[setter[s].proc].max \in Nat \ {0}
      BY <2>1 DEF SettersRest, TypeOK, Persisted
    <3> QED
      BY <3>1, AtLeastOneFacts
  <2>5. \A q \in Procs : limit'[q] =
           IF q = setter[s].proc THEN mem[setter[s].proc].max ELSE limit[q]
    BY <1>18, <2>1, <2>4 DEF ApplyMax, TypeOK
  <2>6. ASSUME NEW q \in up', \A t \in Setters : setter'[t].proc # q
        PROVE  limit'[q] = mem'[q].max
    <3>1. q \in Procs /\ q \in up
      BY <2>1 DEF TypeOK
    <3>2. CASE q = setter[s].proc
      BY <2>1, <2>5, <3>1, <3>2
    <3>3. CASE q # setter[s].proc
      <4>1. \A t \in Setters : setter[t].proc # q
        BY <2>2, <2>6, <3>3
      <4> QED
        BY <2>1, <2>5, <3>1, <3>3, <4>1 DEF GateFollowsSetting
    <3> QED
      BY <3>2, <3>3
  <2> QED
    BY <2>3, <2>6 DEF GateFollowsSetting
<1>19. ASSUME NEW p \in Procs, Crash(p)
      PROVE  SettersRest' /\ GateFollowsSetting'
  <2>1. /\ TypeOK /\ SettersRest /\ GateFollowsSetting /\ up' = up \ {p}
        /\ UNCHANGED << limit, mem >>
    BY <1>19 DEF IndInv, Crash, store
  <2>2. \A t \in Setters : setter'[t] = IF setter[t].proc = p THEN SetterIdle ELSE setter[t]
    BY <1>19 DEF Crash
  <2>3. SettersRest'
    BY <2>1, <2>2, IdleFacts DEF SettersRest
  <2>4. ASSUME NEW q \in up', \A t \in Setters : setter'[t].proc # q
        PROVE  limit'[q] = mem'[q].max
    <3>1. q \in up /\ \A t \in Setters : setter[t].proc # q
      BY <2>1, <2>2, <2>4
    <3> QED
      BY <2>1, <3>1 DEF GateFollowsSetting
  <2> QED
    BY <2>3, <2>4 DEF GateFollowsSetting
<1>20. ASSUME NEW p \in Procs, Restart(p)
      PROVE  SettersRest' /\ GateFollowsSetting'
  <2>1. /\ TypeOK /\ SettersRest /\ GateFollowsSetting /\ up' = up \cup {p} /\ p \notin up
        /\ UNCHANGED setter
    BY <1>20 DEF IndInv, Restart
  <2>2. \A t \in Setters : setter[t].pc # "idle" => setter[t].proc # p /\ setter[t].proc \in Procs
    BY <2>1, SetterFacts
  <2>3. AtLeastOne(file.max) = file.max
    BY <2>1, AtLeastOneFacts DEF TypeOK, Persisted
  <2>4. /\ \A q \in Procs : q # p => mem'[q] = mem[q] /\ limit'[q] = limit[q]
        /\ mem'[p].max = file.max /\ limit'[p] = file.max
    BY <1>20, <2>1, <2>3 DEF Restart, TypeOK
  <2>5. SettersRest'
    BY <2>1, <2>2, <2>4 DEF SettersRest
  <2>6. GateFollowsSetting'
    BY <2>1, <2>4 DEF GateFollowsSetting, TypeOK
  <2> QED
    BY <2>5, <2>6
<1> QED
  BY <1>1, <1>2, <1>3, <1>4, <1>5, <1>6, <1>7, <1>8, <1>9, <1>10,
     <1>11, <1>12, <1>13, <1>14, <1>15, <1>16, <1>17, <1>18, <1>19, <1>20 DEF Next, Step

\* Every step leaves the campaigns whose state is being dropped undefined.
LEMMA StepForgotten ==
  ASSUME IndInv, Next
  PROVE  forgetting' \cap defs' = {}
<1>1. ASSUME NEW f \in Fires, NEW p \in Procs, NEW c \in Campaigns, Fire(f, p, c)
      PROVE  forgetting' \cap defs' = {}
  <2>1. forgetting \cap defs = {}
    BY DEF IndInv
  <2> QED
    BY <1>1, <2>1 DEF Fire, schedules
<1>2. ASSUME NEW f \in Fires, Admit(f)
      PROVE  forgetting' \cap defs' = {}
  <2>1. forgetting \cap defs = {}
    BY DEF IndInv
  <2> QED
    BY <1>2, <2>1 DEF Admit, schedules
<1>3. ASSUME NEW f \in Fires, LoadRunning(f)
      PROVE  forgetting' \cap defs' = {}
  <2>1. forgetting \cap defs = {}
    BY DEF IndInv
  <2> QED
    BY <1>3, <2>1 DEF LoadRunning, schedules
<1>4. ASSUME NEW f \in Fires, CompareLimit(f)
      PROVE  forgetting' \cap defs' = {}
  <2>1. forgetting \cap defs = {}
    BY DEF IndInv
  <2> QED
    BY <1>4, <2>1 DEF CompareLimit, schedules
<1>5. ASSUME NEW f \in Fires, Cas(f)
      PROVE  forgetting' \cap defs' = {}
  <2>1. forgetting \cap defs = {}
    BY DEF IndInv
  <2> QED
    BY <1>5, <2>1 DEF Cas, schedules
<1>6. ASSUME NEW f \in Fires, StartRun(f)
      PROVE  forgetting' \cap defs' = {}
  <2>1. forgetting \cap defs = {}
    BY DEF IndInv
  <2> QED
    BY <1>6, <2>1 DEF StartRun, schedules
<1>7. ASSUME NEW f \in Fires, FireCancelled(f)
      PROVE  forgetting' \cap defs' = {}
  <2>1. forgetting \cap defs = {}
    BY DEF IndInv
  <2> QED
    BY <1>7, <2>1 DEF FireCancelled, schedules
<1>8. ASSUME NEW f \in Fires, NEW w \in Writes, FireFails(f, w)
      PROVE  forgetting' \cap defs' = {}
  <2>1. forgetting \cap defs = {}
    BY DEF IndInv
  <2> QED
    BY <1>8, <2>1 DEF FireFails, schedules
<1>9. ASSUME NEW f \in Fires, NEW w \in Writes, NEW n \in 0..PerFire, FireSucceeds(f, n, w)
      PROVE  forgetting' \cap defs' = {}
  <2>1. forgetting \cap defs = {}
    BY DEF IndInv
  <2> QED
    BY <1>9, <2>1 DEF FireSucceeds, schedules
<1>10. ASSUME NEW f \in Fires, Refuse(f)
      PROVE  forgetting' \cap defs' = {}
  <2>1. forgetting \cap defs = {}
    BY DEF IndInv
  <2> QED
    BY <1>10, <2>1 DEF Refuse, schedules
<1>11. ASSUME NEW f \in Fires, Abort(f)
      PROVE  forgetting' \cap defs' = {}
  <2>1. forgetting \cap defs = {}
    BY DEF IndInv
  <2> QED
    BY <1>11, <2>1 DEF Abort, schedules
<1>12. ASSUME NEW c \in Campaigns, PauseSelf(c)
      PROVE  forgetting' \cap defs' = {}
  <2>1. forgetting \cap defs = {}
    BY DEF IndInv
  <2> QED
    BY <1>12, <2>1 DEF PauseSelf, schedules
<1>13. ASSUME NEW c \in Campaigns, Resume(c)
      PROVE  forgetting' \cap defs' = {}
  <2>1. forgetting \cap defs = {}
    BY DEF IndInv
  <2> QED
    BY <1>13, <2>1 DEF Resume, schedules
<1>14. ASSUME NEW c \in Campaigns, Remove(c)
      PROVE  forgetting' \cap defs' = {}
  <2>1. forgetting \cap defs = {}
    BY DEF IndInv
  <2> QED
    BY <1>14, <2>1 DEF Remove, schedules
<1>15. ASSUME NEW c \in Campaigns, NEW p \in Procs, NEW w \in Writes, Forget(c, p, w)
      PROVE  forgetting' \cap defs' = {}
  <2>1. forgetting \cap defs = {}
    BY DEF IndInv
  <2> QED
    BY <1>15, <2>1 DEF Forget, schedules
<1>16. ASSUME NEW s \in Setters, NEW p \in Procs, NEW n \in Limits, NEW w \in Writes, SetMax(s, p, n, w)
      PROVE  forgetting' \cap defs' = {}
  <2>1. forgetting \cap defs = {}
    BY DEF IndInv
  <2> QED
    BY <1>16, <2>1 DEF SetMax, schedules
<1>17. ASSUME NEW s \in Setters, ReadMax(s)
      PROVE  forgetting' \cap defs' = {}
  <2>1. forgetting \cap defs = {}
    BY DEF IndInv
  <2> QED
    BY <1>17, <2>1 DEF ReadMax, schedules
<1>18. ASSUME NEW s \in Setters, ApplyMax(s)
      PROVE  forgetting' \cap defs' = {}
  <2>1. forgetting \cap defs = {}
    BY DEF IndInv
  <2> QED
    BY <1>18, <2>1 DEF ApplyMax, schedules
<1>19. ASSUME NEW p \in Procs, Crash(p)
      PROVE  forgetting' \cap defs' = {}
  <2>1. forgetting \cap defs = {}
    BY DEF IndInv
  <2> QED
    BY <1>19, <2>1 DEF Crash, schedules
<1>20. ASSUME NEW p \in Procs, Restart(p)
      PROVE  forgetting' \cap defs' = {}
  <2>1. forgetting \cap defs = {}
    BY DEF IndInv
  <2> QED
    BY <1>20, <2>1 DEF Restart, schedules
<1> QED
  BY <1>1, <1>2, <1>3, <1>4, <1>5, <1>6, <1>7, <1>8, <1>9, <1>10,
     <1>11, <1>12, <1>13, <1>14, <1>15, <1>16, <1>17, <1>18, <1>19, <1>20 DEF Next, Step

\* Every step keeps what is charged honest, and within the budget: what a fire
\* may still run was read when nobody else could charge its campaign.
LEMMA StepAllowance ==
  ASSUME IndInv, Next, OneProcess, TypeOK'
  PROVE  AllowanceRests'
<1>1. ASSUME NEW f \in Fires, NEW p \in Procs, NEW c \in Campaigns, Fire(f, p, c)
      PROVE  AllowanceRests'
  <2>1. TypeOK /\ defs' \subseteq defs /\ UNCHANGED << file, mem, history >>
    BY <1>1 DEF Fire, IndInv, store, schedules, history
  <2>2. \A g \in Fires : InFlight(g)' =>
           /\ InFlight(g) /\ fire'[g].camp = fire[g].camp
           /\ fire'[g].proc = fire[g].proc /\ fire'[g].snap = fire[g].snap
    BY <1>1, <2>1 DEF Fire, TypeOK, InFlight, Idle
  <2>3. PICK q \in Procs : TRUE
    OBVIOUS
  <2> QED
    BY <2>1, <2>2, <2>3, AllowanceKept
<1>2. ASSUME NEW f \in Fires, Admit(f)
      PROVE  AllowanceRests'
  <2>1. /\ TypeOK /\ AllowanceRests /\ fire[f] \in Dispatches /\ fire[f].proc \in Procs
        /\ fire[f].camp \in Campaigns /\ UNCHANGED << file, mem, defs, history >>
    BY <1>2, FireFacts DEF Admit, IndInv, store
  <2>2. CASE fire' = [fire EXCEPT ![f] = Idle]
    <3>1. \A g \in Fires : InFlight(g)' =>
             /\ InFlight(g) /\ fire'[g].camp = fire[g].camp
             /\ fire'[g].proc = fire[g].proc /\ fire'[g].snap = fire[g].snap
      BY <2>1, <2>2, IdleFacts DEF TypeOK, InFlight
    <3> QED
      BY <2>1, <3>1, AllowanceKept
  <2>3. CASE /\ ~Spent(mem[fire[f].proc].states[fire[f].camp], fire[f].camp)
             /\ fire' = [fire EXCEPT ![f].pc = "load",
                                     ![f].snap = mem[fire[f].proc].states[fire[f].camp]]
    <3>1. /\ \A g \in Fires : g # f => fire'[g] = fire[g]
          /\ fire'[f].proc = fire[f].proc /\ fire'[f].camp = fire[f].camp
          /\ fire'[f].snap = mem[fire[f].proc].states[fire[f].camp]
      BY <2>1, <2>3 DEF TypeOK, Dispatches
    <3>2. mem[fire[f].proc].states[fire[f].camp].runs \in Nat /\ MaxRuns[fire[f].camp] \in Nat
      BY <2>1, NumberAssumption DEF TypeOK, Persisted, State
    <3>3. SnapRests(f)'
      BY <2>1, <2>3, <3>1, <3>2 DEF SnapRests, Spent
    <3>4. ASSUME NEW g \in Fires, g # f PROVE SnapRests(g)'
      BY <2>1, <3>1, <3>4 DEF AllowanceRests, SnapRests, InFlight
    <3>5. \A c \in defs' : ChargeRests(c)'
      BY <2>1 DEF AllowanceRests, ChargeRests, history
    <3>6. BudgetHolds' /\ ChargedIsHonest'
      BY <2>1 DEF AllowanceRests, BudgetHolds, ChargedIsHonest, history
    <3> QED
      BY <3>3, <3>4, <3>5, <3>6 DEF AllowanceRests
  <2> QED
    BY <1>2, <2>2, <2>3 DEF Admit
<1>3. ASSUME NEW f \in Fires, LoadRunning(f)
      PROVE  AllowanceRests'
  <2>1. TypeOK /\ defs' \subseteq defs /\ UNCHANGED << file, mem, history >>
    BY <1>3 DEF LoadRunning, IndInv, store, schedules, history
  <2>2. \A g \in Fires : InFlight(g)' =>
           /\ InFlight(g) /\ fire'[g].camp = fire[g].camp
           /\ fire'[g].proc = fire[g].proc /\ fire'[g].snap = fire[g].snap
    BY <1>3, <2>1, IdleFacts DEF LoadRunning, TypeOK, InFlight, Dispatches, DropPermits
  <2>3. PICK q \in Procs : TRUE
    BY <1>3, FireFacts DEF LoadRunning
  <2> QED
    BY <2>1, <2>2, <2>3, AllowanceKept
<1>4. ASSUME NEW f \in Fires, CompareLimit(f)
      PROVE  AllowanceRests'
  <2>1. TypeOK /\ defs' \subseteq defs /\ UNCHANGED << file, mem, history >>
    BY <1>4 DEF CompareLimit, IndInv, store, schedules, history
  <2>2. fire' = [fire EXCEPT ![f] = Idle] \/ fire' = [fire EXCEPT ![f].pc = "cas"]
    BY <1>4 DEF CompareLimit, DropPermits
  <2>3. \A g \in Fires : InFlight(g)' =>
           /\ InFlight(g) /\ fire'[g].camp = fire[g].camp
           /\ fire'[g].proc = fire[g].proc /\ fire'[g].snap = fire[g].snap
    BY <1>4, <2>1, <2>2, IdleFacts DEF CompareLimit, TypeOK, InFlight, Dispatches
  <2>4. PICK q \in Procs : TRUE
    BY <1>4, FireFacts DEF CompareLimit
  <2> QED
    BY <2>1, <2>3, <2>4, AllowanceKept
<1>5. ASSUME NEW f \in Fires, Cas(f)
      PROVE  AllowanceRests'
  <2>1. TypeOK /\ defs' \subseteq defs /\ UNCHANGED << file, mem, history >>
    BY <1>5 DEF Cas, IndInv, store, schedules, history
  <2>2. \A g \in Fires : InFlight(g)' =>
           /\ InFlight(g) /\ fire'[g].camp = fire[g].camp
           /\ fire'[g].proc = fire[g].proc /\ fire'[g].snap = fire[g].snap
    BY <1>5, <2>1, IdleFacts DEF Cas, TypeOK, InFlight, Dispatches, DropPermits
  <2>3. PICK q \in Procs : TRUE
    BY <1>5, FireFacts DEF Cas
  <2> QED
    BY <2>1, <2>2, <2>3, AllowanceKept
<1>6. ASSUME NEW f \in Fires, StartRun(f)
      PROVE  AllowanceRests'
  <2>1. TypeOK /\ defs' \subseteq defs /\ UNCHANGED << file, mem, history >>
    BY <1>6 DEF StartRun, IndInv, store, schedules, history
  <2>2. \A g \in Fires : InFlight(g)' =>
           /\ InFlight(g) /\ fire'[g].camp = fire[g].camp
           /\ fire'[g].proc = fire[g].proc /\ fire'[g].snap = fire[g].snap
    BY <1>6, <2>1, IdleFacts DEF StartRun, TypeOK, InFlight, Dispatches, DropPermits
  <2>3. PICK q \in Procs : TRUE
    BY <1>6, FireFacts DEF StartRun
  <2> QED
    BY <2>1, <2>2, <2>3, AllowanceKept
<1>7. ASSUME NEW f \in Fires, FireCancelled(f)
      PROVE  AllowanceRests'
  <2>1. TypeOK /\ defs' \subseteq defs /\ UNCHANGED << file, mem, history >>
    BY <1>7 DEF FireCancelled, IndInv, store, schedules, history
  <2>2. \A g \in Fires : InFlight(g)' =>
           /\ InFlight(g) /\ fire'[g].camp = fire[g].camp
           /\ fire'[g].proc = fire[g].proc /\ fire'[g].snap = fire[g].snap
    BY <1>7, <2>1, IdleFacts DEF FireCancelled, TypeOK, InFlight, Dispatches, DropPermits
  <2>3. PICK q \in Procs : TRUE
    BY <1>7, FireFacts DEF FireCancelled
  <2> QED
    BY <2>1, <2>2, <2>3, AllowanceKept
<1>8. ASSUME NEW f \in Fires, NEW w \in Writes, FireFails(f, w)
      PROVE  AllowanceRests'
  <2>1. /\ TypeOK /\ fire[f].proc \in Procs /\ fire[f].camp \in Campaigns /\ defs \subseteq Campaigns
        /\ UNCHANGED << defs, history >>
    BY <1>8, FireFacts DEF FireFails, IndInv, TypeOK, schedules
  <2> DEFINE x == AdvanceCursor(mem[fire[f].proc], fire[f].camp)
  <2>2. /\ x \in Persisted
        /\ \A d \in Campaigns : x.states[d].runs = mem[fire[f].proc].states[d].runs
    BY <2>1, AdvanceFacts DEF TypeOK
  <2>3. WriteThrough(fire[f].proc, x, w) /\ fire' = [fire EXCEPT ![f] = Idle]
    BY <1>8 DEF FireFails, DropPermits
  <2> HIDE DEF x
  <2>4. /\ \A c \in defs', q \in Procs : mem'[q].states[c].runs = mem[q].states[c].runs
        /\ \A c \in defs' : file'.states[c].runs \in
             {file.states[c].runs, mem[fire[f].proc].states[c].runs}
    BY <2>1, <2>2, <2>3, WriteFacts
  <2>5. \A g \in Fires : InFlight(g)' =>
           /\ InFlight(g) /\ fire'[g].camp = fire[g].camp
           /\ fire'[g].proc = fire[g].proc /\ fire'[g].snap = fire[g].snap
    BY <2>1, <2>3, IdleFacts DEF TypeOK, InFlight
  <2> QED
    BY <2>1, <2>4, <2>5, AllowanceKept
<1>9. ASSUME NEW f \in Fires, NEW w \in Writes, NEW n \in 0..PerFire, FireSucceeds(f, n, w)
      PROVE  AllowanceRests'
  <2>1. /\ TypeOK /\ AllowanceRests /\ fire[f] \in Dispatches /\ fire[f].proc \in Procs
        /\ fire[f].camp \in Campaigns /\ InFlight(f) /\ UNCHANGED defs
        /\ fire' = [fire EXCEPT ![f] = Idle] /\ n \in Nat
        /\ n <= Allowance(fire[f].snap, fire[f].camp) /\ defs \subseteq Campaigns
    <3>1. fire[f].pc = "running" /\ TypeOK /\ AllowanceRests
      BY <1>9 DEF FireSucceeds, IndInv
    <3>2. n <= Allowance(fire[f].snap, fire[f].camp) /\ n \in Nat
      BY <1>9 DEF FireSucceeds
    <3> QED
      BY <1>9, <3>1, <3>2, FireFacts DEF FireSucceeds, DropPermits, InFlight, schedules, TypeOK
  <2>2. PICK p \in Procs, c \in Campaigns : p = fire[f].proc /\ c = fire[f].camp
    BY <2>1
  <2>3. \A q \in Procs : q = p
    BY DEF OneProcess
  <2>4. PICK x \in Persisted : x = RecordSuccess(mem[p], c, n)
    BY <2>1, SuccessFacts DEF TypeOK
  <2>5. /\ x.states[c].runs = Saturate(mem[p].states[c].runs + n)
        /\ \A d \in Campaigns : d # c => x.states[d].runs = mem[p].states[d].runs
    <3>1. mem[p] \in Persisted
      BY <2>1 DEF TypeOK
    <3> QED
      BY <2>1, <2>4, <3>1, SuccessFacts
  <2>6. /\ WriteThrough(p, x, w)
        /\ done' = [done EXCEPT ![c] = Saturate(@ + n)]
        /\ reported' = IF w = "ok" THEN [reported EXCEPT ![c] = Saturate(@ + n)] ELSE reported
    BY <1>9, <2>2, <2>4 DEF FireSucceeds
  <2>7. /\ file' \in {file, x}
        /\ w = "ok" => mem'[p] = x /\ file' = x
        /\ w # "ok" => mem' = mem
    BY <2>1, <2>6, WriteFacts
  <2>8. /\ \A d \in Campaigns : d # c => done'[d] = done[d] /\ reported'[d] = reported[d]
        /\ done'[c] = Saturate(done[c] + n)
        /\ reported'[c] = IF w = "ok" THEN Saturate(reported[c] + n) ELSE reported[c]
    BY <2>1, <2>6 DEF TypeOK
  <2>9. ASSUME NEW d \in defs, d # c
        PROVE  /\ mem'[p].states[d].runs = mem[p].states[d].runs
               /\ file'.states[d].runs \in {file.states[d].runs, mem[p].states[d].runs}
    BY <2>1, <2>5, <2>7, <2>9
  <2>10. ASSUME NEW g \in Fires PROVE SnapRests(g)'
    <3>1. CASE InFlight(g)' /\ fire'[g].camp \in defs
      <4>1. g # f /\ fire'[g] = fire[g] /\ InFlight(g)
        BY <2>1, <3>1, IdleFacts DEF TypeOK, InFlight
      <4>2. fire[g].camp # c /\ fire[g].proc = p
        <5>1. fire[g].proc \in Procs
          BY <4>1, FireFacts DEF InFlight
        <5> QED
          BY <2>1, <2>2, <2>3, <4>1, <5>1 DEF IndInv, FiresRest, OneFireEach
      <4>3. SnapRests(g)
        BY <2>1 DEF AllowanceRests
      <4> QED
        BY <2>1, <2>9, <3>1, <4>1, <4>2, <4>3 DEF SnapRests
    <3>2. CASE ~(InFlight(g)' /\ fire'[g].camp \in defs)
      BY <2>1, <3>2 DEF SnapRests
    <3> QED
      BY <3>1, <3>2
  <2>11. ASSUME NEW d \in defs
         PROVE  /\ reported'[d] <= mem'[p].states[d].runs /\ mem'[p].states[d].runs <= done'[d]
                /\ reported'[d] <= file'.states[d].runs /\ file'.states[d].runs <= done'[d]
                /\ MaxRuns[d] # 0 => reported'[d] <= MaxRuns[d]
    <3>1. /\ reported[d] <= mem[p].states[d].runs /\ mem[p].states[d].runs <= done[d]
          /\ reported[d] <= file.states[d].runs /\ file.states[d].runs <= done[d]
          /\ MaxRuns[d] # 0 => reported[d] <= MaxRuns[d]
      BY <2>1 DEF AllowanceRests, ChargeRests, ChargedIsHonest, BudgetHolds
    <3>2. CASE d # c
      BY <2>1, <2>8, <2>9, <3>1, <3>2
    <3>3. CASE d = c
      <4>1. /\ reported[c] \in Nat /\ done[c] \in 0..MaxU32 /\ done[c] \in Nat
            /\ mem[p].states[c].runs \in Nat /\ file.states[c].runs \in Nat
            /\ MaxRuns[c] \in Nat /\ MaxRuns[c] <= MaxU32 /\ MaxU32 \in Nat /\ PerFire \in Nat
        BY <2>1, NumberAssumption DEF TypeOK, Persisted, State
      <4>2. /\ fire[f].snap.runs = mem[p].states[c].runs
            /\ MaxRuns[c] # 0 => mem[p].states[c].runs < MaxRuns[c]
        BY <2>1, <2>2, <3>3 DEF AllowanceRests, SnapRests
      <4>3. MaxRuns[c] # 0 => mem[p].states[c].runs + n <= MaxRuns[c]
        BY <2>1, <2>2, <4>1, <4>2 DEF Allowance, Smaller
      <4> DEFINE r == mem[p].states[c].runs
      <4>4. r \in Nat /\ reported[c] <= r /\ r <= done[c] /\ r = mem[p].states[c].runs
        BY <3>1, <3>3, <4>1
      <4>5. MaxRuns[c] # 0 => r + n <= MaxRuns[c]
        BY <4>3
      <4>6. x.states[c].runs = Saturate(r + n)
        BY <2>5
      <4> HIDE DEF r
      <4>7. /\ Saturate(reported[c] + n) <= Saturate(r + n)
            /\ Saturate(r + n) <= Saturate(done[c] + n)
            /\ done[c] <= Saturate(done[c] + n) /\ reported[c] <= Saturate(r + n)
            /\ MaxRuns[c] # 0 => Saturate(r + n) <= MaxRuns[c]
            /\ Saturate(r + n) \in Nat /\ Saturate(done[c] + n) \in Nat
            /\ Saturate(reported[c] + n) \in Nat
        BY <2>1, <4>1, <4>4, <4>5 DEF Saturate
      <4>8. CASE w = "ok"
        BY <2>7, <2>8, <3>3, <4>1, <4>4, <4>6, <4>7, <4>8
      <4>9. CASE w # "ok"
        <5>1. /\ reported'[c] = reported[c] /\ done'[c] = Saturate(done[c] + n)
              /\ mem'[p].states[c].runs = r
              /\ file'.states[c].runs \in {file.states[c].runs, Saturate(r + n)}
          BY <2>7, <2>8, <4>4, <4>6, <4>9
        <5> QED
          BY <3>1, <3>3, <4>1, <4>4, <4>7, <5>1
      <4> QED
        BY <4>8, <4>9
    <3> QED
      BY <3>2, <3>3
  <2>12. \A d \in defs : ChargeRests(d)'
    BY <2>3, <2>11 DEF ChargeRests
  <2>13. BudgetHolds' /\ ChargedIsHonest'
    BY <2>1, <2>11 DEF BudgetHolds, ChargedIsHonest
  <2> QED
    BY <2>1, <2>10, <2>12, <2>13 DEF AllowanceRests
<1>10. ASSUME NEW f \in Fires, Refuse(f)
      PROVE  AllowanceRests'
  <2>1. TypeOK /\ defs' \subseteq defs /\ UNCHANGED << file, mem, history >>
    BY <1>10 DEF Refuse, IndInv, store, schedules, history
  <2>2. \A g \in Fires : InFlight(g)' =>
           /\ InFlight(g) /\ fire'[g].camp = fire[g].camp
           /\ fire'[g].proc = fire[g].proc /\ fire'[g].snap = fire[g].snap
    BY <1>10, <2>1, IdleFacts DEF Refuse, TypeOK, InFlight, Dispatches, DropPermits
  <2>3. PICK q \in Procs : TRUE
    BY <1>10, FireFacts DEF Refuse
  <2> QED
    BY <2>1, <2>2, <2>3, AllowanceKept
<1>11. ASSUME NEW f \in Fires, Abort(f)
      PROVE  AllowanceRests'
  <2>1. TypeOK /\ defs' \subseteq defs /\ UNCHANGED << file, mem, history >>
    BY <1>11 DEF Abort, IndInv, store, schedules, history
  <2>2. \A g \in Fires : InFlight(g)' =>
           /\ InFlight(g) /\ fire'[g].camp = fire[g].camp
           /\ fire'[g].proc = fire[g].proc /\ fire'[g].snap = fire[g].snap
    BY <1>11, <2>1, IdleFacts DEF Abort, TypeOK, InFlight, Dispatches, DropPermits
  <2>3. PICK q \in Procs : TRUE
    BY <1>11, FireFacts DEF Abort
  <2> QED
    BY <2>1, <2>2, <2>3, AllowanceKept
<1>12. ASSUME NEW c \in Campaigns, PauseSelf(c)
      PROVE  AllowanceRests'
  <2>1. TypeOK /\ defs' \subseteq defs /\ UNCHANGED << file, mem, history, fire >>
    BY <1>12 DEF PauseSelf, IndInv, store, schedules, history
  <2> QED
    BY <2>1, NothingCharged
<1>13. ASSUME NEW c \in Campaigns, Resume(c)
      PROVE  AllowanceRests'
  <2>1. TypeOK /\ defs' \subseteq defs /\ UNCHANGED << file, mem, history, fire >>
    BY <1>13 DEF Resume, IndInv, store, schedules, history
  <2> QED
    BY <2>1, NothingCharged
<1>14. ASSUME NEW c \in Campaigns, Remove(c)
      PROVE  AllowanceRests'
  <2>1. TypeOK /\ defs' \subseteq defs /\ UNCHANGED << file, mem, history, fire >>
    BY <1>14 DEF Remove, IndInv, store, schedules, history
  <2> QED
    BY <2>1, NothingCharged
<1>15. ASSUME NEW c \in Campaigns, NEW p \in Procs, NEW w \in Writes, Forget(c, p, w)
      PROVE  AllowanceRests'
  <2>1. /\ TypeOK /\ mem[p] \in Persisted /\ defs \subseteq Campaigns /\ c \notin defs
        /\ UNCHANGED << defs, fire, history >>
    BY <1>15 DEF Forget, IndInv, TypeOK
  <2> DEFINE x == [mem[p] EXCEPT !.known = @ \ {c}, !.states = [@ EXCEPT ![c] = ZeroState]]
  <2>2. x \in Persisted /\ \A d \in Campaigns : d # c => x.states[d] = mem[p].states[d]
    BY <2>1, ForgetFacts
  <2>3. WriteThrough(p, x, w) \/ UNCHANGED << file, mem >>
    BY <1>15 DEF Forget, store
  <2> HIDE DEF x
  <2>4. /\ \A d \in defs', q \in Procs : mem'[q].states[d].runs = mem[q].states[d].runs
        /\ \A d \in defs' : file'.states[d].runs \in
             {file.states[d].runs, mem[p].states[d].runs}
    BY <2>1, <2>2, <2>3, WriteFacts
  <2>5. \A g \in Fires : InFlight(g)' <=> InFlight(g)
    BY <2>1 DEF InFlight
  <2> QED
    BY <2>1, <2>4, <2>5, AllowanceKept
<1>16. ASSUME NEW s \in Setters, NEW p \in Procs, NEW n \in Limits, NEW w \in Writes, SetMax(s, p, n, w)
      PROVE  AllowanceRests'
  <2>1. TypeOK /\ mem[p] \in Persisted /\ n \in Nat /\ UNCHANGED << defs, fire, history >>
    BY <1>16, NumberAssumption DEF SetMax, IndInv, TypeOK, schedules
  <2> DEFINE x == [mem[p] EXCEPT !.max = AtLeastOne(n)]
  <2>2. x \in Persisted /\ x.states = mem[p].states
    BY <2>1, SettingFacts
  <2>3. WriteThrough(p, x, w)
    BY <1>16 DEF SetMax
  <2> HIDE DEF x
  <2>4. /\ \A c \in defs', q \in Procs : mem'[q].states[c].runs = mem[q].states[c].runs
        /\ \A c \in defs' : file'.states[c].runs \in
             {file.states[c].runs, mem[p].states[c].runs}
    BY <2>1, <2>2, <2>3, WriteFacts
  <2>5. \A g \in Fires : InFlight(g)' <=> InFlight(g)
    BY <2>1 DEF InFlight
  <2> QED
    BY <2>1, <2>4, <2>5, AllowanceKept
<1>17. ASSUME NEW s \in Setters, ReadMax(s)
      PROVE  AllowanceRests'
  <2>1. TypeOK /\ defs' \subseteq defs /\ UNCHANGED << file, mem, history, fire >>
    BY <1>17 DEF ReadMax, IndInv, store, schedules, history
  <2> QED
    BY <2>1, NothingCharged
<1>18. ASSUME NEW s \in Setters, ApplyMax(s)
      PROVE  AllowanceRests'
  <2>1. TypeOK /\ defs' \subseteq defs /\ UNCHANGED << file, mem, history, fire >>
    BY <1>18 DEF ApplyMax, IndInv, store, schedules, history
  <2> QED
    BY <2>1, NothingCharged
<1>19. ASSUME NEW p \in Procs, Crash(p)
      PROVE  AllowanceRests'
  <2>1. TypeOK /\ defs' \subseteq defs /\ UNCHANGED << file, mem, history >>
    BY <1>19 DEF Crash, IndInv, store, schedules, history
  <2>2. \A g \in Fires : InFlight(g)' =>
           /\ InFlight(g) /\ fire'[g].camp = fire[g].camp
           /\ fire'[g].proc = fire[g].proc /\ fire'[g].snap = fire[g].snap
    BY <1>19, <2>1, IdleFacts DEF Crash, TypeOK, InFlight
  <2>3. PICK q \in Procs : TRUE
    OBVIOUS
  <2> QED
    BY <2>1, <2>2, <2>3, AllowanceKept
<1>20. ASSUME NEW p \in Procs, Restart(p)
      PROVE  AllowanceRests'
  <2>1. /\ TypeOK /\ AllowanceRests /\ p \notin up
        /\ UNCHANGED << file, defs, fire, history >> /\ mem' = [mem EXCEPT ![p] = file]
    BY <1>20 DEF Restart, IndInv, schedules
  <2>2. \A g \in Fires : ~InFlight(g)
    BY <2>1, FireFacts DEF OneProcess, InFlight
  <2>3. \A g \in Fires : SnapRests(g)'
    BY <2>1, <2>2 DEF SnapRests, InFlight
  <2>4. \A q \in Procs : mem'[q] = file
    BY <2>1 DEF TypeOK, OneProcess
  <2>5. \A c \in defs : ChargeRests(c)'
    BY <2>1, <2>4 DEF AllowanceRests, ChargedIsHonest, ChargeRests, history
  <2>6. BudgetHolds' /\ ChargedIsHonest'
    BY <2>1 DEF AllowanceRests, BudgetHolds, ChargedIsHonest, history
  <2> QED
    BY <2>1, <2>3, <2>5, <2>6 DEF AllowanceRests
<1> QED
  BY <1>1, <1>2, <1>3, <1>4, <1>5, <1>6, <1>7, <1>8, <1>9, <1>10,
     <1>11, <1>12, <1>13, <1>14, <1>15, <1>16, <1>17, <1>18, <1>19, <1>20 DEF Next, Step

-------------------------------------------------------------------------------
(* The invariant holds at first, and in every state.                         *)

\* At first nothing runs, nothing is charged and the gates have the default.
LEMMA InitIndInv ==
  ASSUME Init
  PROVE  IndInv
<1>1. TypeOK
  <2>1. /\ file \in Persisted /\ mem \in [Procs -> Persisted]
        /\ fire \in [Fires -> Dispatches] /\ setter \in [Setters -> Settings]
    BY IdleFacts DEF Init
  <2>2. left \in [Faults -> Nat]
    BY BudgetAssumption DEF Init
  <2> QED
    BY <2>1, <2>2, NumberAssumption DEF Init, TypeOK
<1>2. /\ \A f \in Fires : fire[f].pc = "idle" /\ ~InFlight(f) /\ ~HasSlot(f)
      /\ \A s \in Setters : setter[s].pc = "idle" /\ setter[s].proc = None
  BY IdleFacts DEF Init, InFlight, HasSlot
<1>3. FiresRest
  BY <1>2 DEF FiresRest, FireRests, OneFireEach
<1>4. GateCountsPermits
  <2>1. \A p \in Procs : Slots(p) = {}
    BY <1>2 DEF Slots
  <2> QED
    BY <2>1, FS_EmptySet DEF Init, GateCountsPermits
<1>5. GateNeverOverrun /\ LimitSeen
  BY NumberAssumption DEF Init, GateNeverOverrun, LimitSeen
<1>6. (\A s \in Setters : SetterLives(s)) /\ SettersRest /\ forgetting \cap defs = {}
  BY <1>2 DEF Init, SetterLives, SettersRest
<1>7. GateFollowsSetting
  BY IdleFacts DEF Init, GateFollowsSetting
<1>8. AllowanceRests
  <2>1. \A f \in Fires : SnapRests(f)
    BY <1>2 DEF SnapRests
  <2>2. \A c \in Campaigns : file.states[c].runs = 0 /\ \A p \in Procs : mem[p].states[c].runs = 0
    BY IdleFacts DEF Init
  <2>3. \A c \in Campaigns : reported[c] = 0 /\ done[c] = 0 /\ MaxRuns[c] \in Nat
    BY NumberAssumption DEF Init
  <2>4. defs = Campaigns
    BY DEF Init
  <2> QED
    BY <2>1, <2>2, <2>3, <2>4 DEF AllowanceRests, ChargeRests, BudgetHolds, ChargedIsHonest
<1> QED
  BY <1>1, <1>3, <1>4, <1>5, <1>6, <1>7, <1>8 DEF IndInv

\* Whatever leaves the variables alone leaves the invariant alone.
LEMMA StutterIndInv ==
  ASSUME IndInv, UNCHANGED vars
  PROVE  IndInv'
<1> USE DEF vars
<1>1. TypeOK' /\ FiresRest'
  BY DEF IndInv, TypeOK, FiresRest, FireRests, OneFireEach, InFlight
<1>2. GateCountsPermits'
  BY SlotsKept DEF HasSlot
<1>3. GateNeverOverrun' /\ LimitSeen' /\ (\A s \in Setters : SetterLives(s)')
        /\ forgetting' \cap defs' = {}
  BY DEF IndInv, GateNeverOverrun, LimitSeen, SetterLives
<1>4. Guarded = Setters => SettersRest' /\ GateFollowsSetting'
  BY SettingsKept
<1>5. OneProcess => AllowanceRests'
  BY <1>1, NothingCharged DEF history
<1> QED
  BY <1>1, <1>2, <1>3, <1>4, <1>5 DEF IndInv, OneProcess

\* The inductive invariant, in every behaviour of the campaigns of
\* crates/hf-service/src/campaign_state.rs and dispatch_campaign.
THEOREM CampaignInvariant == Spec => []IndInv
<1>1. ASSUME IndInv, Next PROVE IndInv'
  <2>1. TypeOK'
    BY <1>1, StepType
  <2>2. FiresRest' /\ GateCountsPermits' /\ GateNeverOverrun' /\ LimitSeen'
    BY <1>1, <2>1, StepFires, StepGate
  <2>3. (\A s \in Setters : SetterLives(s)') /\ forgetting' \cap defs' = {}
    BY <1>1, StepLives, StepForgotten
  <2>4. Guarded = Setters => SettersRest' /\ GateFollowsSetting'
    BY <1>1, StepSettings
  <2>5. OneProcess => AllowanceRests'
    BY <1>1, <2>1, StepAllowance
  <2> QED
    BY <2>1, <2>2, <2>3, <2>4, <2>5 DEF IndInv, OneProcess
<1> QED
  BY <1>1, InitIndInv, StutterIndInv, PTL DEF Spec

\* try_enter and the drop of a permit (campaign_state.rs:350) lose no race, with
\* any number of fires and any limits an operator sets, through aborts and
\* crashes: the gate counts exactly the permits that are out, and never lets more
\* campaigns fuzz at once than some limit it has had.
THEOREM GateNeverMiscounts == Spec => [](GateCountsPermits /\ GateNeverOverrun)
<1>1. IndInv => GateCountsPermits /\ GateNeverOverrun
  BY DEF IndInv
<1> QED
  BY <1>1, CampaignInvariant, PTL

\* The gate follows the persisted setting as well, if every caller of
\* try_set_max_concurrent holds the schedule mutation lock, as the web route does.
THEOREM GateAlwaysHolds ==
  ASSUME Guarded = Setters
  PROVE  Spec => []GateHolds
<1>1. IndInv => GateHolds
  BY DEF IndInv, GateHolds
<1> QED
  BY <1>1, CampaignInvariant, PTL

\* With one process on the schedule directory, a campaign has one fire in flight,
\* its iterations stay within max_runs, and it is charged for no more than it did
\* and no less than it reported, whatever writes fail and whenever it crashes.
THEOREM AllowanceAlwaysHolds ==
  ASSUME OneProcess
  PROVE  Spec => []AllowanceHolds
<1>1. IndInv => AllowanceHolds
  <2>1. ASSUME IndInv PROVE OneFirePerCampaign
    <3>1. \A f \in Fires : InFlight(f) => fire[f].proc \in Procs
      BY <2>1, FireFacts DEF InFlight
    <3>2. OneFireEach
      BY <2>1 DEF IndInv, FiresRest
    <3> QED
      BY <3>1, <3>2 DEF OneProcess, OneFireEach, OneFirePerCampaign
  <2> QED
    BY <2>1 DEF IndInv, AllowanceHolds, AllowanceRests
<1> QED
  BY <1>1, CampaignInvariant, PTL

===============================================================================
