----------------------------- MODULE CampaignState -----------------------------
(***************************************************************************)
(* Scheduled campaigns while they run: the sidecar campaign_state.json     *)
(* with each campaign's progress and the concurrency setting, the registry *)
(* that lets one fire of a campaign run at a time, the lock-free gate that *)
(* bounds how many campaigns fuzz at once                                  *)
(* (crates/hf-service/src/campaign_state.rs), and the fire that uses them  *)
(* (FuzzCampaignDispatcher::dispatch_campaign in scheduler.rs).            *)
(*                                                                         *)
(* Every process loads the sidecar once and writes it through.  Only what  *)
(* rotation and the run budget need is kept of a campaign's progress;      *)
(* measured seconds are left out, and a time budget shows only as a fire   *)
(* that may complete no iteration.                                         *)
(***************************************************************************)
EXTENDS Naturals, FiniteSets

CONSTANTS
  Procs,       \* processes with a campaign scheduler: desktop, web, CLI
  Campaigns,   \* schedule ids
  Fires,       \* slots for dispatches in flight
  Setters,     \* callers of try_set_max_concurrent
  Guarded,     \* those that hold the schedule mutation lock (the web route)
  MaxRuns,     \* max_runs of each campaign, 0 for none
  Timed,       \* campaigns with max_total_secs
  NTargets,    \* promoted targets of a project
  Limits,      \* values an operator chooses for the limit, 0 included
  DefaultLimit,\* DEFAULT_MAX_CONCURRENT
  MaxU32,      \* u32::MAX, where runs_done saturates
  CursorSpan,  \* 2^64, where the cursor wraps
  PerFire,     \* iterations of one fire without a tighter budget (3)
  None,
  Budgets      \* how many times each fault or operator step may happen, a choice of

Faults == {"crash", "abort", "cancel", "refuse", "write", "set", "remove", "resume"}

ASSUME SetAssumption ==
  /\ IsFiniteSet(Fires) /\ IsFiniteSet(Procs)
  /\ Guarded \subseteq Setters /\ Timed \subseteq Campaigns
  /\ None \notin Campaigns \cup Procs \cup Setters
ASSUME NumberAssumption ==
  /\ MaxRuns \in [Campaigns -> Nat] /\ Limits \subseteq Nat
  /\ NTargets \in Nat \ {0} /\ DefaultLimit \in Nat \ {0} /\ CursorSpan \in Nat \ {0}
  /\ MaxU32 \in Nat /\ PerFire \in Nat \ {0}
  /\ \A c \in Campaigns : MaxRuns[c] <= MaxU32
ASSUME BudgetAssumption == Budgets \subseteq [Faults -> Nat]

VARIABLES
  file,        \* durable: the contents of campaign_state.json
  mem,         \* each process's copy (CampaignStateStore::inner)
  defs,        \* durable: campaigns with a definition in schedules.json
  enabled,     \* campaigns whose schedule fires
  pausing,     \* spawned tasks of pause_self
  forgetting,  \* removed definitions whose state is not dropped yet
  up,          \* processes that run
  dispatching, \* each process's registry of campaigns with a fire in flight
  running,     \* ConcurrencyGate::running of each process
  limit,       \* ConcurrencyGate::limit of each process
  fire,        \* the dispatches in flight
  setter,      \* the callers of try_set_max_concurrent
  highest,     \* history: the largest limit each gate has had since it was made
  done,        \* history: iterations of the successful outcomes of a campaign
  reported,    \* history: iterations of the fires that reported success
  left         \* remaining fault budget

vars == << file, mem, defs, enabled, pausing, forgetting, up, dispatching, running,
           limit, fire, setter, highest, done, reported, left >>

store == << file, mem >>
schedules == << defs, enabled, pausing, forgetting >>
gates == << running, limit, highest >>
history == << done, reported >>

\* CampaignRuntimeState and Persisted.
State == [cursor : 0..CursorSpan-1, runs : 0..MaxU32]
ZeroState == [cursor |-> 0, runs |-> 0]
Persisted == [max : Nat \ {0}, known : SUBSET Campaigns, states : [Campaigns -> State]]
Empty == [max |-> DefaultLimit, known |-> {}, states |-> [c \in Campaigns |-> ZeroState]]

FirePCs == {"idle", "fired", "load", "compare", "cas", "admitted", "running"}
Dispatches == [pc : FirePCs, proc : Procs \cup {None}, camp : Campaigns \cup {None},
               snap : State, cur : Nat]
Settings == [pc : {"idle", "read", "apply"}, proc : Procs \cup {None}, value : Nat]
Idle == [pc |-> "idle", proc |-> None, camp |-> None, snap |-> ZeroState, cur |-> 0]
SetterIdle == [pc |-> "idle", proc |-> None, value |-> 0]

\* set_limit and the setters: never below one.
AtLeastOne(n) == IF n = 0 THEN 1 ELSE n

Saturate(n) == IF n > MaxU32 THEN MaxU32 ELSE n

Smaller(a, b) == IF a < b THEN a ELSE b
Larger(a, b) == IF a < b THEN b ELSE a

Spend(S) == /\ \A f \in S : left[f] > 0
            /\ left' = [f \in Faults |-> IF f \in S THEN left[f] - 1 ELSE left[f]]

Writes == {"ok", "lost", "unsynced"}
WriteCost(w) == IF w = "ok" THEN {} ELSE {"write"}

\* Mutant: memory takes the new value before the file is written.
WriteThroughEager(p, candidate, w) ==
  /\ file' = IF w = "lost" THEN file ELSE candidate
  /\ mem' = [mem EXCEPT ![p] = candidate]

\* atomic_write_json, then the assignment to memory.  An error can come before
\* the rename, or after it when the directory cannot be synced.
WriteThrough(p, candidate, w) ==
  /\ file' = IF w = "lost" THEN file ELSE candidate
  /\ mem' = IF w = "ok" THEN [mem EXCEPT ![p] = candidate] ELSE mem

\* The store with one campaign's state replaced (entry().or_default()).
With(m, c, s) ==
  [m EXCEPT !.known = @ \cup {c}, !.states = [@ EXCEPT ![c] = s]]

NextCursor(s) == (s.cursor + 1) % CursorSpan

\* record_success: one step of the cursor, and every completed iteration.
RecordSuccess(m, c, n) ==
  With(m, c, [cursor |-> NextCursor(m.states[c]),
              runs |-> Saturate(m.states[c].runs + n)])

\* Mutant: a failed fire leaves the cursor where it was.
AdvanceCursorNot(m, c) == m

\* Mutant: a failed fire is charged as a run.
AdvanceCursorCharging(m, c) ==
  With(m, c, [cursor |-> NextCursor(m.states[c]), runs |-> Saturate(m.states[c].runs + 1)])

\* advance_cursor: the budget is not charged.
AdvanceCursor(m, c) ==
  With(m, c, [m.states[c] EXCEPT !.cursor = NextCursor(m.states[c])])

\* budget_skip_reason
Spent(s, c) == MaxRuns[c] # 0 /\ s.runs >= MaxRuns[c]

\* The iterations a fire may run: what the budget left when it was read.
Allowance(s, c) ==
  IF MaxRuns[c] = 0 THEN PerFire ELSE Smaller(PerFire, MaxRuns[c] - s.runs)

Target(f) == fire[f].snap.cursor % NTargets

Init ==
  /\ file = Empty
  /\ mem = [p \in Procs |-> Empty]
  /\ defs = Campaigns /\ enabled = Campaigns
  /\ pausing = {} /\ forgetting = {}
  /\ up = Procs
  /\ dispatching = [p \in Procs |-> {}]
  /\ running = [p \in Procs |-> 0]
  /\ limit = [p \in Procs |-> DefaultLimit]
  /\ fire = [f \in Fires |-> Idle]
  /\ setter = [s \in Setters |-> SetterIdle]
  /\ highest = [p \in Procs |-> DefaultLimit]
  /\ done = [c \in Campaigns |-> 0]
  /\ reported = [c \in Campaigns |-> 0]
  /\ left \in Budgets

-------------------------------------------------------------------------------
(* One fire                                                                  *)

\* The trigger of an enabled schedule is due.
Fire(f, p, c) ==
  /\ fire[f].pc = "idle" /\ p \in up /\ c \in enabled \cap defs
  /\ fire' = [fire EXCEPT ![f] = [Idle EXCEPT !.pc = "fired", !.proc = p, !.camp = c]]
  /\ UNCHANGED << store, schedules, up, dispatching, gates, setter, history, left >>

\* Mutant: the registry lets a second fire of a campaign through.
TryDispatchAlways(p, c) == TRUE

\* CampaignStateStore::try_dispatch
TryDispatch(p, c) == c \notin dispatching[p]

\* Mutant: a spent campaign is skipped but not paused.
AdmitWithoutPause(f) ==
  LET p == fire[f].proc
      c == fire[f].camp
      snap == mem[p].states[c]
  IN  /\ fire[f].pc = "fired"
      /\ IF TryDispatch(p, c) /\ ~Spent(snap, c)
         THEN /\ dispatching' = [dispatching EXCEPT ![p] = @ \cup {c}]
              /\ fire' = [fire EXCEPT ![f].pc = "load", ![f].snap = snap]
         ELSE UNCHANGED dispatching /\ fire' = [fire EXCEPT ![f] = Idle]
      /\ UNCHANGED << store, schedules, up, gates, setter, history, left >>

\* try_dispatch, then the budget check on a snapshot of the campaign's state.
Admit(f) ==
  LET p == fire[f].proc
      c == fire[f].camp
      snap == mem[p].states[c]
  IN  /\ fire[f].pc = "fired"
      /\ IF TryDispatch(p, c) /\ ~Spent(snap, c)
         THEN /\ dispatching' = [dispatching EXCEPT ![p] = @ \cup {c}]
              /\ fire' = [fire EXCEPT ![f].pc = "load", ![f].snap = snap]
         ELSE UNCHANGED dispatching /\ fire' = [fire EXCEPT ![f] = Idle]
      /\ pausing' = IF TryDispatch(p, c) /\ Spent(snap, c) THEN pausing \cup {c} ELSE pausing
      /\ UNCHANGED << store, defs, enabled, forgetting, up, gates, setter, history, left >>

\* try_enter: the first load.
LoadRunning(f) ==
  /\ fire[f].pc = "load"
  /\ fire' = [fire EXCEPT ![f].pc = "compare", ![f].cur = running[fire[f].proc]]
  /\ UNCHANGED << store, schedules, up, dispatching, gates, setter, history, left >>

\* The permits of a fire are dropped when it returns.
DropPermits(f, hasSlot) ==
  LET p == fire[f].proc
  IN  /\ fire' = [fire EXCEPT ![f] = Idle]
      /\ dispatching' = [dispatching EXCEPT ![p] = @ \ {fire[f].camp}]
      /\ running' = IF hasSlot THEN [running EXCEPT ![p] = @ - 1] ELSE running

\* try_enter: the comparison with the limit; a full gate skips the fire.
CompareLimit(f) ==
  /\ fire[f].pc = "compare"
  /\ IF fire[f].cur >= limit[fire[f].proc]
     THEN DropPermits(f, FALSE)
     ELSE fire' = [fire EXCEPT ![f].pc = "cas"] /\ UNCHANGED << dispatching, running >>
  /\ UNCHANGED << store, schedules, up, limit, highest, setter, history, left >>

\* Mutant: the slot is taken with a plain store.
CasBlind(f) ==
  /\ fire[f].pc = "cas"
  /\ running' = [running EXCEPT ![fire[f].proc] = fire[f].cur + 1]
  /\ fire' = [fire EXCEPT ![f].pc = "admitted", ![f].cur = 0]
  /\ UNCHANGED << store, schedules, up, dispatching, limit, highest, setter, history, left >>

\* Mutant: a lost race takes the slot anyway.
CasIgnored(f) ==
  LET p == fire[f].proc
  IN  /\ fire[f].pc = "cas"
      /\ running' = [running EXCEPT ![p] = @ + 1]
      /\ fire' = [fire EXCEPT ![f].pc = "admitted", ![f].cur = 0]
      /\ UNCHANGED << store, schedules, up, dispatching, limit, highest, setter, history, left >>

\* try_enter: take the slot unless the count moved, and then try again.
Cas(f) ==
  LET p == fire[f].proc
      won == running[p] = fire[f].cur
  IN  /\ fire[f].pc = "cas"
      /\ running' = IF won THEN [running EXCEPT ![p] = @ + 1] ELSE running
      /\ fire' = [fire EXCEPT ![f].pc = IF won THEN "admitted" ELSE "load", ![f].cur = 0]
      /\ UNCHANGED << store, schedules, up, dispatching, limit, highest, setter, history, left >>

\* No allocation, no promoted target, or an engine setting that is refused.
Refuse(f) ==
  /\ fire[f].pc = "admitted"
  /\ DropPermits(f, TRUE)
  /\ Spend({"refuse"})
  /\ UNCHANGED << store, schedules, up, limit, highest, setter, history >>

\* The picked target can be run.
StartRun(f) ==
  /\ fire[f].pc = "admitted"
  /\ fire' = [fire EXCEPT ![f].pc = "running"]
  /\ UNCHANGED << store, schedules, up, dispatching, gates, setter, history, left >>

\* The target's engine does not parse, or the campaign returned an error: the
\* cursor moves on, and a write that fails is only logged.
FireFails(f, w) ==
  LET p == fire[f].proc
  IN  /\ fire[f].pc \in {"admitted", "running"}
      /\ WriteThrough(p, AdvanceCursor(mem[p], fire[f].camp), w)
      /\ DropPermits(f, TRUE)
      /\ Spend(WriteCost(w))
      /\ UNCHANGED << schedules, up, limit, highest, setter, history >>

\* A cancelled campaign is not charged and keeps its place in the rotation.
FireCancelled(f) ==
  /\ fire[f].pc = "running"
  /\ DropPermits(f, TRUE)
  /\ Spend({"cancel"})
  /\ UNCHANGED << store, schedules, up, limit, highest, setter, history >>

\* The campaign returned after n iterations, and its progress is persisted.
FireSucceeds(f, n, w) ==
  LET p == fire[f].proc
      c == fire[f].camp
  IN  /\ fire[f].pc = "running"
      /\ n \in (IF c \in Timed THEN 0 ELSE 1)..Allowance(fire[f].snap, c)
      /\ WriteThrough(p, RecordSuccess(mem[p], c, n), w)
      /\ done' = [done EXCEPT ![c] = Saturate(@ + n)]
      /\ reported' = IF w = "ok" THEN [reported EXCEPT ![c] = Saturate(@ + n)] ELSE reported
      /\ DropPermits(f, TRUE)
      /\ Spend(WriteCost(w))
      /\ UNCHANGED << schedules, up, limit, highest, setter >>

\* The manager stops and drops the dispatch at one of its awaits.
Abort(f) ==
  /\ fire[f].pc \in {"admitted", "running"}
  /\ DropPermits(f, TRUE)
  /\ Spend({"abort"})
  /\ UNCHANGED << store, schedules, up, limit, highest, setter, history >>

-------------------------------------------------------------------------------
(* The schedule and the operator                                             *)

\* The task pause_self spawned.
PauseSelf(c) ==
  /\ c \in pausing
  /\ pausing' = pausing \ {c}
  /\ enabled' = enabled \ {c}
  /\ UNCHANGED << store, defs, forgetting, up, dispatching, gates, fire, setter, history, left >>

\* try_set_enabled(id, true)
Resume(c) ==
  /\ c \in defs \ enabled
  /\ enabled' = enabled \cup {c}
  /\ Spend({"resume"})
  /\ UNCHANGED << store, defs, pausing, forgetting, up, dispatching, gates, fire, setter, history >>

\* try_remove_for_scope: the definition is removed and persisted first.
Remove(c) ==
  /\ c \in defs
  /\ defs' = defs \ {c} /\ enabled' = enabled \ {c}
  /\ forgetting' = forgetting \cup {c}
  /\ Spend({"remove"})
  /\ UNCHANGED << store, pausing, up, dispatching, gates, fire, setter, history >>

\* try_forget, in the process that removed the definition.
Forget(c, p, w) ==
  LET candidate == [mem[p] EXCEPT !.known = @ \ {c}, !.states = [@ EXCEPT ![c] = ZeroState]]
  IN  /\ c \in forgetting /\ p \in up
      /\ forgetting' = forgetting \ {c}
      /\ IF c \in mem[p].known
         THEN WriteThrough(p, candidate, w)
         ELSE w = "ok" /\ UNCHANGED store
      /\ Spend(WriteCost(w))
      /\ UNCHANGED << defs, enabled, pausing, up, dispatching, gates, fire, setter, history >>

\* try_set_max_concurrent: the setting is persisted, ...
SetMax(s, p, n, w) ==
  /\ setter[s].pc = "idle" /\ p \in up
  /\ s \in Guarded => \A t \in Guarded : setter[t].pc = "idle"
  /\ WriteThrough(p, [mem[p] EXCEPT !.max = AtLeastOne(n)], w)
  /\ setter' = IF w = "ok"
               THEN [setter EXCEPT ![s] = [SetterIdle EXCEPT !.pc = "read", !.proc = p]]
               ELSE setter
  /\ Spend({"set"} \cup WriteCost(w))
  /\ UNCHANGED << schedules, up, dispatching, gates, fire, history >>

\* ... read back, ...
ReadMax(s) ==
  /\ setter[s].pc = "read"
  /\ setter' = [setter EXCEPT ![s].pc = "apply", ![s].value = mem[setter[s].proc].max]
  /\ UNCHANGED << store, schedules, up, dispatching, gates, fire, history, left >>

\* ... and stored in the gate.
ApplyMax(s) ==
  LET p == setter[s].proc
      n == AtLeastOne(setter[s].value)
  IN  /\ setter[s].pc = "apply"
      /\ limit' = [limit EXCEPT ![p] = n]
      /\ highest' = [highest EXCEPT ![p] = Larger(@, n)]
      /\ setter' = [setter EXCEPT ![s] = SetterIdle]
      /\ UNCHANGED << store, schedules, up, dispatching, running, fire, history, left >>

\* The process ends with everything it holds in memory.
Crash(p) ==
  /\ p \in up
  /\ up' = up \ {p}
  /\ fire' = [f \in Fires |-> IF fire[f].proc = p THEN Idle ELSE fire[f]]
  /\ setter' = [s \in Setters |-> IF setter[s].proc = p THEN SetterIdle ELSE setter[s]]
  /\ dispatching' = [dispatching EXCEPT ![p] = {}]
  /\ running' = [running EXCEPT ![p] = 0]
  /\ pausing' = {} /\ forgetting' = {}
  /\ Spend({"crash"})
  /\ UNCHANGED << store, defs, enabled, limit, highest, history >>

\* CampaignScheduler::try_start: load the sidecar, make the gate from it.
Restart(p) ==
  /\ p \notin up
  /\ up' = up \cup {p}
  /\ mem' = [mem EXCEPT ![p] = file]
  /\ limit' = [limit EXCEPT ![p] = AtLeastOne(file.max)]
  /\ highest' = [highest EXCEPT ![p] = AtLeastOne(file.max)]
  /\ UNCHANGED << file, schedules, dispatching, running, fire, setter, history, left >>

-------------------------------------------------------------------------------
Step(f) ==
  \/ Admit(f) \/ LoadRunning(f) \/ CompareLimit(f) \/ Cas(f) \/ StartRun(f)
  \/ FireCancelled(f)
  \/ \E w \in Writes : FireFails(f, w) \/ \E n \in 0..PerFire : FireSucceeds(f, n, w)

Next ==
  \/ \E f \in Fires :
       \/ \E p \in Procs, c \in Campaigns : Fire(f, p, c)
       \/ Step(f) \/ Refuse(f) \/ Abort(f)
  \/ \E c \in Campaigns :
       \/ PauseSelf(c) \/ Resume(c) \/ Remove(c)
       \/ \E p \in Procs, w \in Writes : Forget(c, p, w)
  \/ \E s \in Setters :
       \/ \E p \in Procs, n \in Limits, w \in Writes : SetMax(s, p, n, w)
       \/ ReadMax(s) \/ ApplyMax(s)
  \/ \E p \in Procs : Crash(p) \/ Restart(p)

Spec == Init /\ [][Next]_vars

-------------------------------------------------------------------------------
(* Properties                                                                *)

InFlight(f) == fire[f].pc \in {"load", "compare", "cas", "admitted", "running"}
HasSlot(f) == fire[f].pc \in {"admitted", "running"}
Slots(p) == {f \in Fires : HasSlot(f) /\ fire[f].proc = p}

\* The variables keep their types.
TypeOK ==
  /\ file \in Persisted /\ mem \in [Procs -> Persisted]
  /\ defs \subseteq Campaigns /\ enabled \subseteq Campaigns
  /\ pausing \subseteq Campaigns /\ forgetting \subseteq Campaigns
  /\ up \subseteq Procs
  /\ dispatching \in [Procs -> SUBSET Campaigns]
  /\ running \in [Procs -> Nat] /\ limit \in [Procs -> Nat \ {0}]
  /\ highest \in [Procs -> Nat]
  /\ fire \in [Fires -> Dispatches]
  /\ setter \in [Setters -> Settings]
  /\ done \in [Campaigns -> 0..MaxU32] /\ reported \in [Campaigns -> 0..MaxU32]
  /\ left \in [Faults -> Nat]

\* The gate counts exactly the permits that are out, whatever order its loads,
\* comparisons and exchanges take and whatever becomes of the fires.
GateCountsPermits ==
  \A p \in Procs : running[p] = Cardinality(Slots(p))

\* No more campaigns fuzz at once than some limit the gate has had: two fires
\* racing for the last slot cannot both win (campaign_state.rs:350).
GateNeverOverrun ==
  \A p \in Procs : running[p] <= highest[p]

\* One fire of a campaign is in flight at a time: overlapping fires skip rather
\* than reuse an uncharged allowance (portfolio-campaigns.md:46-47).
OneFirePerCampaign ==
  \A f, g \in Fires :
    InFlight(f) /\ InFlight(g) /\ fire[f].camp = fire[g].camp => f = g

\* The iterations of fires that reported success stay within max_runs, through
\* failed writes, restarts and cancelled or failing fires, for as long as the
\* campaign is defined.
BudgetHolds ==
  \A c \in defs : MaxRuns[c] # 0 => reported[c] <= MaxRuns[c]

\* Progress is neither lost nor invented: what the sidecar charges a campaign
\* lies between the iterations of the fires that reported success and those
\* that succeeded (a fire whose progress could not be persisted lies between).
ChargedIsHonest ==
  \A c \in defs : reported[c] <= file.states[c].runs /\ file.states[c].runs <= done[c]

\* The limit an operator was told is the limit in force: with no setter under
\* way the gate has the persisted value (portfolio-campaigns.md:83-84).
GateFollowsSetting ==
  \A p \in up : (\A s \in Setters : setter[s].proc # p) => limit[p] = mem[p].max

\* A fire of campaign c is at its promoted target t.
Visits(c, t) == \E f \in Fires : HasSlot(f) /\ fire[f].camp = c /\ Target(f) = t

\* The concurrency gate: it counts exactly the permits that are out, never lets
\* more campaigns fuzz than some limit it has had, and follows the persisted
\* setting.
GateHolds == GateCountsPermits /\ GateNeverOverrun /\ GateFollowsSetting

\* A campaign's allowance: one fire uses it at a time, what is charged against
\* it is what was done, and it is not exceeded.
AllowanceHolds == TypeOK /\ OneFirePerCampaign /\ BudgetHolds /\ ChargedIsHonest

-------------------------------------------------------------------------------
(* The inductive invariant                                                   *)

\* What a fire rests on: its process runs and counts it as its campaign's, and
\* the number it is about to exchange was below a limit the gate has had.
FireRests(f) ==
  LET x == fire[f]
  IN  /\ x.pc # "idle" => x.proc \in up /\ x.camp \in Campaigns
      /\ InFlight(f) => x.camp \in dispatching[x.proc]
      /\ x.pc = "cas" => x.cur < highest[x.proc]

\* The registry of a process lets one fire of a campaign through.
OneFireEach ==
  \A f, g \in Fires :
    InFlight(f) /\ InFlight(g) /\ fire[f].proc = fire[g].proc
      /\ fire[f].camp = fire[g].camp => f = g

FiresRest == (\A f \in Fires : FireRests(f)) /\ OneFireEach

LimitSeen == \A p \in Procs : limit[p] <= highest[p]

\* A caller who sets the limit does so in a process that runs.
SetterLives(s) == IF setter[s].pc = "idle" THEN setter[s].proc = None ELSE setter[s].proc \in up

\* Callers who all take the schedule mutation lock set the limit one at a time,
\* and what one of them has read back is still the setting.
SettersRest ==
  /\ \A s \in Setters : setter[s].pc = "apply" => setter[s].value = mem[setter[s].proc].max
  /\ \A s, t \in Setters : setter[s].pc # "idle" /\ setter[t].pc # "idle" => s = t

OneProcess == \A p, q \in Procs : p = q

\* A fire works with what its campaign is charged with, and there is some of the
\* budget left.
SnapRests(f) ==
  LET x == fire[f]
  IN  InFlight(f) /\ x.camp \in defs =>
        /\ x.snap.runs = mem[x.proc].states[x.camp].runs
        /\ MaxRuns[x.camp] # 0 => x.snap.runs < MaxRuns[x.camp]

\* Memory charges a campaign as honestly as the file does.
ChargeRests(c) ==
  \A p \in Procs :
    reported[c] <= mem[p].states[c].runs /\ mem[p].states[c].runs <= done[c]

AllowanceRests ==
  /\ \A f \in Fires : SnapRests(f)
  /\ \A c \in defs : ChargeRests(c)
  /\ BudgetHolds
  /\ ChargedIsHonest

IndInv ==
  /\ TypeOK
  /\ FiresRest
  /\ GateCountsPermits
  /\ GateNeverOverrun
  /\ LimitSeen
  /\ \A s \in Setters : SetterLives(s)
  /\ forgetting \cap defs = {}
  /\ Guarded = Setters => SettersRest /\ GateFollowsSetting
  /\ OneProcess => AllowanceRests
===============================================================================
