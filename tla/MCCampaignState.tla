--------------------------- MODULE MCCampaignState ----------------------------
(***************************************************************************)
(* An instance of CampaignState for TLC: two campaigns, one with a budget  *)
(* of one run and one with a budget of time, two concurrent fires and two  *)
(* operators who change the limit.                                         *)
(***************************************************************************)
EXTENDS CampaignState, TLC

CONSTANTS p1, a, b, f1, f2, s1, s2

OneProc == {p1}
CampaignSet == {a, b}
FireSet == {f1, f2}
SetterSet == {s1, s2}
RunBudgets == a :> 1 @@ b :> 0
TimedSet == {b}
LimitSet == {0, 1, 2}

\* Fires and setters are interchangeable.
Symmetry == Permutations(FireSet) \cup Permutations(SetterSet)

Allow(crash, abort, cancel, refuse, write, set, remove, resume) ==
  "crash" :> crash @@ "abort" :> abort @@ "cancel" :> cancel @@ "refuse" :> refuse
    @@ "write" :> write @@ "set" :> set @@ "remove" :> remove @@ "resume" :> resume

\* Campaigns are lost, aborted, removed and resumed while the limit stays, or
\* the limit changes twice while a write fails, or a fire is cancelled or refused.
FaultsOrResizing == {Allow(1, 1, 0, 0, 1, 0, 1, 1), Allow(0, 0, 0, 0, 1, 2, 0, 0),
                     Allow(0, 0, 1, 1, 0, 0, 0, 0)}
===============================================================================
