------------------------ MODULE MCRecurringSchedule ------------------------
(***************************************************************************)
(* RecurringSchedule for TLC: failing writes and deaths under backfill,    *)
(* an operator under catch_up, and rival triggers under the other          *)
(* concurrency policies.                                                   *)
(***************************************************************************)
EXTENDS RecurringSchedule

Happen(ticks, kinds) ==
    [k \in Kinds |-> IF k = "tick" THEN ticks ELSE IF k \in kinds THEN 1 ELSE 0]

Failing ==
    [missed : {"backfill"}, conc : {"allow", "skip_if_running"},
     left : {Happen(2, {"write", "crash"})}]

Operated ==
    [missed : {"catch_up"}, conc : {"allow"},
     left : {Happen(1, {"write", "stop", "edit"}),
             Happen(1, {"write", "stop", "disarm"}),
             [Happen(0, {"write", "stop", "disarm"}) EXCEPT !["edit"] = 2]}]

Contended ==
    [missed : {"skip"}, conc : {"cancel_previous", "queue"},
     left : {Happen(2, {"write", "explicit"})}]

AllCases == Failing \cup Operated \cup Contended

=============================================================================
