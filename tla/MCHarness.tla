----------------------------- MODULE MCHarness -----------------------------
(***************************************************************************)
(* The harness workspace and the work orders qualified in it, for TLC.     *)
(*                                                                         *)
(* A behaviour picks one scene: "order", where qualification attempts work *)
(* in the workspace and one call is lost or one write fails (WorkOrders);  *)
(* "revision", where callers use the workspace directly, with every result *)
(* of a smoke and failing writes (HarnessRevision); "revert", with enough  *)
(* runs for a campaign to be taken back, and no failure.                   *)
(***************************************************************************)
EXTENDS WorkOrders, TLC

CONSTANTS c1, c2, s1, s2, t1

VARIABLES scene

OneDrop == [f \in Faults |-> IF f = "drop" THEN 1 ELSE 0]
OneWrite == [f \in Faults |-> IF f = "write" THEN 1 ELSE 0]
NoFaults == [f \in Faults |-> 0]
WriteFaults == {"write", "companion"}
OneOfEach == [f \in WriteFaults |-> 1]
EveryResult == {"clean", "crashes", "unviable"}
CleanOnly == {"clean"}

W == INSTANCE HarnessRevision WITH Budget <- OneWrite

V == INSTANCE HarnessRevision WITH
        Results <- EveryResult, Faults <- WriteFaults, Budget <- OneOfEach

B == INSTANCE HarnessRevision WITH
        MaxRun <- 4, Results <- CleanOnly, Budget <- NoFaults

\* Callers and sources are alike.
Symmetry == Permutations({c1, c2}) \cup Permutations({s1, s2})

-----------------------------------------------------------------------------
HarnessInit ==
    /\ scene \in {"order", "revision", "revert"}
    /\ CASE scene = "order" -> Init \/ W!Init
         [] scene = "revision" -> V!Init
         [] scene = "revert" -> B!Init
    /\ OrdersInit

HarnessNext ==
    \/ scene = "order" /\ WorkOrdersNext /\ UNCHANGED scene
    \/ scene = "revision" /\ V!Next /\ UNCHANGED <<scene, orders>>
    \/ scene = "revert" /\ B!Next /\ UNCHANGED <<scene, orders>>

HarnessSpec == HarnessInit /\ [][HarnessNext]_<<scene, allVars>>

-----------------------------------------------------------------------------
\* Every record of the workspace rests on those it names, with every smoke result
\* and with failing writes; without torn writes every run's binary was built from
\* the source its record names (HarnessRevision).  What is approved through a work
\* order is what one of its attempts showed clean, and each call has established
\* what its next step relies on (WorkOrders).
RecordsAreTrue ==
    /\ scene = "order" => OrdersInv
    /\ scene = "revision" => V!IndInv
    /\ scene = "revert" => B!BinaryHoldsSource

\* An automatic revert replaces only the revision its campaign ran
\* (HarnessRevision), and an attempt that ended keeps its outcome (WorkOrders).
EvidenceStays ==
    [][/\ scene = "revert" => B!NewerKept
       /\ scene = "order" => EndedStays]_<<scene, allVars>>
=============================================================================
