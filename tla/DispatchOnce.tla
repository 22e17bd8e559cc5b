---------------------------- MODULE DispatchOnce ----------------------------
(***************************************************************************)
(* What a one-time schedule promises, whatever its processes do: its       *)
(* occurrence is claimed once, the step to running grants at most one      *)
(* permit to enter the workflow dispatcher, a permit is used at most once  *)
(* and may be lost, only a workflow that was entered can be recorded as    *)
(* completed or failed, and a recorded outcome stays                       *)
(* (docs/design/2026-07-29-durable-one-time-schedule-occurrences-design.md *)
(* section 5, state graph, and section 8, protocol).                       *)
(***************************************************************************)
EXTENDS Naturals

VARIABLES
    phase,          \* durable state of the occurrence
    permit,         \* some process is about to enter the dispatcher
    dispatches      \* times the dispatcher was entered

vars == <<phase, permit, dispatches>>

Open == {"reserved", "running"}

Init ==
    /\ phase = "unclaimed"
    /\ permit = FALSE
    /\ dispatches = 0

Claim ==
    /\ phase = "unclaimed"
    /\ phase' = "reserved"
    /\ UNCHANGED <<permit, dispatches>>

\* The grant is lost when the claimant does not hear that it was made.
Begin ==
    /\ phase = "reserved"
    /\ phase' = "running"
    /\ permit' \in BOOLEAN
    /\ UNCHANGED dispatches

Enter ==
    /\ permit
    /\ permit' = FALSE
    /\ dispatches' = dispatches + 1
    /\ UNCHANGED phase

Withdraw ==
    /\ permit
    /\ permit' = FALSE
    /\ UNCHANGED <<phase, dispatches>>

\* An outcome is recorded only for a workflow that was entered.
Settle ==
    /\ phase = "running"
    /\ ~permit
    /\ dispatches = 1
    /\ phase' \in {"completed", "failed"}
    /\ UNCHANGED <<permit, dispatches>>

\* Cancelling does not reach into a process that already holds its permit.
Cancel ==
    /\ phase \in Open
    /\ phase' = "cancelled"
    /\ UNCHANGED <<permit, dispatches>>

Next == Claim \/ Begin \/ Enter \/ Withdraw \/ Settle \/ Cancel

Spec == Init /\ [][Next]_vars
=============================================================================
