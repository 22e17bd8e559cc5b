--------------------------- MODULE MCChatSession ---------------------------
(***************************************************************************)
(* Instances of ChatSession for TLC, one to a scene.  Two callers are at   *)
(* work: in the scene "one branch" on a session and one branch of it with  *)
(* two turns, two failing statements or a death; in the scene "branches"   *)
(* on a session and two branches with one turn and no fault.  It takes two  *)
(* branches for one to be found while it is still being copied.            *)
(***************************************************************************)
EXTENDS ChatSession, TLC

CONSTANTS main, b1, b2, c1, c2

VARIABLES scene

TwoWrites == [f \in Faults |-> IF f = "write" THEN 2 ELSE 0]
OneDeath == [f \in Faults |-> IF f = "die" THEN 1 ELSE 0]

\* Two statements fail, or the process dies.
WritesOrDeath == {TwoWrites, OneDeath}

NoFault == {[f \in Faults |-> 0]}
ThreeSessions == {main, b1, b2}
AllMessages == {4}

B == INSTANCE ChatSession WITH
        Sessions <- ThreeSessions, MaxTurns <- 1, ForkCounts <- AllMessages,
        Budgets <- NoFault

\* The callers are alike.
Symmetry == Permutations({c1, c2})

-----------------------------------------------------------------------------
ChatInit ==
    /\ scene \in {"one branch", "branches"}
    /\ IF scene = "branches" THEN B!Init ELSE Init

ChatNext ==
    /\ IF scene = "branches" THEN B!Next ELSE Next
    /\ UNCHANGED scene

ChatSpec == ChatInit /\ [][ChatNext]_<<scene, vars>>

-----------------------------------------------------------------------------
\* One call at a time works on a session; between calls both transcripts hold
\* the same messages, the row counts them, a branch starts as its source and
\* nothing is left of a deleted session, whatever failed.  Excepted are sessions
\* that a death or a failed compensation has torn, and those that come from a
\* branch somebody found and used while fork_session was still copying it.
TranscriptsHold ==
    IF scene = "branches" THEN B!TranscriptsStand ELSE TranscriptsStand

\* What is undone is undone: a call that failed and was rolled back left no
\* trace, a rollback restores the turn before, and no turn number is used twice.
UndoRestores ==
    IF scene = "branches" THEN B!UndoIsComplete ELSE UndoIsComplete
=============================================================================
