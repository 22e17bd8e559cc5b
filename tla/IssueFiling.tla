---------------------------- MODULE IssueFiling ----------------------------
(***************************************************************************)
(* Filing a crash in a remote issue tracker that offers no idempotency key. *)
(* A row of `filed_issues` is claimed before the issue is created and       *)
(* completed with the issue afterwards; retries return what is recorded.  A  *)
(* claim that grew old is taken over only after a search of the tracker      *)
(* found nothing.  Attempts are fenced by their attempt id.                  *)
(*                                                                           *)
(* One dedup key is modelled: keys share no state.  The tracker is external: *)
(* a request to it may fail, land, or land after its caller has given up.    *)
(***************************************************************************)
EXTENDS Naturals, FiniteSets

CONSTANTS
    Procs,       \* processes sharing the database
    Attempts,    \* attempt ids; an id is a fresh UUID, so it also names the issue
    MaxCrashes,  \* bound: process deaths
    LateLands    \* whether a request may land after its caller has given up

FilingAssumption ==
    /\ IsFiniteSet(Procs) /\ IsFiniteSet(Attempts)
    /\ MaxCrashes \in Nat /\ LateLands \in BOOLEAN

Nothing == "none"

Waiting == {"lock"}

Running == {"claim", "search", "create", "sent", "reconcile", "reclaim", "record"}

Finished == {"returned", "failed"}

VARIABLES
    row,      \* the ledger's row: its state, the attempt it names, its issue
    stale,    \* whether created_at is older than the claim's time to live
    at,       \* where each attempt stands
    proc,     \* the process it runs in
    fence,    \* the attempt id it will complete with
    issue,    \* the issue it found, created or was told of
    tracker,  \* the issues that exist
    flying,   \* attempts whose create request may still land
    emptied,  \* attempts whose reconciling search found nothing
    overlap,  \* a create landed although another attempt had searched in vain
    crashes

attempt == <<at, proc, fence, issue>>
remote == <<tracker, flying, emptied, overlap>>
vars == <<row, stale, attempt, remote, crashes>>

TypeOK ==
    /\ row \in [state : {Nothing, "claimed", "done"},
                holder : Attempts \cup {Nothing}, issue : Attempts \cup {Nothing}]
    /\ stale \in BOOLEAN
    /\ at \in [Attempts -> {Nothing} \cup Waiting \cup Running \cup Finished]
    /\ proc \in [Attempts -> Procs \cup {Nothing}]
    /\ fence \in [Attempts -> Attempts \cup {Nothing}]
    /\ issue \in [Attempts -> Attempts \cup {Nothing}]
    /\ tracker \subseteq Attempts /\ flying \subseteq Attempts \ tracker
    /\ emptied \subseteq Attempts /\ overlap \in BOOLEAN
    /\ crashes \in 0..MaxCrashes

Init ==
    /\ row = [state |-> Nothing, holder |-> Nothing, issue |-> Nothing]
    /\ stale = FALSE
    /\ at = [a \in Attempts |-> Nothing]
    /\ proc = [a \in Attempts |-> Nothing]
    /\ fence = [a \in Attempts |-> Nothing]
    /\ issue = [a \in Attempts |-> Nothing]
    /\ tracker = {} /\ flying = {} /\ emptied = {}
    /\ overlap = FALSE
    /\ crashes = 0

Goto(a, step) == at' = [at EXCEPT ![a] = step]

Learn(a, i) == issue' = [issue EXCEPT ![a] = i]

-----------------------------------------------------------------------------
(* An attempt up to its claim.                                               *)

Start(a, p) ==
    /\ at[a] = Nothing
    /\ Goto(a, "lock") /\ proc' = [proc EXCEPT ![a] = p]
    /\ UNCHANGED <<row, stale, fence, issue, remote, crashes>>

\* file_issue_lock: one attempt of a process at a time.
Lock(a) ==
    /\ at[a] = "lock"
    /\ \A b \in Attempts : proc[b] = proc[a] => at[b] \notin Running
    /\ Goto(a, "claim") /\ fence' = [fence EXCEPT ![a] = a]
    /\ UNCHANGED <<row, stale, proc, issue, remote, crashes>>

\* claim_filed_issue: the insert wins the key, or the row says who has it.
Claim(a) ==
    /\ at[a] = "claim"
    /\ \/ /\ row.state = Nothing
          /\ row' = [state |-> "claimed", holder |-> a, issue |-> Nothing]
          /\ stale' = FALSE
          /\ Goto(a, "search") /\ UNCHANGED <<fence, issue>>
       \/ /\ row.state = "done"
          /\ Goto(a, "returned") /\ Learn(a, row.issue)
          /\ UNCHANGED <<row, stale, fence>>
       \/ /\ row.state = "claimed" /\ stale
          /\ Goto(a, "reconcile") /\ fence' = [fence EXCEPT ![a] = row.holder]
          /\ UNCHANGED <<row, stale, issue>>
       \/ /\ row.state = "claimed" /\ ~stale
          /\ Goto(a, "failed") /\ UNCHANGED <<row, stale, fence, issue>>
    /\ UNCHANGED <<proc, remote, crashes>>

\* On a fresh claim a failed search counts as a miss.
Search(a) ==
    /\ at[a] = "search"
    /\ \/ \E i \in tracker : Goto(a, "record") /\ Learn(a, i)
       \/ Goto(a, "create") /\ UNCHANGED issue
    /\ UNCHANGED <<row, stale, proc, fence, remote, crashes>>

-----------------------------------------------------------------------------
(* The remote create.                                                        *)

Send(a) ==
    /\ at[a] = "create"
    /\ Goto(a, "sent") /\ flying' = flying \cup {a}
    /\ UNCHANGED <<row, stale, proc, fence, issue, tracker, emptied, overlap, crashes>>

\* The tracker takes the request in.
Land(a) ==
    /\ a \in flying
    /\ flying' = flying \ {a} /\ tracker' = tracker \cup {a}
    /\ overlap' = (overlap \/ emptied \ {a} /= {})
    /\ UNCHANGED <<row, stale, attempt, emptied, crashes>>

Created(a) ==
    /\ at[a] = "sent" /\ a \in tracker
    /\ Goto(a, "record") /\ Learn(a, a)
    /\ UNCHANGED <<row, stale, proc, fence, remote, crashes>>

\* A create that reports an error may have reached the tracker, so the claim
\* stays.
CreateFails(a) ==
    /\ at[a] = "sent"
    /\ Goto(a, "failed")
    /\ flying' = IF LateLands THEN flying ELSE flying \ {a}
    /\ UNCHANGED <<row, stale, proc, fence, issue, tracker, emptied, overlap, crashes>>

-----------------------------------------------------------------------------
(* Taking over an old claim.                                                 *)

\* The claim's time to live passes.
Expire ==
    /\ row.state = "claimed" /\ ~stale
    /\ stale' = TRUE
    /\ UNCHANGED <<row, attempt, remote, crashes>>

\* Mutant: a search that fails counts as a search that found nothing.
ReconcileOrMiss(a) ==
    /\ at[a] = "reconcile"
    /\ \/ /\ \E i \in tracker : Goto(a, "record") /\ Learn(a, i)
          /\ UNCHANGED emptied
       \/ /\ Goto(a, "reclaim") /\ UNCHANGED issue
          /\ emptied' = IF tracker = {} THEN emptied \cup {a} ELSE emptied
    /\ UNCHANGED <<row, stale, proc, fence, tracker, flying, overlap, crashes>>

\* The reconciling search must succeed; what it finds is recorded for the
\* attempt that holds the claim.
Reconcile(a) ==
    /\ at[a] = "reconcile"
    /\ \/ /\ \E i \in tracker : Goto(a, "record") /\ Learn(a, i)
          /\ UNCHANGED emptied
       \/ /\ tracker = {} /\ Goto(a, "reclaim") /\ UNCHANGED issue
          /\ emptied' = emptied \cup {a}
       \/ Goto(a, "failed") /\ UNCHANGED <<issue, emptied>>
    /\ UNCHANGED <<row, stale, proc, fence, tracker, flying, overlap, crashes>>

\* reclaim_filed_issue: one winner, and only while the claim is still old.
Reclaim(a) ==
    /\ at[a] = "reclaim"
    /\ \/ /\ row.state = "claimed" /\ stale
          /\ row' = [row EXCEPT !.holder = a] /\ stale' = FALSE
          /\ fence' = [fence EXCEPT ![a] = a]
          /\ Goto(a, "create") /\ UNCHANGED issue
       \/ /\ row.state = "done"
          /\ Goto(a, "returned") /\ Learn(a, row.issue)
          /\ UNCHANGED <<row, stale, fence>>
       \/ /\ row.state = "claimed" /\ ~stale
          /\ Goto(a, "failed") /\ UNCHANGED <<row, stale, fence, issue>>
    /\ UNCHANGED <<proc, remote, crashes>>

-----------------------------------------------------------------------------
(* Completion.                                                               *)

\* Mutant: an attempt that lost its claim reports the issue it made.
CompleteOwn(a) ==
    /\ at[a] = "record"
    /\ \/ /\ row.state = "claimed" /\ row.holder = fence[a]
          /\ row' = [row EXCEPT !.state = "done", !.issue = issue[a]]
          /\ Goto(a, "returned")
       \/ /\ row.state = "done" /\ row.holder /= fence[a]
          /\ Goto(a, "returned") /\ UNCHANGED row
       \/ /\ row.state = "claimed" => row.holder /= fence[a]
          /\ row.state = "done" => row.holder = fence[a]
          /\ Goto(a, "failed") /\ UNCHANGED row
    /\ UNCHANGED <<stale, proc, fence, issue, remote, crashes>>

\* Mutant: the record names no claim, so a later one replaces an earlier.
CompleteUnfenced(a) ==
    /\ at[a] = "record"
    /\ row' = [row EXCEPT !.state = "done", !.issue = issue[a]]
    /\ Goto(a, "returned")
    /\ UNCHANGED <<stale, proc, fence, issue, remote, crashes>>

\* complete_filed_issue: the holder's id records, another's is told what was
\* recorded, and everything else is an error.
Complete(a) ==
    /\ at[a] = "record"
    /\ \/ /\ row.state = "claimed" /\ row.holder = fence[a]
          /\ row' = [row EXCEPT !.state = "done", !.issue = issue[a]]
          /\ Goto(a, "returned") /\ UNCHANGED issue
       \/ /\ row.state = "done" /\ row.holder /= fence[a]
          /\ Goto(a, "returned") /\ Learn(a, row.issue) /\ UNCHANGED row
       \/ /\ row.state = "claimed" => row.holder /= fence[a]
          /\ row.state = "done" => row.holder = fence[a]
          /\ Goto(a, "failed") /\ UNCHANGED <<row, issue>>
    /\ UNCHANGED <<stale, proc, fence, remote, crashes>>

\* A database error ends the attempt wherever it uses the ledger.
StoreFails(a) ==
    /\ at[a] \in {"claim", "reclaim", "record"}
    /\ Goto(a, "failed")
    /\ UNCHANGED <<row, stale, proc, fence, issue, remote, crashes>>

-----------------------------------------------------------------------------
(* Death, and the end of an attempt.                                         *)

Crash(p) ==
    /\ crashes < MaxCrashes /\ crashes' = crashes + 1
    /\ \E a \in Attempts : proc[a] = p /\ at[a] \in Running
    /\ at' = [a \in Attempts |->
                 IF proc[a] = p /\ at[a] \in Waiting \cup Running THEN "failed" ELSE at[a]]
    /\ flying' = IF LateLands THEN flying ELSE {a \in flying : proc[a] /= p}
    /\ UNCHANGED <<row, stale, proc, fence, issue, tracker, emptied, overlap>>

\* An id no row, request, issue or attempt remembers can stand for a new one.
Forget(a) ==
    /\ at[a] = "failed"
    /\ a /= row.holder /\ a \notin tracker \cup flying
    /\ \A b \in Attempts \ {a} : fence[b] /= a
    /\ at' = [at EXCEPT ![a] = Nothing] /\ proc' = [proc EXCEPT ![a] = Nothing]
    /\ fence' = [fence EXCEPT ![a] = Nothing] /\ Learn(a, Nothing)
    /\ emptied' = emptied \ {a}
    /\ UNCHANGED <<row, stale, tracker, flying, overlap, crashes>>

-----------------------------------------------------------------------------

Step(a) ==
    \/ Lock(a) \/ Claim(a) \/ Search(a) \/ Send(a) \/ Created(a) \/ CreateFails(a)
    \/ Reconcile(a) \/ Reclaim(a) \/ Complete(a) \/ StoreFails(a)

Next ==
    \/ \E a \in Attempts : Step(a) \/ Land(a) \/ Forget(a)
    \/ \E a \in Attempts, p \in Procs : Start(a, p)
    \/ \E p \in Procs : Crash(p)
    \/ Expire

Spec == Init /\ [][Next]_vars

-----------------------------------------------------------------------------
(* What filing promises.                                                     *)

\* A crash has two issues only in the overlap the comment on
\* file_issue_exactly_once allows: a create landed after another attempt's
\* reconciling search had found nothing.
DuplicateOnlyInOverlap == (\E i, j \in tracker : i # j) => overlap

\* Everyone who was told of an issue was told of the same one, it exists, and
\* it is the one the ledger keeps (record_filed_issue).
Agreement ==
    \A a \in Attempts : at[a] = "returned" =>
        /\ row.state = "done" /\ issue[a] = row.issue /\ row.issue \in tracker

\* What holds in every state.
FilingAgrees == TypeOK /\ DuplicateOnlyInOverlap /\ Agreement

\* Why there is one issue: the insert of the claim lets one attempt create, and
\* every other has searched in vain first.  While nothing overlapped, whatever
\* exists landed before or after all the searches in vain, never among them.
Unsent ==
    \A a \in Attempts :
        at[a] \notin {"sent", "record"} \cup Finished => a \notin tracker \cup flying

Maker(a) ==
    a \notin emptied /\ (at[a] \in {"search", "create", "sent"} \/ a \in flying \cup tracker)

OneMaker == \A a, b \in Attempts : Maker(a) /\ Maker(b) => a = b

Searched ==
    /\ \A a \in Attempts : at[a] = "reclaim" => a \in emptied
    /\ ~overlap => \A i \in tracker, e \in emptied : e = i
    /\ ~overlap => \A i, j \in tracker : i = j

\* Why they agree: an issue exists before it is recorded, and a row is recorded
\* only once.
Unclaimed ==
    row.state = Nothing =>
        /\ tracker = {} /\ flying = {} /\ emptied = {}
        /\ \A a \in Attempts : at[a] \in {Nothing, "lock", "claim", "failed"}

Recorded ==
    /\ \A a \in Attempts : at[a] = "record" => issue[a] \in tracker
    /\ row.state = "done" => row.issue \in tracker

IndInv == TypeOK /\ Unsent /\ OneMaker /\ Searched /\ Unclaimed /\ Recorded /\ Agreement

\* A recorded issue is never replaced, however late the other attempts finish
\* (complete_filed_issue, reclaim_filed_issue).
DoneStays == row.state = "done" => row' = row
=============================================================================
