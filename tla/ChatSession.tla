---------------------------- MODULE ChatSession ----------------------------
(***************************************************************************)
(* Chat sessions (hf-session manager.rs and checkpoint.rs, hf-service      *)
(* container/chat.rs, hf-storage session_store.rs, checkpoint_store.rs,    *)
(* transcript.rs and transcript_display.rs): turns, rollbacks, branches    *)
(* and deletions over two transcript files, the session rows and the       *)
(* checkpoints, which no transaction spans.  A call holds the session's    *)
(* turn lock and makes its writes one after the other; when one fails it   *)
(* undoes what it has done.                                                *)
(*                                                                         *)
(* A call's plan is the sequence of store calls it has still to make.      *)
(***************************************************************************)
EXTENDS Naturals, Sequences, FiniteSets

CONSTANTS
    Sessions,    \* session ids
    Callers,     \* concurrent calls
    Main,        \* the session that exists at the start
    MaxTurns,    \* turns that may be asked for
    ForkCounts,  \* message counts a branch may be forked at
    Faults,      \* kinds of failure
    Budgets,     \* how many of each may happen, a choice of
    None

ASSUME ChatAssumption ==
    /\ Main \in Sessions
    /\ MaxTurns \in Nat
    /\ ForkCounts \subseteq Nat \ {0}
    /\ Budgets \subseteq [Faults -> Nat]

VARIABLES
    row,      \* session_metadata
    display,  \* display transcripts
    context,  \* context transcripts
    cps,      \* chat_checkpoints
    call,     \* the call each caller makes
    gen,      \* which mutex the lock map holds for a session
    known,    \* session ids the callers have been told
    fresh,    \* session ids not used yet
    turns,    \* turns begun
    torn,     \* sessions a dead call or a failed compensation left behind
    early,    \* history: sessions made from a branch that was still being copied
    left      \* failures left

vars == <<row, display, context, cps, call, gen, known, fresh, turns, torn, early, left>>

store == <<row, display, context, cps>>

aux == <<gen, known, fresh, turns, torn, early, left>>

Parts == 1..2

Row(state, parent, count) == [state |-> state, parent |-> parent, count |-> count]

Message(turn, part) == [turn |-> turn, part |-> part]

\* shown and told are what the transcripts held before the turn.
Checkpoint(number, count, scope, live, shown, told) ==
    [number |-> number, count |-> count, scope |-> scope, live |-> live,
     shown |-> shown, told |-> told]

Do(name, s, arg) == [do |-> name, on |-> s, arg |-> arg, n |-> 0]

DoN(name, s, n) == [do |-> name, on |-> s, arg |-> None, n |-> n]

Snapshot(s) ==
    [display |-> display[s], context |-> context[s], row |-> row[s], cps |-> cps[s]]

\* target is the checkpoint of a rollback, the branch and its length of a fork.
Call(op, s, mutex, at, plan, snap, target, undo, result) ==
    [op |-> op, on |-> s, mutex |-> mutex, at |-> at, plan |-> plan, snap |-> snap,
     target |-> target, undo |-> undo, result |-> result]

Init ==
    /\ row = [s \in Sessions |-> IF s = Main THEN Row("active", None, 0) ELSE None]
    /\ display = [s \in Sessions |-> <<>>]
    /\ context = [s \in Sessions |-> <<>>]
    /\ cps = [s \in Sessions |-> {}]
    /\ call = [c \in Callers |-> None]
    /\ gen = [s \in Sessions |-> 0]
    /\ known = {Main}
    /\ fresh = Sessions \ {Main}
    /\ turns = 0
    /\ torn = {}
    /\ early = {}
    /\ left \in Budgets

Spend(f) ==
    /\ f \in Faults
    /\ left[f] > 0
    /\ left' = [left EXCEPT ![f] = @ - 1]

At(c, place) == call[c] # None /\ call[c].at = place

Active(s) == row[s] # None /\ row[s].state = "active"

-----------------------------------------------------------------------------
(* chat_session_guard: validate, take the session's mutex, validate again.  *)

Ask(c, op, s) ==
    /\ call[c] = None
    /\ s \in known
    /\ Active(s)
    /\ call' = [call EXCEPT ![c] =
          Call(op, s, None, "validated", <<>>, None, None, FALSE, None)]
    /\ UNCHANGED <<store, aux>>

\* session_turn_lock finds the mutex in the map or makes a new one.
Join(c) ==
    /\ At(c, "validated")
    /\ call' = [call EXCEPT ![c].mutex = gen[call[c].on], ![c].at = "wait"]
    /\ UNCHANGED <<store, aux>>

Holds(c) == call[c] # None /\ call[c].at \notin {"validated", "wait"}

Lock(c) ==
    /\ At(c, "wait")
    /\ \A d \in Callers : Holds(d) =>
          <<call[d].on, call[d].mutex>> # <<call[c].on, call[c].mutex>>
    /\ call' = [call EXCEPT ![c].at = "locked"]
    /\ UNCHANGED <<store, aux>>

Ends(c, result) == call' = [call EXCEPT ![c].at = "return", ![c].result = result]

\* The session went away, the model failed, the arguments are refused, or a
\* read failed: nothing has been written.
Refuse(c) ==
    /\ At(c, "locked")
    /\ Ends(c, "refused")
    /\ UNCHANGED <<store, aux>>

\* A fork holds the lock of its source, not of the branch it writes.
BeingCopied(s) ==
    \E d \in Callers : At(d, "write") /\ call[d].op = "fork" /\ call[d].target[1] = s

\* affected is what the call makes out of the session it works on.
Begins(c, plan, target, affected) ==
    /\ At(c, "locked")
    /\ Active(call[c].on)
    /\ early' = IF call[c].on \in early \/ BeingCopied(call[c].on)
                  THEN early \cup affected ELSE early
    /\ call' = [call EXCEPT ![c].at = "write", ![c].plan = plan, ![c].target = target,
                            ![c].snap = Snapshot(call[c].on)]

-----------------------------------------------------------------------------
(* The operations.                                                          *)

\* Mutant: rolled back turns do not count, so their numbers are used again.
NextTurnLive(s) ==
    LET numbers == {p.number : p \in {q \in cps[s] : q.live}} IN
    IF numbers = {} THEN 1 ELSE 1 + CHOOSE n \in numbers : \A k \in numbers : k <= n

\* current_turn counts invalidated checkpoints too.
NextTurn(s) ==
    LET numbers == {p.number : p \in cps[s]} IN
    IF numbers = {} THEN 1 ELSE 1 + CHOOSE n \in numbers : \A k \in numbers : k <= n

\* persist_chat_turn_unlocked: the user's message and the answer.
TurnPlan(s, turn) ==
    [i \in Parts |-> Do("append_display", s, Message(turn, i))]
    \o [i \in Parts |-> Do("append_context", s, Message(turn, i))]
    \o <<Do("count", s, None),
         Do("checkpoint", s, Checkpoint(NextTurn(s), Len(context[s]), turn, TRUE,
                                        display[s], context[s]))>>

Turn(c) ==
    LET s == call[c].on IN
    /\ At(c, "locked") /\ call[c].op = "turn"
    /\ turns < MaxTurns
    /\ turns' = turns + 1
    /\ Begins(c, TurnPlan(s, turns + 1), None, {s})
    /\ UNCHANGED <<store, gen, known, fresh, torn, left>>

\* Mutant: the display transcript is left as it is.
RollbackPlanContext(s, p) ==
    <<DoN("cut_context", s, p.count), DoN("set_count", s, p.count),
      DoN("invalidate", s, p.number)>>

\* rollback_to cuts both transcripts to the checkpoint's one count.
RollbackPlan(s, p) ==
    <<DoN("cut_display", s, p.count), DoN("cut_context", s, p.count),
      DoN("set_count", s, p.count), DoN("invalidate", s, p.number)>>

Rollback(c, p) ==
    LET s == call[c].on IN
    /\ At(c, "locked") /\ call[c].op = "rollback"
    /\ p \in cps[s] /\ p.live
    /\ p.count <= Len(context[s]) /\ p.count <= Len(display[s])
    /\ Begins(c, RollbackPlan(s, p), p, {s})
    /\ UNCHANGED <<store, gen, known, fresh, turns, torn, left>>

First(seq, n) == SubSeq(seq, 1, IF n < Len(seq) THEN n ELSE Len(seq))

\* Mutant: the branch stops one message early.
CopiedShort(seq, n) == First(seq, n - 1)

\* The messages up to the fork, of what has been read.
Copied(seq, n) == First(seq, n)

ForkPlan(s, b, n) ==
    LET shown == Copied(display[s], n)  told == Copied(context[s], n) IN
    <<Do("create", b, s)>>
    \o [i \in 1..Len(shown) |-> Do("append_display", b, shown[i])]
    \o [i \in 1..Len(told) |-> Do("append_context", b, told[i])]
    \o <<DoN("set_count", b, Len(told))>>

Fork(c, b, n) ==
    LET s == call[c].on IN
    /\ At(c, "locked") /\ call[c].op = "fork"
    /\ b \in fresh
    /\ n \in ForkCounts
    /\ display[s] # <<>> \/ context[s] # <<>>
    /\ fresh' = fresh \ {b}
    /\ torn' = IF s \in torn THEN torn \cup {b} ELSE torn
    /\ Begins(c, ForkPlan(s, b, n), <<b, n>>, {s, b})
    /\ UNCHANGED <<store, gen, known, turns, left>>

\* Mutant: the context transcript stays behind.
DeletePlanDisplay(s) ==
    <<DoN("cut_display", s, 0), Do("remove", s, None), Do("remove_checkpoints", s, None)>>

\* delete_session clears the transcripts and removes the row and its checkpoints.
DeletePlan(s) ==
    <<DoN("cut_display", s, 0), DoN("cut_context", s, 0), Do("remove", s, None),
      Do("remove_checkpoints", s, None)>>

Delete(c) ==
    LET s == call[c].on IN
    /\ At(c, "locked") /\ call[c].op = "delete"
    /\ Begins(c, DeletePlan(s), None, {s})
    /\ UNCHANGED <<store, gen, known, fresh, turns, torn, left>>

-----------------------------------------------------------------------------
(* One store call of the plan.                                              *)

Now(c) == Head(call[c].plan)

Due(c, name) == At(c, "write") /\ Now(c).do = name

\* The plan goes on with rest; an empty one ends the call.
Continue(c, rest) ==
    LET k == call[c] IN
    call' = [call EXCEPT ![c] =
        IF rest # <<>> THEN [k EXCEPT !.plan = rest]
        ELSE [k EXCEPT !.plan = <<>>, !.at = "return",
                       !.result = IF k.result # None THEN k.result
                                  ELSE IF k.undo THEN "rolled_back" ELSE "ok"]]

Done(c) == Continue(c, Tail(call[c].plan))

AppendDisplay(c) ==
    /\ Due(c, "append_display")
    /\ display' = [display EXCEPT ![Now(c).on] = Append(@, Now(c).arg)]
    /\ Done(c)
    /\ UNCHANGED <<row, context, cps, aux>>

AppendContext(c) ==
    /\ Due(c, "append_context")
    /\ context' = [context EXCEPT ![Now(c).on] = Append(@, Now(c).arg)]
    /\ Done(c)
    /\ UNCHANGED <<row, display, cps, aux>>

CutDisplay(c) ==
    /\ Due(c, "cut_display")
    /\ display' = [display EXCEPT ![Now(c).on] = First(@, Now(c).n)]
    /\ Done(c)
    /\ UNCHANGED <<row, context, cps, aux>>

CutContext(c) ==
    /\ Due(c, "cut_context")
    /\ context' = [context EXCEPT ![Now(c).on] = First(@, Now(c).n)]
    /\ Done(c)
    /\ UNCHANGED <<row, display, cps, aux>>

SetsCount(s, n) == row' = [row EXCEPT ![s].count = n]

\* update_metadata matches a row.
SetCount(c) ==
    /\ \/ Due(c, "count") /\ row[Now(c).on] # None
          /\ SetsCount(Now(c).on, Len(context[Now(c).on]))
       \/ Due(c, "set_count") /\ row[Now(c).on] # None
          /\ SetsCount(Now(c).on, Now(c).n)
    /\ Done(c)
    /\ UNCHANGED <<display, context, cps, aux>>

NumberTaken(s, number) == \E p \in cps[s] : p.number = number

\* create_checkpoint finds the session, and (session, turn) is unique.
SaveCheckpoint(c) ==
    /\ Due(c, "checkpoint")
    /\ row[Now(c).on] # None
    /\ ~NumberTaken(Now(c).on, Now(c).arg.number)
    /\ cps' = [cps EXCEPT ![Now(c).on] = @ \cup {Now(c).arg}]
    /\ Done(c)
    /\ UNCHANGED <<row, display, context, aux>>

\* invalidate_after, from the target's turn on.
Invalidate(c) ==
    /\ Due(c, "invalidate")
    /\ cps' = [cps EXCEPT ![Now(c).on] =
          {[p EXCEPT !.live = @ /\ p.number < Now(c).n] : p \in @}]
    /\ Done(c)
    /\ UNCHANGED <<row, display, context, aux>>

CreateRow(c) ==
    /\ Due(c, "create")
    /\ row[Now(c).arg] # None
    /\ row' = [row EXCEPT ![Now(c).on] = Row("active", Now(c).arg, 0)]
    /\ Done(c)
    /\ UNCHANGED <<display, context, cps, aux>>

HasBranches(s) == \E b \in Sessions : row[b] # None /\ row[b].parent = s

\* A row other sessions refer to cannot be removed: it becomes a tombstone.
RemoveRow(c) ==
    LET s == Now(c).on IN
    /\ Due(c, "remove")
    /\ row[s] # None
    /\ ~(call[c].undo /\ HasBranches(s))
    /\ IF HasBranches(s)
         THEN /\ Continue(c, <<DoN("set_count", s, 0), Do("tombstone", s, None)>>)
              /\ UNCHANGED row
         ELSE Done(c) /\ row' = [row EXCEPT ![s] = None]
    /\ UNCHANGED <<display, context, cps, aux>>

RemoveCheckpoints(c) ==
    /\ Due(c, "remove_checkpoints")
    /\ cps' = [cps EXCEPT ![Now(c).on] = {}]
    /\ Done(c)
    /\ UNCHANGED <<row, display, context, aux>>

SetTombstone(c) ==
    /\ Due(c, "tombstone")
    /\ row[Now(c).on] # None
    /\ row' = [row EXCEPT ![Now(c).on].state = "tombstone"]
    /\ Done(c)
    /\ UNCHANGED <<display, context, cps, aux>>

-----------------------------------------------------------------------------
(* A store call fails.                                                      *)

\* restore_full_transcript and restore_rollback_snapshot.
Rewritten(s, snap) ==
    <<DoN("cut_display", s, 0)>>
    \o [i \in 1..Len(snap.display) |-> Do("append_display", s, snap.display[i])]
    \o <<DoN("cut_context", s, 0)>>
    \o [i \in 1..Len(snap.context) |-> Do("append_context", s, snap.context[i])]
    \o <<DoN("set_count", s, snap.row.count)>>

\* Mutant: a failed turn only takes back what the model was told.
TruncatedContext(s, snap) ==
    <<DoN("cut_context", s, Len(snap.context)), DoN("set_count", s, snap.row.count)>>

\* restore_transcript_snapshot.
Truncated(s, snap) ==
    <<DoN("cut_display", s, Len(snap.display)), DoN("cut_context", s, Len(snap.context)),
      DoN("set_count", s, snap.row.count)>>

\* cleanup_incomplete_session.
Cleanup(b) ==
    <<DoN("cut_display", b, 0), DoN("cut_context", b, 0), Do("remove", b, None),
      Do("remove_checkpoints", b, None)>>

Compensation(c) ==
    LET k == call[c] IN
    CASE k.op = "turn" -> Truncated(k.on, k.snap)
      [] k.op = "fork" -> IF Now(c).do = "create" THEN <<>> ELSE Cleanup(k.target[1])
      [] k.op = "delete" /\ Now(c).do = "cut_display" -> <<>>
      [] OTHER -> Rewritten(k.on, k.snap)

\* The store calls that are left when one fails during compensation: after a
\* turn none; otherwise all but the rest of the same transcript or row.
Group(name) ==
    CASE name \in {"cut_display", "append_display"} -> "display"
      [] name \in {"cut_context", "append_context"} -> "context"
      [] OTHER -> "row"

Rest(c) ==
    IF call[c].op = "turn" THEN <<>>
    ELSE SelectSeq(Tail(call[c].plan),
                   LAMBDA d : Group(d.do) # Group(Now(c).do))

Touched(c) == {call[c].on} \cup IF call[c].op = "fork" THEN {call[c].target[1]} ELSE {}

\* The store refuses: no row, no parent, a branch with branches of its own, or
\* a turn number taken.
Refused(c) ==
    \/ Now(c).do \in {"count", "set_count", "remove", "tombstone"} /\ row[Now(c).on] = None
    \/ Now(c).do = "remove" /\ call[c].undo /\ HasBranches(Now(c).on)
    \/ Now(c).do = "create" /\ row[Now(c).arg] = None
    \/ Now(c).do = "checkpoint" /\
         (row[Now(c).on] = None \/ NumberTaken(Now(c).on, Now(c).arg.number))

\* An append that fails when it is flushed has written its line, a create whose
\* row cannot be read back has written the row.
FailedWrite(c) ==
    \/ UNCHANGED store
    \/ /\ Now(c).do = "append_display"
       /\ display' = [display EXCEPT ![Now(c).on] = Append(@, Now(c).arg)]
       /\ UNCHANGED <<row, context, cps>>
    \/ /\ Now(c).do = "append_context"
       /\ context' = [context EXCEPT ![Now(c).on] = Append(@, Now(c).arg)]
       /\ UNCHANGED <<row, display, cps>>
    \/ /\ Now(c).do = "create"
       /\ row' = [row EXCEPT ![Now(c).on] = Row("active", Now(c).arg, 0)]
       /\ UNCHANGED <<display, context, cps>>

Undo(c) ==
    IF call[c].undo
      THEN /\ torn' = torn \cup Touched(c)
           /\ call' = [call EXCEPT ![c] =
                 IF Rest(c) = <<>> THEN [@ EXCEPT !.plan = <<>>, !.at = "return", !.result = "failed"]
                 ELSE [@ EXCEPT !.plan = Rest(c), !.result = "failed"]]
      ELSE /\ UNCHANGED torn
           /\ call' = [call EXCEPT ![c] =
                 IF Compensation(c) = <<>>
                   THEN [@ EXCEPT !.plan = <<>>, !.at = "return", !.result = "refused"]
                   ELSE [@ EXCEPT !.plan = Compensation(c), !.undo = TRUE]]

\* Mutant: a store call that is refused is tried again.
StoreFailsRetry(c) ==
    /\ At(c, "write")
    /\ ~Refused(c) /\ Spend("write") /\ FailedWrite(c)
    /\ Undo(c)
    /\ UNCHANGED <<gen, known, fresh, turns, early>>

StoreFails(c) ==
    /\ At(c, "write")
    /\ \/ Refused(c) /\ UNCHANGED <<store, left>>
       \/ ~Refused(c) /\ Spend("write") /\ FailedWrite(c)
    /\ Undo(c)
    /\ UNCHANGED <<gen, known, fresh, turns, early>>

-----------------------------------------------------------------------------
Returned(c) ==
    IF call[c].op = "fork" /\ call[c].result = "ok" THEN {call[c].target[1]} ELSE {}

\* Mutant: the lock map entry is removed whatever became of the deletion.
ReturnEager(c) ==
    /\ At(c, "return")
    /\ gen' = [gen EXCEPT ![call[c].on] = IF call[c].op = "delete" THEN @ + 1 ELSE @]
    /\ known' = known \cup Returned(c)
    /\ call' = [call EXCEPT ![c] = None]
    /\ UNCHANGED <<store, fresh, turns, torn, early, left>>

\* A deletion removes the session's mutex from the map; the guard is dropped.
Return(c) ==
    /\ At(c, "return")
    /\ gen' = [gen EXCEPT ![call[c].on] =
          IF call[c].op = "delete" /\ call[c].result = "ok" THEN @ + 1 ELSE @]
    /\ known' = known \cup Returned(c)
    /\ call' = [call EXCEPT ![c] = None]
    /\ UNCHANGED <<store, fresh, turns, torn, early, left>>

\* The request is cancelled, or the process ends: the mutex is free again.
Die(c) ==
    /\ call[c] # None
    /\ Spend("die")
    /\ torn' = IF At(c, "write") THEN torn \cup Touched(c) ELSE torn
    /\ call' = [call EXCEPT ![c] = None]
    /\ UNCHANGED <<store, gen, known, fresh, turns, early>>

\* chat_branches takes the lock of the session it is asked about.
ListBranches(s) ==
    /\ s \in known
    /\ Active(s)
    /\ \A d \in Callers : ~(Holds(d) /\ call[d].on = s)
    /\ known' = known \cup {b \in Sessions : row[b] # None}
    /\ known' # known
    /\ UNCHANGED <<store, call, gen, fresh, turns, torn, early, left>>

Operations == {"turn", "rollback", "fork", "delete"}

Step(c) ==
    \/ Join(c) \/ Lock(c) \/ Refuse(c)
    \/ Turn(c) \/ Delete(c)
    \/ At(c, "locked") /\ \E p \in cps[call[c].on] : Rollback(c, p)
    \/ \E b \in Sessions, n \in ForkCounts : Fork(c, b, n)
    \/ AppendDisplay(c) \/ AppendContext(c) \/ CutDisplay(c) \/ CutContext(c)
    \/ SetCount(c) \/ SaveCheckpoint(c) \/ Invalidate(c)
    \/ CreateRow(c) \/ RemoveRow(c) \/ RemoveCheckpoints(c) \/ SetTombstone(c)
    \/ StoreFails(c) \/ Return(c)

Next ==
    \/ \E c \in Callers : Step(c) \/ Die(c)
    \/ \E c \in Callers, op \in Operations, s \in Sessions : Ask(c, op, s)
    \/ \E s \in Sessions : ListBranches(s)

Spec == Init /\ [][Next]_vars

-----------------------------------------------------------------------------
\* Rows, checkpoints and calls have their shapes; only a call that has ended
\* has a result, but for a compensation that already failed in part.
TypeOK ==
    /\ \A s \in Sessions : row[s] # None =>
          /\ row[s].state \in {"active", "tombstone"}
          /\ row[s].parent \in Sessions \cup {None}
          /\ row[s].count \in 0..(2 * MaxTurns)
    /\ \A s \in Sessions : \A p \in cps[s] :
          p.number \in 1..MaxTurns /\ p.scope \in 1..turns /\ p.live \in BOOLEAN
    /\ known \subseteq Sessions /\ fresh \subseteq Sessions
    /\ torn \subseteq Sessions /\ early \subseteq Sessions
    /\ \A c \in Callers : call[c] # None =>
          /\ call[c].op \in Operations
          /\ call[c].at \in {"validated", "wait", "locked", "write", "return"}
          /\ (call[c].plan # <<>>) <=> (call[c].at = "write")
          /\ call[c].at = "return" =>
                call[c].result \in {"ok", "refused", "rolled_back", "failed"}

\* At most one call at a time is past the lock of an active session, also
\* while a deletion replaces the mutex (chat_session_guard,
\* delete_chat_session).
OneHolder ==
    \A c, d \in Callers :
        At(c, "write") /\ At(d, "write") /\ call[c].on = call[d].on => c = d

Written(s) ==
    \E c \in Callers : At(c, "write") /\ s \in Touched(c)

AtRest(s) == ~Written(s) /\ s \notin torn \cup early

\* Between calls, whatever failed, both transcripts hold the same messages and
\* the row counts them (append_messages, rollback_to, fork_session), unless a
\* call worked on a branch while it was still being copied.
TranscriptsAgree ==
    \A s \in Sessions : AtRest(s) /\ Active(s) =>
        display[s] = context[s] /\ row[s].count = Len(context[s])

\* A call that answers "failed and was rolled back" left no trace
\* (compensated_error); one whose branch row could not be read back left that
\* row, empty (SessionStore::create).
RolledBackIsUnchanged ==
    \A c \in Callers : At(c, "return") /\ call[c].result \in {"rolled_back", "refused"}
                         /\ call[c].on \notin early =>
        /\ call[c].snap # None => Snapshot(call[c].on) = call[c].snap
        /\ call[c].op = "fork" /\ call[c].target # None /\ call[c].target[1] \notin early =>
              LET b == call[c].target[1] IN
              /\ call[c].undo => row[b] = None
              /\ row[b] = None => display[b] = <<>> /\ context[b] = <<>>

\* A rollback restores both transcripts as they were before the turn, for a
\* session no call died on (rollback_to).
RollbackRestores ==
    \A c \in Callers :
        At(c, "return") /\ call[c].op = "rollback" /\ call[c].result = "ok"
          /\ call[c].on \notin torn \cup early =>
        /\ display[call[c].on] = call[c].target.shown
        /\ context[call[c].on] = call[c].target.told

StartsWith(seq, prefix) == Len(seq) >= Len(prefix) /\ First(seq, Len(prefix)) = prefix

\* A branch that nobody has found before it is handed out is there and starts
\* with the messages of its source up to the fork (fork_session).
BranchIsPrefix ==
    \A c \in Callers : At(c, "return") /\ call[c].op = "fork" /\ call[c].result = "ok" =>
        LET b == call[c].target[1]  n == call[c].target[2] IN
        b \notin known =>
            /\ Active(b)
            /\ StartsWith(display[b], First(call[c].snap.display, n))
            /\ StartsWith(context[b], First(call[c].snap.context, n))

\* Nothing of a deleted session is left in its transcripts (delete_session).
DeletedIsEmpty ==
    \A s \in Sessions : AtRest(s) /\ ~Active(s) => display[s] = <<>> /\ context[s] = <<>>

\* A turn number is never used twice, rolled back or not, so the unique
\* constraint never undoes an answered turn (current_turn).
TurnNumbersFree ==
    \A c \in Callers : At(c, "write") /\ Now(c).do = "checkpoint" =>
        ~NumberTaken(Now(c).on, Now(c).arg.number)

\* Between calls the two transcripts, the row and the branches fit together,
\* whatever failed, and one call at a time works on a session.
TranscriptsStand ==
    TypeOK /\ OneHolder /\ TranscriptsAgree /\ BranchIsPrefix /\ DeletedIsEmpty

\* What is undone is undone: a call that failed and was rolled back left no
\* trace, a rollback restores the turn before, and no turn number is used twice.
UndoIsComplete == RolledBackIsUnchanged /\ RollbackRestores /\ TurnNumbersFree
=============================================================================
