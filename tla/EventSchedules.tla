--------------------------- MODULE EventSchedules ---------------------------
(***************************************************************************)
(* Schedules fired by events (hf-scheduler event_bridge.rs, manager.rs     *)
(* emit_event and handle_fired_trigger, dispatch_context.rs; hf-service    *)
(* emit_scheduler_event and with_dispatching_schedule).                    *)
(*                                                                         *)
(* The service emits events; the bridge matches each one against the       *)
(* schedules and sends triggers into a bounded channel, holding its own    *)
(* lock meanwhile.  The executor takes triggers from the channel and runs  *)
(* executions, and those emit events in turn: the producers of the channel *)
(* are fed by its consumer, which may also be cancelling one of them.      *)
(***************************************************************************)
EXTENDS Integers, Sequences, FiniteSets

CONSTANTS
    Schedules,
    Listens,     \* the kinds of event each schedule is fired by
    Debounces,   \* debounce_secs of each schedule
    Kinds,       \* kinds of event: a type and whatever a filter looks at
    Outside,     \* operations that no schedule started
    Slots,       \* executions at once
    QueueCap,    \* capacity of the trigger channel
    MaxDepth,    \* max_event_cascade_depth
    Policy,      \* the concurrency policy of every schedule
    PerTask,     \* events an execution may emit
    MaxTime,     \* where the clock stops
    Events,      \* events emitted from outside
    Stops        \* times the scheduler is stopped

EventAssumption ==
    /\ Listens \in [Schedules -> SUBSET Kinds]
    /\ Debounces \in [Schedules -> Nat]
    /\ QueueCap \in Nat \ {0}
    /\ MaxDepth \in Nat /\ PerTask \in Nat /\ MaxTime \in Nat
    /\ Events \in Nat /\ Stops \in Nat
    /\ Policy \in {"allow", "skip_if_running", "cancel_previous"}
    /\ "none" \notin Schedules
    /\ Outside \cap Slots = {}

VARIABLES
    now,
    up,        \* the scheduler runs; each run has a channel of its own
    chan,      \* which channel
    queue,     \* triggers in it
    last,      \* last_event of the bridge
    emit,      \* calls of emit_event
    task,      \* executions
    exec,      \* the executor loop
    sent,      \* when a trigger was last put into a channel, per schedule
    events,    \* events left to emit from outside
    stops      \* stops left

vars == <<now, up, chan, queue, last, emit, task, exec, sent, events, stops>>

Never == -100

NoSchedule == "none"

Emitters == Outside \cup Slots

\* An event, and a trigger: whom it fires, the depth it carries, and how many
\* executions really lie behind it.
Event(kind, src, depth, chain, at) ==
    [kind |-> kind, src |-> src, depth |-> depth, chain |-> chain, at |-> at]

Quiet == [pc |-> "idle", chan |-> 0, ev |-> Event("none", NoSchedule, 0, 0, 0), for |-> {}]

NoTask == [st |-> "none", s |-> NoSchedule, depth |-> 0, chain |-> 0, left |-> 0]

NoTrigger == [s |-> NoSchedule, depth |-> 0, chain |-> 0]

Init ==
    /\ now = 0
    /\ up = TRUE
    /\ chan = 1
    /\ queue = <<>>
    /\ last = [s \in Schedules |-> Never]
    /\ emit = [e \in Emitters |-> Quiet]
    /\ task = [i \in Slots |-> NoTask]
    /\ exec = [pc |-> "idle", fired |-> NoTrigger, taken |-> {}]
    /\ sent = [s \in Schedules |-> Never]
    /\ events = Events
    /\ stops = Stops

----------------------------------------------------------------------------
(* Emitting. *)

\* What an event of execution i says about its origin; the health monitor's
\* task carries the same.
Origin(i) == [src |-> task[i].s, depth |-> task[i].depth]

\* Executions behind an event, counted as far as the limit needs.
Longer(chain) == IF chain > MaxDepth THEN chain ELSE chain + 1

\* emit_scheduler_event stamps the event before it waits for the bridge; a
\* scheduler that does not run drops it.
EmitOutside(o) ==
    /\ emit[o] = Quiet
    /\ events > 0
    /\ events' = events - 1
    /\ \E kind \in Kinds :
          emit' = IF up THEN [emit EXCEPT ![o] = [pc |-> "lock", chan |-> chan, for |-> {},
                                                  ev |-> Event(kind, NoSchedule, 0, 0, now)]]
                  ELSE emit
    /\ UNCHANGED <<now, up, chan, queue, last, task, exec, sent, stops>>

EmitTask(i) ==
    /\ task[i].st = "running"
    /\ task[i].left > 0
    /\ emit[i] = Quiet
    /\ \E kind \in Kinds :
          emit' = IF up THEN [emit EXCEPT ![i] = [pc |-> "lock", chan |-> chan, for |-> {},
                                                  ev |-> Event(kind, Origin(i).src, Origin(i).depth,
                                                               Longer(task[i].chain), now)]]
                  ELSE emit
    /\ task' = [task EXCEPT ![i].left = @ - 1]
    /\ UNCHANGED <<now, up, chan, queue, last, exec, sent, events, stops>>

\* Mutant: the bridge is shared by the calls that are only sending.
BridgeShared == TRUE

BridgeFree == \A e \in Emitters : emit[e].pc # "send"

\* Mutant: a schedule may be fired by its own execution.
MatchesSelf(s, ev) ==
    /\ ev.kind \in Listens[s]
    /\ Debounces[s] > 0 => ev.at - last[s] >= Debounces[s]

\* prepare_triggers for one schedule.
Matches(s, ev) ==
    /\ ev.kind \in Listens[s]
    /\ ev.src # s
    /\ Debounces[s] > 0 => ev.at - last[s] >= Debounces[s]

Prepare(e) ==
    /\ emit[e].pc = "lock"
    /\ BridgeFree
    /\ LET prepared == {s \in Schedules : Matches(s, emit[e].ev)}
       IN  emit' = [emit EXCEPT ![e] = IF prepared = {} THEN Quiet
                                       ELSE [@ EXCEPT !.pc = "send", !.for = prepared]]
    /\ UNCHANGED <<now, up, chan, queue, last, task, exec, sent, events, stops>>

\* Mutant: an event does not count the execution that emitted it.
DepthKept(ev) == ev.depth

DepthOf(ev) == IF ev.src # NoSchedule THEN ev.depth + 1 ELSE ev.depth

Open(e) == up /\ emit[e].chan = chan

Sent(e, s) ==
    emit' = [emit EXCEPT ![e] = IF emit[e].for = {s} THEN Quiet
                                ELSE [emit[e] EXCEPT !.for = emit[e].for \ {s}]]

\* Only a trigger that got into the channel takes the debounce window.
Send(e) ==
    /\ emit[e].pc = "send"
    /\ Open(e)
    /\ Len(queue) < QueueCap
    /\ \E s \in emit[e].for :
          /\ queue' = Append(queue, [s |-> s, depth |-> DepthOf(emit[e].ev), chain |-> emit[e].ev.chain])
          /\ last' = [last EXCEPT ![s] = emit[e].ev.at]
          /\ sent' = [sent EXCEPT ![s] = emit[e].ev.at]
          /\ Sent(e, s)
    /\ UNCHANGED <<now, up, chan, task, exec, events, stops>>

\* Mutant: a failed send takes the window too.
SendFailsCounted(e) ==
    /\ emit[e].pc = "send"
    /\ ~Open(e)
    /\ \E s \in emit[e].for : Sent(e, s) /\ last' = [last EXCEPT ![s] = emit[e].ev.at]
    /\ UNCHANGED <<now, up, chan, queue, task, exec, sent, events, stops>>

SendFails(e) ==
    /\ emit[e].pc = "send"
    /\ ~Open(e)
    /\ \E s \in emit[e].for : Sent(e, s)
    /\ UNCHANGED <<now, up, chan, queue, last, task, exec, sent, events, stops>>

----------------------------------------------------------------------------
(* The executor loop and the executions. *)

Receive ==
    /\ up
    /\ exec.pc = "idle"
    /\ queue # <<>>
    /\ exec' = [exec EXCEPT !.pc = "admit", !.fired = Head(queue)]
    /\ queue' = Tail(queue)
    /\ UNCHANGED <<now, up, chan, last, emit, task, sent, events, stops>>

Of(s) == {i \in Slots : task[i].st # "none" /\ task[i].s = s}

Rest == [pc |-> "idle", fired |-> NoTrigger, taken |-> {}]

TooDeep(fired) == fired.depth > MaxDepth

\* A trigger too deep, or met by a running execution, is skipped; previous
\* executions may be aborted first.
Admit ==
    /\ exec.pc = "admit"
    /\ LET busy == Of(exec.fired.s)
       IN  IF TooDeep(exec.fired) \/ (Policy = "skip_if_running" /\ busy # {})
           THEN exec' = Rest /\ UNCHANGED task
           ELSE IF Policy = "cancel_previous" /\ busy # {}
           THEN /\ exec' = [exec EXCEPT !.pc = "join", !.taken = busy]
                /\ task' = [i \in Slots |-> IF i \in busy THEN [task[i] EXCEPT !.st = "aborting"] ELSE task[i]]
           ELSE exec' = [exec EXCEPT !.pc = "spawn"] /\ UNCHANGED task
    /\ UNCHANGED <<now, up, chan, queue, last, emit, sent, events, stops>>

Join ==
    /\ exec.pc = "join"
    /\ \A i \in exec.taken : task[i].st # "aborting"
    /\ exec' = [exec EXCEPT !.pc = "spawn", !.taken = {}]
    /\ UNCHANGED <<now, up, chan, queue, last, emit, task, sent, events, stops>>

\* A free slot is the model's bound.
Spawn ==
    /\ exec.pc = "spawn"
    /\ \E i \in Slots :
          /\ task[i] = NoTask
          /\ task' = [task EXCEPT ![i] = [st |-> "running", s |-> exec.fired.s, depth |-> exec.fired.depth,
                                          chain |-> exec.fired.chain, left |-> PerTask]]
    /\ exec' = Rest
    /\ UNCHANGED <<now, up, chan, queue, last, emit, sent, events, stops>>

End(i) ==
    /\ task[i].st = "running"
    /\ emit[i] = Quiet
    /\ task' = [task EXCEPT ![i] = NoTask]
    /\ UNCHANGED <<now, up, chan, queue, last, emit, exec, sent, events, stops>>

\* Mutant: an aborted execution finishes its call of emit_event first.
AbortAfterCall(i) ==
    /\ task[i].st = "aborting"
    /\ emit[i] = Quiet
    /\ task' = [task EXCEPT ![i] = NoTask]
    /\ UNCHANGED <<now, up, chan, queue, last, emit, exec, sent, events, stops>>

\* An aborted execution ends where it waits; its call gives the bridge back.
Abort(i) ==
    /\ task[i].st = "aborting"
    /\ task' = [task EXCEPT ![i] = NoTask]
    /\ emit' = [emit EXCEPT ![i] = Quiet]
    /\ UNCHANGED <<now, up, chan, queue, last, exec, sent, events, stops>>

----------------------------------------------------------------------------
(* The scheduler's life. *)

Stop ==
    /\ up
    /\ stops > 0
    /\ stops' = stops - 1
    /\ up' = FALSE
    /\ queue' = <<>>
    /\ exec' = Rest
    /\ task' = [i \in Slots |-> NoTask]
    /\ emit' = [e \in Emitters |-> IF e \in Slots THEN Quiet ELSE emit[e]]
    /\ UNCHANGED <<now, chan, last, sent, events>>

Start ==
    /\ ~up
    /\ up' = TRUE
    /\ chan' = chan + 1
    /\ UNCHANGED <<now, queue, last, emit, task, exec, sent, events, stops>>

Clock ==
    /\ now < MaxTime
    /\ now' = now + 1
    /\ UNCHANGED <<up, chan, queue, last, emit, task, exec, sent, events, stops>>

Emitting(e) == Prepare(e) \/ Send(e) \/ SendFails(e)

Executor == Receive \/ Admit \/ Join \/ Spawn

Next ==
    \/ \E o \in Outside : EmitOutside(o)
    \/ \E i \in Slots : EmitTask(i) \/ End(i) \/ Abort(i)
    \/ \E e \in Emitters : Emitting(e)
    \/ Executor
    \/ Stop \/ Start \/ Clock

Spec == Init /\ [][Next]_vars

----------------------------------------------------------------------------
(* Properties. *)

\* Triggers, calls and executions have their types; the channel keeps to its
\* capacity.
TypeOK ==
    /\ now \in 0..MaxTime
    /\ Len(queue) <= QueueCap
    /\ \A e \in Emitters : emit[e].pc \in {"idle", "lock", "send"} /\ emit[e].for \subseteq Schedules
    /\ \A i \in Slots :
          /\ task[i].st \in {"none", "running", "aborting"}
          /\ task[i].left \in 0..PerTask
    /\ \A k \in 1..Len(queue) : queue[k].s \in Schedules /\ queue[k].depth \in 0..(MaxDepth + 1)
    /\ exec.pc \in {"idle", "admit", "join", "spawn"}

\* However executions of several schedules fire one another, none runs with
\* more than the allowed number of executions behind it.
CascadeBounded == \A i \in Slots : task[i].st # "none" => task[i].chain <= MaxDepth

\* No trigger of a schedule comes from an execution of the same schedule.
NoSelfFire ==
    \A i \in Slots : emit[i].pc = "send" => task[i].s \notin emit[i].for

\* Two triggers of a debounced schedule are a full window apart, although events
\* are stamped before they queue for the bridge and may reach it out of order.
WindowsApart ==
    \A s \in Schedules :
        Debounces[s] > 0 /\ sent'[s] # sent[s] => sent'[s] - sent[s] >= Debounces[s]

\* A window is taken only by a trigger that got into a channel.
WindowWasSent == \A s \in Schedules : last[s] = sent[s]

\* What holds of events and the executions they fire.
EventsHold == TypeOK /\ CascadeBounded /\ NoSelfFire /\ WindowWasSent

----------------------------------------------------------------------------
(* The inductive invariant. *)

Triggers == [s : Schedules, depth : Nat, chain : Nat]

Origins == Schedules \cup {NoSchedule}

Shape ==
    /\ TypeOK
    /\ queue \in Seq(Triggers)
    /\ last \in [Schedules -> Int] /\ sent \in [Schedules -> Int]
    /\ emit \in [Emitters ->
                    [pc : {"idle", "lock", "send"}, chan : Int, for : SUBSET Schedules,
                     ev : [kind : Kinds \cup {"none"}, src : Origins, depth : Nat, chain : Nat, at : Int]]]
    /\ task \in [Slots -> [st : {"none", "running", "aborting"}, s : Origins, depth : Nat,
                             chain : Nat, left : Nat]]
    /\ exec \in [pc : {"idle", "admit", "join", "spawn"}, fired : Triggers \cup {NoTrigger},
                   taken : SUBSET Slots]
    /\ chan \in Int

\* The depth that is carried is the number of executions behind it, on every way from an
\* execution to the next.
DepthIsTrue ==
    /\ \A e \in Emitters :
          emit[e].pc # "idle" => DepthOf(emit[e].ev) = emit[e].ev.chain /\ emit[e].ev.chain <= MaxDepth + 1
    /\ \A k \in 1..Len(queue) : queue[k].depth = queue[k].chain
    /\ exec.pc # "idle" => exec.fired \in Triggers /\ exec.fired.depth = exec.fired.chain
    /\ exec.pc \in {"join", "spawn"} => exec.fired.depth <= MaxDepth
    /\ \A i \in Slots :
          task[i].st # "none" => /\ task[i].s \in Schedules
                                 /\ task[i].depth = task[i].chain /\ task[i].chain <= MaxDepth

\* The call of an execution carries its schedule, and fires no trigger of it.
SourceIsTrue ==
    \A i \in Slots :
        /\ emit[i].pc # "idle" => task[i].st # "none" /\ emit[i].ev.src = task[i].s
        /\ emit[i].pc = "send" => emit[i].ev.src \notin emit[i].for

\* One call at a time sends, so the windows it looked at stay as they are.
BridgeRests ==
    /\ \A e, f \in Emitters : emit[e].pc = "send" /\ emit[f].pc = "send" => e = f
    /\ \A e \in Emitters : emit[e].pc = "send" =>
          \A s \in emit[e].for : Debounces[s] > 0 => emit[e].ev.at - last[s] >= Debounces[s]

IndInv == Shape /\ DepthIsTrue /\ SourceIsTrue /\ BridgeRests /\ WindowWasSent

\* No trigger waits and nothing runs.
AtRest == queue = <<>> /\ \A i \in Slots : task[i].st = "none"
=============================================================================
