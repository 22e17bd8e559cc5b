---------------------------- MODULE ProviderPool ----------------------------
(***************************************************************************)
(* The pool of language-model providers (hf-provider): calls are routed to *)
(* a provider that is not frozen, wait for a global and a provider permit, *)
(* and are retried, counted and released; failures freeze the provider,    *)
(* and time, the health loop or an operator thaws it.                      *)
(*                                                                         *)
(* Calls run on many threads.  Every read or write of a FreezeManager is   *)
(* one step (its RwLock), every semaphore operation is one step, and every *)
(* await is a place where others run.                                      *)
(***************************************************************************)
EXTENDS Naturals, Sequences, FiniteSets

CONSTANTS
    NumProviders,   \* providers, in declaration order
    Calls,          \* callers; each makes one call after another
    MaxConcurrency, \* permits of every provider
    GlobalMax,      \* permits of the pool; the number of calls stands for no limit
    Priorities,     \* the priorities callers use
    Routes,         \* for each kind of request, the providers with all required tags
    Preferences,    \* the providers callers ask for; NoProvider leaves it to the router
    Kinds,          \* "chat" and "stream"
    Durations,      \* explicit freeze durations; 0 stands for none given
    BaseFreeze,     \* base_duration_secs, in ticks
    MaxFreeze,      \* max_duration_secs, in ticks
    StreakCap,      \* freezes in a row after which the adaptive duration is at its maximum
    MaxAttempts,    \* MAX_IN_CALL_ATTEMPTS
    Probers,        \* "loop", the periodic health check, and "operator"
    NoProvider,     \* no provider chosen
    NoCall,         \* no call under way
    NoThaw          \* thaw_at is None

Providers == 1..NumProviders

\* The configuration is validated: there is a provider, and no semaphore starts
\* without permits.  The adaptive duration no longer grows once the cap on the
\* streak is reached.
ASSUME PoolAssumption ==
    /\ NumProviders \in Nat \ {0} /\ IsFiniteSet(Calls)
    /\ MaxConcurrency \in Nat \ {0} /\ GlobalMax \in Nat \ {0}
    /\ Priorities \subseteq {"critical", "normal", "idle"}
    /\ Routes \subseteq SUBSET Providers
    /\ Preferences \subseteq Providers \cup {NoProvider}
    /\ Kinds \subseteq {"chat", "stream"}
    /\ Durations \subseteq Nat
    /\ BaseFreeze \in Nat /\ MaxFreeze \in Nat
    /\ StreakCap \in Nat \ {0} /\ (BaseFreeze = 0 \/ BaseFreeze * 2^(StreakCap - 1) >= MaxFreeze)
    /\ MaxAttempts \in Nat \ {0}
    /\ Probers \subseteq {"loop", "operator"}
    /\ NoProvider \notin Providers
    /\ NoThaw \notin Nat
    /\ NoCall \notin [kind : Kinds, priority : Priorities, route : Routes, preferred : Preferences]

VARIABLES
    freeze,     \* FreezeState of every provider; times are remaining ticks
    free,       \* available permits of every provider's semaphore
    waiting,    \* the calls queued on every provider's semaphore
    globalFree, \* available permits of the global semaphore
    globalWait, \* the calls queued on it
    pc,         \* where every call is
    call,       \* what every call asks for
    at,         \* the provider the router looks at
    cand,       \* the candidates it has found
    sel,        \* the provider it chose
    attempt,    \* failed attempts of the call in flight
    counted,    \* how often the call was counted in its provider's metrics
    todo,       \* the providers a prober has still to check
    probe,      \* the provider it checks
    answer,     \* what the provider answered to it
    overtaken   \* history: the provider was frozen for good during the check

poolVars == <<free, waiting, globalFree, globalWait>>
routeVars == <<call, at, cand, sel>>
probeVars == <<todo, probe, answer, overtaken>>
vars == <<freeze, poolVars, pc, routeVars, attempt, counted, probeVars>>

Scanning == {"scan", "thaw", "weigh"}
InFlight == {"calling", "backoff", "streaming"}
Ended == {"ok", "error", "refused", "dropped"}

FreezeType == [frozen : BOOLEAN, permanent : BOOLEAN,
               thawIn : (0..MaxFreeze) \cup {NoThaw}, streak : 0..StreakCap]
CallType == [kind : Kinds, priority : Priorities, route : Routes, preferred : Preferences]

\* Well-typed states of the pool, its callers and its health checks.
TypeOK ==
    /\ freeze \in [Providers -> FreezeType]
    /\ free \in [Providers -> Nat]
    /\ waiting \in [Providers -> Seq(Calls)]
    /\ globalFree \in Nat
    /\ globalWait \in Seq(Calls)
    /\ pc \in [Calls -> Scanning \cup InFlight \cup Ended \cup
                        {"idle", "chosen", "global", "admitted", "local"}]
    /\ call \in [Calls -> CallType \cup {NoCall}]
    /\ at \in [Calls -> 1..(NumProviders + 1)]
    /\ cand \in [Calls -> SUBSET Providers]
    /\ sel \in [Calls -> Providers \cup {NoProvider}]
    /\ attempt \in [Calls -> 0..(MaxAttempts - 1)]
    /\ counted \in [Calls -> Nat]
    /\ todo \in [Probers -> SUBSET Providers]
    /\ probe \in [Probers -> Providers \cup {NoProvider}]
    /\ answer \in [Probers -> {"none", "pending", "healthy", "unhealthy"}]
    /\ overtaken \in [Probers -> BOOLEAN]

-----------------------------------------------------------------------------
(* FreezeManager.  A provider that is frozen for a time has thawIn ticks   *)
(* left; 0 means the time is over, though nobody may have noticed.         *)

FreezeState(f, p, t, s) == [frozen |-> f, permanent |-> p, thawIn |-> t, streak |-> s]

Unfrozen == FreezeState(FALSE, FALSE, NoThaw, 0)

Least(m, n) == IF m <= n THEN m ELSE n

\* adaptive_duration: doubled with every freeze in a row, up to the maximum.
Adaptive(streak) ==
    LET doubled == BaseFreeze * 2^(streak - 1)
    IN  IF doubled \in 0..MaxFreeze THEN doubled ELSE MaxFreeze

\* freeze(reason, duration): a temporary freeze never downgrades a permanent
\* one, a duration of zero counts as none, and none is longer than the maximum.
Frozen(f, d) ==
    LET streak == Least(f.streak + 1, StreakCap)
    IN  IF f.permanent
        THEN FreezeState(f.frozen, TRUE, f.thawIn, streak)
        ELSE FreezeState(TRUE, FALSE, IF d = 0 THEN Adaptive(streak) ELSE Least(d, MaxFreeze), streak)

FrozenForGood(f) == FreezeState(TRUE, TRUE, NoThaw, f.streak)

\* Mutant: the second look only asks whether there is a thaw time.
AutoThawedUnchecked(f) ==
    IF f.permanent \/ f.thawIn = NoThaw THEN f ELSE FreezeState(FALSE, FALSE, NoThaw, f.streak)

\* try_auto_thaw, under the write lock: the streak is kept.
AutoThawed(f) ==
    IF f.permanent \/ f.thawIn # 0 THEN f ELSE FreezeState(FALSE, FALSE, NoThaw, f.streak)

\* status(): an expired freeze is reported as none.
ReportedFrozen(p) == freeze[p].frozen /\ (freeze[p].permanent \/ freeze[p].thawIn # 0)

\* Time passes for every temporary freeze.
Tick ==
    /\ \E p \in Providers : freeze[p].thawIn \notin {0, NoThaw}
    /\ freeze' = [p \in Providers |->
                    LET f == freeze[p]
                    IN  IF f.thawIn \in {0, NoThaw} THEN f
                        ELSE FreezeState(f.frozen, f.permanent, f.thawIn - 1, f.streak)]
    /\ UNCHANGED <<poolVars, pc, routeVars, attempt, counted, probeVars>>

-----------------------------------------------------------------------------
Init ==
    /\ freeze = [p \in Providers |-> Unfrozen]
    /\ free = [p \in Providers |-> MaxConcurrency]
    /\ waiting = [p \in Providers |-> <<>>]
    /\ globalFree = GlobalMax
    /\ globalWait = <<>>
    /\ pc = [c \in Calls |-> "idle"]
    /\ call = [c \in Calls |-> NoCall]
    /\ at = [c \in Calls |-> 1]
    /\ cand = [c \in Calls |-> {}]
    /\ sel = [c \in Calls |-> NoProvider]
    /\ attempt = [c \in Calls |-> 0]
    /\ counted = [c \in Calls |-> 0]
    /\ todo = [q \in Probers |-> {}]
    /\ probe = [q \in Probers |-> NoProvider]
    /\ answer = [q \in Probers |-> "none"]
    /\ overtaken = [q \in Probers |-> FALSE]

-----------------------------------------------------------------------------
(* TagBasedRouter::select.  The filter looks at one provider after the     *)
(* other; freezes, permits and thaws change between two looks.             *)

Goto(c, label) == pc' = [pc EXCEPT ![c] = label]

LookOn(c) == at' = [at EXCEPT ![c] = @ + 1]

\* A call begins: a preferred provider is taken as it is if its tags match,
\* even frozen; everything else goes through the filter.
Begin(c, r) ==
    /\ pc[c] \in {"idle"} \cup Ended
    /\ counted' = [counted EXCEPT ![c] = 0]
    /\ IF r.preferred = NoProvider
       THEN /\ Goto(c, "scan")
            /\ call' = [call EXCEPT ![c] = r]
            /\ UNCHANGED sel
       ELSE IF r.preferred \in r.route
       THEN /\ Goto(c, "chosen")
            /\ call' = [call EXCEPT ![c] = r]
            /\ sel' = [sel EXCEPT ![c] = r.preferred]
       ELSE /\ Goto(c, "refused")
            /\ UNCHANGED <<call, sel>>
    /\ UNCHANGED <<freeze, poolVars, at, cand, attempt, probeVars>>

\* is_frozen, under the read lock: an expired freeze is looked at again.
Scan(c) ==
    /\ pc[c] = "scan" /\ at[c] \in Providers
    /\ LET f == freeze[at[c]]
       IN  \/ f.frozen /\ f.thawIn = 0 /\ Goto(c, "thaw") /\ UNCHANGED at
           \/ f.frozen /\ f.thawIn # 0 /\ LookOn(c) /\ UNCHANGED pc
           \/ ~f.frozen /\ Goto(c, "weigh") /\ UNCHANGED at
    /\ UNCHANGED <<freeze, poolVars, call, cand, sel, attempt, counted, probeVars>>

TryAutoThaw(c) ==
    /\ pc[c] = "thaw"
    /\ LET f == AutoThawed(freeze[at[c]])
       IN  /\ freeze' = [freeze EXCEPT ![at[c]] = f]
           /\ IF f.frozen THEN LookOn(c) /\ Goto(c, "scan") ELSE Goto(c, "weigh") /\ UNCHANGED at
    /\ UNCHANGED <<poolVars, call, cand, sel, attempt, counted, probeVars>>

\* A fifth of the permits is kept back from normal calls; idle calls need a
\* free permit; critical calls are let through.
Admits(priority, permits) ==
    CASE priority = "idle" -> permits > 0
      [] priority = "normal" -> permits > MaxConcurrency \div 5
      [] priority = "critical" -> TRUE

Weigh(c) ==
    /\ pc[c] = "weigh"
    /\ cand' = [cand EXCEPT ![c] =
                  IF at[c] \in call[c].route /\ Admits(call[c].priority, free[at[c]])
                  THEN @ \cup {at[c]} ELSE @]
    /\ LookOn(c) /\ Goto(c, "scan")
    /\ UNCHANGED <<freeze, poolVars, call, sel, attempt, counted, probeVars>>

\* Soft tags, a preferred model and the five strategies pick one candidate.
Choose(c) ==
    /\ pc[c] = "scan" /\ at[c] = NumProviders + 1
    /\ at' = [at EXCEPT ![c] = 1]
    /\ cand' = [cand EXCEPT ![c] = {}]
    /\ \/ /\ cand[c] = {}
          /\ Goto(c, "refused")
          /\ call' = [call EXCEPT ![c] = NoCall]
          /\ UNCHANGED sel
       \/ /\ \E p \in cand[c] : sel' = [sel EXCEPT ![c] = p]
          /\ Goto(c, "chosen")
          /\ UNCHANGED call
    /\ UNCHANGED <<freeze, poolVars, attempt, counted, probeVars>>

-----------------------------------------------------------------------------
(* The two semaphores.  Waiters are served in order: a released permit     *)
(* goes to the first waiter, and only without one becomes available.       *)

First(q) == IF q = <<>> THEN {} ELSE {Head(q)}

Served(q) == IF q = <<>> THEN q ELSE Tail(q)

Without(q, c) ==
    LET k == CHOOSE i \in DOMAIN q : q[i] = c
    IN  [i \in 1..(Len(q) - 1) |-> IF i < k THEN q[i] ELSE q[i + 1]]

JoinGlobal(c) ==
    /\ pc[c] = "chosen"
    /\ IF globalFree > 0
       THEN globalFree' = globalFree - 1 /\ Goto(c, "admitted") /\ UNCHANGED globalWait
       ELSE globalWait' = Append(globalWait, c) /\ Goto(c, "global") /\ UNCHANGED globalFree
    /\ UNCHANGED <<freeze, free, waiting, routeVars, attempt, counted, probeVars>>

JoinLocal(c) ==
    LET p == sel[c]
    IN  /\ pc[c] = "admitted"
        /\ IF free[p] > 0
           THEN /\ free' = [free EXCEPT ![p] = @ - 1]
                /\ Goto(c, "calling")
                /\ UNCHANGED waiting
           ELSE /\ waiting' = [waiting EXCEPT ![p] = Append(@, c)]
                /\ Goto(c, "local")
                /\ UNCHANGED free
        /\ UNCHANGED <<freeze, globalFree, globalWait, routeVars, attempt, counted, probeVars>>

ReleaseGlobal ==
    /\ globalFree' = IF globalWait = <<>> THEN globalFree + 1 ELSE globalFree
    /\ globalWait' = Served(globalWait)

ReleaseLocal(p) ==
    /\ free' = [free EXCEPT ![p] = IF waiting[p] = <<>> THEN @ + 1 ELSE @]
    /\ waiting' = [waiting EXCEPT ![p] = Served(@)]

\* The call is over; whoever got its permits goes on.
Leave(c, how, local, global) ==
    /\ pc' = [x \in Calls |-> IF x = c THEN how
                               ELSE IF x \in local THEN "calling"
                               ELSE IF x \in global THEN "admitted"
                               ELSE pc[x]]
    /\ call' = [call EXCEPT ![c] = NoCall]
    /\ sel' = [sel EXCEPT ![c] = NoProvider]
    /\ attempt' = [attempt EXCEPT ![c] = 0]
    /\ UNCHANGED <<at, cand>>

\* Mutant: the permits become available and nobody is woken.
FinishUnwoken(c, how) ==
    /\ free' = [free EXCEPT ![sel[c]] = @ + 1]
    /\ globalFree' = globalFree + 1
    /\ UNCHANGED <<waiting, globalWait>>
    /\ Leave(c, how, {}, {})

\* A call in flight ends and drops its guard and both permits.
Finish(c, how) ==
    /\ ReleaseLocal(sel[c])
    /\ ReleaseGlobal
    /\ Leave(c, how, First(waiting[sel[c]]), First(globalWait))

-----------------------------------------------------------------------------
(* Calls in flight.                                                        *)

\* The classes of errors the pool tells apart, with what it does about them.
Errors == {"transient", "backoff", "dead", "request"}

\* record_error and record_success_with_cost each count one request.
Count(c) == counted' = [counted EXCEPT ![c] = @ + 1]

\* classify_and_freeze
Report(p, e) ==
    /\ \/ e = "request" /\ UNCHANGED freeze
       \/ e = "dead" /\ freeze' = [freeze EXCEPT ![p] = FrozenForGood(@)]
       \/ /\ e \in {"transient", "backoff"}
          /\ \E d \in Durations : freeze' = [freeze EXCEPT ![p] = Frozen(@, d)]
    /\ overtaken' = [q \in Probers |-> overtaken[q] \/ (e = "dead" /\ probe[q] = p)]
    /\ UNCHANGED <<todo, probe, answer>>

Calling(c, kind) == pc[c] = "calling" /\ call[c].kind = kind

ChatSucceeds(c) ==
    /\ Calling(c, "chat")
    /\ Count(c)
    /\ Finish(c, "ok")
    /\ UNCHANGED <<freeze, probeVars>>

\* A transient error is tried again on the same provider, with both permits.
ChatRetries(c) ==
    /\ Calling(c, "chat") /\ attempt[c] + 1 < MaxAttempts
    /\ attempt' = [attempt EXCEPT ![c] = @ + 1]
    /\ Goto(c, "backoff")
    /\ UNCHANGED <<freeze, poolVars, routeVars, counted, probeVars>>

ChatFails(c, e) ==
    /\ Calling(c, "chat") /\ (e = "transient" => attempt[c] + 1 = MaxAttempts)
    /\ Count(c)
    /\ Report(sel[c], e)
    /\ Finish(c, "error")

Retry(c) ==
    /\ pc[c] = "backoff"
    /\ Goto(c, "calling")
    /\ UNCHANGED <<freeze, poolVars, routeVars, attempt, counted, probeVars>>

\* Mutant: the permits are borrowed for the opening call only.
StreamOpensUnguarded(c) ==
    /\ Calling(c, "stream")
    /\ ReleaseLocal(sel[c])
    /\ ReleaseGlobal
    /\ pc' = [x \in Calls |-> IF x = c THEN "streaming"
                               ELSE IF x \in First(waiting[sel[c]]) THEN "calling"
                               ELSE IF x \in First(globalWait) THEN "admitted"
                               ELSE pc[x]]
    /\ UNCHANGED <<freeze, routeVars, attempt, counted, probeVars>>

\* The permits and the guard move into the stream.
StreamOpens(c) ==
    /\ Calling(c, "stream")
    /\ Goto(c, "streaming")
    /\ UNCHANGED <<freeze, poolVars, routeVars, attempt, counted, probeVars>>

StreamRefused(c, e) ==
    /\ Calling(c, "stream")
    /\ Count(c)
    /\ Report(sel[c], e)
    /\ Finish(c, "error")

\* Mutant: every error item is reported, not only the first.
EveryItemFails(c, e) ==
    /\ pc[c] = "streaming"
    /\ counted[c] < 2
    /\ Count(c)
    /\ Report(sel[c], e)
    /\ UNCHANGED <<poolVars, pc, routeVars, attempt>>

\* An error item: the first is counted and reported, and the stream goes on.
StreamItemFails(c, e) ==
    /\ pc[c] = "streaming"
    /\ counted[c] = 0
    /\ Count(c)
    /\ Report(sel[c], e)
    /\ UNCHANGED <<poolVars, pc, routeVars, attempt>>

\* The clean end counts the request unless an error did.
StreamEnds(c) ==
    /\ pc[c] = "streaming"
    /\ IF counted[c] = 0 THEN Count(c) ELSE UNCHANGED counted
    /\ Finish(c, "ok")
    /\ UNCHANGED <<freeze, probeVars>>

\* The future or the stream is dropped at an await: a waiter leaves its
\* queue, and what the call holds is released; nothing is counted.
Drop(c) ==
    /\ \/ /\ pc[c] = "global"
          /\ globalWait' = Without(globalWait, c)
          /\ Leave(c, "dropped", {}, {})
          /\ UNCHANGED <<free, waiting, globalFree>>
       \/ /\ pc[c] = "admitted"
          /\ ReleaseGlobal
          /\ Leave(c, "dropped", {}, First(globalWait))
          /\ UNCHANGED <<free, waiting>>
       \/ /\ pc[c] = "local"
          /\ waiting' = [waiting EXCEPT ![sel[c]] = Without(@, c)]
          /\ ReleaseGlobal
          /\ Leave(c, "dropped", {}, First(globalWait))
          /\ UNCHANGED free
       \/ /\ pc[c] \in InFlight
          /\ Finish(c, "dropped")
    /\ UNCHANGED <<freeze, counted, probeVars>>

-----------------------------------------------------------------------------
(* Thawing: the periodic health loop and the operator's command.           *)

OperatorFreezes(p) ==
    /\ freeze' = [freeze EXCEPT ![p] = Frozen(@, 0)]
    /\ UNCHANGED <<poolVars, pc, routeVars, attempt, counted, probeVars>>

\* Mutant: the loop passes over providers that are frozen for good.
LoopSkipsPermanent ==
    LET due == {p \in Providers : ReportedFrozen(p) /\ ~freeze[p].permanent}
    IN  /\ "loop" \in Probers
        /\ todo["loop"] = {} /\ probe["loop"] = NoProvider
        /\ due # {}
        /\ todo' = [todo EXCEPT !["loop"] = due]
        /\ UNCHANGED <<freeze, poolVars, pc, routeVars, attempt, counted, probe, answer, overtaken>>

\* thaw_frozen_providers works from one snapshot of the statuses.
LoopBegins ==
    /\ "loop" \in Probers
    /\ todo["loop"] = {} /\ probe["loop"] = NoProvider
    /\ \E p \in Providers : ReportedFrozen(p)
    /\ todo' = [todo EXCEPT !["loop"] = {p \in Providers : ReportedFrozen(p)}]
    /\ UNCHANGED <<freeze, poolVars, pc, routeVars, attempt, counted, probe, answer, overtaken>>

\* thaw: the provider is sent a minimal request, without a permit.
SendProbe(q, p) ==
    /\ probe[q] = NoProvider
    /\ IF q = "loop" THEN p \in todo[q] /\ \A o \in todo[q] : p <= o ELSE TRUE
    /\ todo' = [todo EXCEPT ![q] = @ \ {p}]
    /\ probe' = [probe EXCEPT ![q] = p]
    /\ answer' = [answer EXCEPT ![q] = "pending"]
    /\ overtaken' = [overtaken EXCEPT ![q] = FALSE]
    /\ UNCHANGED <<freeze, poolVars, pc, routeVars, attempt, counted>>

\* The provider responds, or fails or exceeds the ten seconds.
ProbeAnswered(q, a) ==
    /\ answer[q] = "pending"
    /\ answer' = [answer EXCEPT ![q] = a]
    /\ UNCHANGED <<freeze, poolVars, pc, routeVars, attempt, counted, todo, probe, overtaken>>

\* check_and_thaw: thaw on success, freeze adaptively on failure.
ApplyProbe(q) ==
    /\ answer[q] \in {"healthy", "unhealthy"}
    /\ freeze' = [freeze EXCEPT ![probe[q]] =
                    IF answer[q] = "healthy" THEN Unfrozen ELSE Frozen(@, 0)]
    /\ probe' = [probe EXCEPT ![q] = NoProvider]
    /\ answer' = [answer EXCEPT ![q] = "none"]
    /\ overtaken' = [overtaken EXCEPT ![q] = FALSE]
    /\ UNCHANGED <<poolVars, pc, routeVars, attempt, counted, todo>>

-----------------------------------------------------------------------------
Route(c) == Scan(c) \/ TryAutoThaw(c) \/ Weigh(c) \/ Choose(c)

Acquire(c) == JoinGlobal(c) \/ JoinLocal(c)

Work(c) ==
    \/ ChatSucceeds(c) \/ ChatRetries(c) \/ Retry(c)
    \/ StreamOpens(c) \/ StreamEnds(c)
    \/ \E e \in Errors : ChatFails(c, e) \/ StreamRefused(c, e) \/ StreamItemFails(c, e)

Probing(q) ==
    \/ \E p \in Providers : SendProbe(q, p)
    \/ \E a \in {"healthy", "unhealthy"} : ProbeAnswered(q, a)
    \/ ApplyProbe(q)

Next ==
    \/ Tick
    \/ \E c \in Calls : (\E r \in CallType : Begin(c, r)) \/ Route(c) \/ Acquire(c) \/ Work(c) \/ Drop(c)
    \/ \E p \in Providers : OperatorFreezes(p)
    \/ LoopBegins
    \/ \E q \in Probers : Probing(q)

Spec == Init /\ [][Next]_vars

-----------------------------------------------------------------------------
(* What the pool promises.                                                 *)

Holders(p) == {c \in Calls : pc[c] \in InFlight /\ sel[c] = p}

Admitted == {c \in Calls : pc[c] \in InFlight \cup {"admitted", "local"}}

InQueue(q, c) == \E i \in DOMAIN q : q[i] = c

Distinct(q) == \A i, j \in DOMAIN q : q[i] = q[j] => i = j

ProviderBalance ==
    \A p \in Providers : /\ free[p] + Cardinality(Holders(p)) = MaxConcurrency
                         /\ waiting[p] # <<>> => free[p] = 0

GlobalBalance ==
    /\ globalFree + Cardinality(Admitted) = GlobalMax
    /\ globalWait # <<>> => globalFree = 0

Queues ==
    /\ Distinct(globalWait)
    /\ \A c \in Calls : (pc[c] = "global") <=> InQueue(globalWait, c)
    /\ \A p \in Providers :
         /\ Distinct(waiting[p])
         /\ \A c \in Calls : (pc[c] = "local" /\ sel[c] = p) <=> InQueue(waiting[p], c)

\* No permit is lost or made, whatever is dropped, retried or streamed: the
\* permits available and the permits held by calls are all there are, so no
\* provider ever serves more than max_concurrency calls and the pool never
\* more than its global limit; nobody waits while a permit is available, and
\* exactly the calls that wait are in the queues, once each.
PermitsBalance == ProviderBalance /\ GlobalBalance /\ Queues

\* A call that came to an end counts as one request of its provider, a stream
\* with an error and a late end included; a call that never left the queues
\* or the router counts as none, and none counts twice.
CountedOnce ==
    \A c \in Calls :
      /\ counted[c] <= 1
      /\ pc[c] \in {"ok", "error"} => counted[c] = 1
      /\ pc[c] \in Scanning \cup {"chosen", "global", "admitted", "local", "calling", "backoff", "refused"}
           => counted[c] = 0

\* A freeze is lifted only when its time is over, and then only if it has a
\* time, or by a health check the provider answered: neither a later short
\* freeze nor a thaw decided on an older look at the provider ends it.
FreezeLiftedRightly ==
    [][\A p \in Providers :
         /\ freeze[p].frozen /\ ~freeze'[p].frozen
              => \/ ~freeze[p].permanent /\ freeze[p].thawIn = 0
                 \/ \E q \in Probers : probe[q] = p /\ answer[q] = "healthy"
         /\ freeze[p].permanent /\ ~freeze'[p].permanent
              => \E q \in Probers : probe[q] = p /\ answer[q] = "healthy"]_vars

-----------------------------------------------------------------------------
(* Progress.  The code's own part: threads run on, and the health loop     *)
(* keeps its interval and bounds every check.                              *)

Scheduling ==
    /\ \A c \in Calls : WF_vars(Route(c)) /\ WF_vars(Acquire(c)) /\ WF_vars(Retry(c))
    /\ WF_vars(LoopBegins)
    /\ WF_vars(\E p \in Providers : SendProbe("loop", p))
    /\ WF_vars(ApplyProbe("loop"))

\* The world's part, on which the pool depends without a timeout of its own:
\* a call in flight is answered or given up by its caller, and no provider
\* fails every health check for ever.
Environment ==
    /\ \A c \in Calls : WF_vars(Work(c) \/ (pc[c] \in InFlight /\ Drop(c)))
    /\ \A p \in Providers : SF_vars(probe["loop"] = p /\ ProbeAnswered("loop", "healthy"))

FairSpec == Spec /\ Scheduling /\ Environment

\* A call in a queue gets its permit as long as calls in flight end: holding
\* the global permit while waiting for a provider's never locks the pool, and
\* no waiter is passed over.
WaiterIsServed ==
    \A c \in Calls : pc[c] \in {"global", "local"} ~> pc[c] \in InFlight \cup Ended

\* The health loop gets a provider that was frozen for good back into use
\* without a restart.
DeadIsRevived ==
    \A p \in Providers : freeze[p].permanent ~> ~freeze[p].frozen

\* Nobody waits for ever: a queued call is served or fails although it may hold
\* the global permit meanwhile, and the health loop revives a provider that was
\* frozen for good.
PoolRecovers == WaiterIsServed /\ DeadIsRevived
=============================================================================
