---------------------------- MODULE ModelBudget ----------------------------
(***************************************************************************)
(* The durable model-spending ledger and the provider decorator that uses  *)
(* it: crates/hf-storage/src/model_budget_store.rs (two SQLite             *)
(* transactions, reserve and settle) and                                   *)
(* crates/hf-service/src/model_budget/dispatch.rs (reserve, call the       *)
(* upstream, settle).  Callers are concurrent tasks of any number of       *)
(* processes; each of them may be dropped, or its process killed, between  *)
(* any two steps, and only the ledger survives.                            *)
(***************************************************************************)
EXTENDS Integers, Sequences, FiniteSets

CONSTANTS
    Callers,        \* concurrent provider calls
    Scopes,         \* workflow scope identities
    Policies,       \* settings a process may be configured with
    Providers,      \* metadata of the wrapped providers
    Requests,       \* what the decorator looks at in a chat request
    Usages,         \* what one upstream call may really consume
    CacheTokens,    \* cache counters reported on top of the input tokens
    RateUnit,       \* tokens per price unit (1000 in the code)
    I64Max,         \* largest SQLite integer
    NoRow,          \* no row in model_budget_scopes
    NoUsage,        \* no usage seen, or upstream not contacted
    MaxAttempts     \* bound: attempts made in a behaviour

NoLimit == -1       \* Option::None of a limit; real limits are at least 1
Overflow == -1      \* a checked operation that returned None
NoReason == "none"
DenialReasons == {"scope_limits_changed", "usage_exceeded_reservation",
                  "calls_exhausted", "tokens_exhausted", "cost_exhausted"}

PolicyType == [max_calls : Int, max_tokens : Int, max_cost : Int,
               max_output_tokens : Nat]
ProviderType == [context_window : Nat, input_rate : Nat, output_rate : Nat,
                 partial_usage : BOOLEAN]
RequestType == [bounded : BOOLEAN, max_tokens : Int]
UsageType == [input : Nat, output : Nat]

\* ModelBudgetSettings::validate: a limit is absent or within 1..=i64::MAX.
ValidPolicy(p) ==
    /\ \A limit \in {p.max_calls, p.max_tokens, p.max_cost} :
          limit = NoLimit \/ limit \in 1..I64Max
    /\ p.max_output_tokens > 0
    /\ \E limit \in {p.max_calls, p.max_tokens, p.max_cost} : limit # NoLimit

ASSUME ConstantsAssumption ==
    /\ RateUnit \in Nat \ {0}
    /\ I64Max \in Nat \ {0}
    /\ MaxAttempts \in Nat
    /\ Policies \subseteq PolicyType
    /\ \A p \in Policies : ValidPolicy(p)
    /\ Providers \subseteq ProviderType
    /\ Requests \subseteq RequestType
    /\ \A r \in Requests : r.max_tokens = NoLimit \/ r.max_tokens >= 0
    /\ Usages \subseteq UsageType
    /\ CacheTokens \subseteq Nat

VARIABLES
    scopes,     \* model_budget_scopes: row of each scope, or NoRow
    attempts,   \* model_budget_attempts, in insertion order
    caller,     \* what each concurrent call is doing
    upstream    \* what the provider really consumed for each attempt

vars == <<scopes, attempts, caller, upstream>>

RowType == [policy : Policies, calls : Nat, tokens : Int, cost : Int,
            blocked : BOOLEAN, terminal_reason : DenialReasons \cup {NoReason}]
AttemptStates == {"reserved", "settled", "overrun"}
AttemptType == [scope : Scopes, provider : Providers,
                reserved_input : Nat, reserved_output : Nat, reserved_cost : Nat,
                state : AttemptStates,
                observed_input : Nat, observed_output : Nat, observed_cost : Nat]
ReportType == [source : {"ProviderReported", "Estimated"},
               input : Nat, output : Nat, cache : Nat]
CallerType == [pc : {"idle", "reserved", "chat", "stream", "settling"},
               id : Nat, usage : ReportType \cup {NoUsage}, failed : BOOLEAN,
               finished : BOOLEAN]

ASSUME SentinelsAssumption ==
    /\ NoRow \notin RowType
    /\ NoUsage \notin ReportType
    /\ NoUsage \notin UsageType

CallState(at, id, usage, failed, finished) ==
    [pc |-> at, id |-> id, usage |-> usage, failed |-> failed, finished |-> finished]

Unobserved == [input |-> 0, output |-> 0, cost |-> 0]

AttemptRow(s, p, input, output, cost, state, seen) ==
    [scope |-> s, provider |-> p, reserved_input |-> input, reserved_output |-> output,
     reserved_cost |-> cost, state |-> state, observed_input |-> seen.input,
     observed_output |-> seen.output, observed_cost |-> seen.cost]

Idle == CallState("idle", 0, NoUsage, FALSE, FALSE)

ScopeRow(policy, calls, tokens, cost, blocked, reason) ==
    [policy |-> policy, calls |-> calls, tokens |-> tokens, cost |-> cost,
     blocked |-> blocked, terminal_reason |-> reason]

\* Rows, attempts and calls have the types of the ledger's tables: a charge and
\* an observed cost are numbers, never the overflow mark, and a call in flight
\* names an attempt.
TypeOK ==
    /\ scopes \in [Scopes -> RowType \cup {NoRow}]
    /\ attempts \in Seq(AttemptType)
    /\ caller \in [Callers -> CallerType]
    /\ upstream \in Seq(UsageType \cup {NoUsage})
    /\ Len(upstream) = Len(attempts)
    /\ \A c \in Callers : caller[c].pc # "idle" => caller[c].id \in DOMAIN attempts

Init ==
    /\ scopes = [s \in Scopes |-> NoRow]
    /\ attempts = <<>>
    /\ caller = [c \in Callers |-> Idle]
    /\ upstream = <<>>

(***************************************************************************)
(* Charging                                                                *)
(***************************************************************************)
CeilDiv(n, d) == (n + d - 1) \div d

\* i64::checked_add
CheckedAdd(a, b) == IF a = Overflow \/ b = Overflow \/ a + b > I64Max
                    THEN Overflow ELSE a + b

Priced(p) == p.input_rate > 0 /\ p.output_rate > 0

\* price: each side rounds up to whole microdollars; None outside i64.
TokenCost(tokens, rate) ==
    LET value == CeilDiv(tokens * rate, RateUnit)
    IN  IF value > I64Max THEN Overflow ELSE value

Price(p, input, output) ==
    IF Priced(p)
    THEN CheckedAdd(TokenCost(input, p.input_rate), TokenCost(output, p.output_rate))
    ELSE 0

\* The output allowance of a request, capped by the settings.
OutputAllowance(policy, r) ==
    IF r.max_tokens = NoLimit \/ r.max_tokens > policy.max_output_tokens
    THEN policy.max_output_tokens ELSE r.max_tokens

\* Mutant: the reservation rounds its cost down.
ChargeRoundedDown(policy, p, r) ==
    [input |-> p.context_window, output |-> OutputAllowance(policy, r),
     cost |-> IF Priced(p) THEN (p.context_window * p.input_rate) \div RateUnit
                                + (OutputAllowance(policy, r) * p.output_rate) \div RateUnit
              ELSE 0]

\* Worst-case charge: the whole context window plus the output allowance.
Charge(policy, p, r) ==
    [input |-> p.context_window, output |-> OutputAllowance(policy, r),
     cost |-> Price(p, p.context_window, OutputAllowance(policy, r))]

\* The denials of BudgetedProvider::reserve that never reach the store.
Bounded(policy, p, r) ==
    /\ policy.max_tokens # NoLimit \/ policy.max_cost # NoLimit => r.bounded
    /\ policy.max_cost # NoLimit => Priced(p)
    /\ OutputAllowance(policy, r) > 0
    /\ p.context_window \in 1..I64Max
    /\ Charge(policy, p, r).cost # Overflow

(***************************************************************************)
(* Store::reserve_model_budget: one transaction                            *)
(***************************************************************************)
\* Mutant: the limit itself is off by one.
ExceedsByOne(value, limit) == value = Overflow \/ (limit # NoLimit /\ value > limit + 1)

Exceeds(value, limit) == value = Overflow \/ (limit # NoLimit /\ value > limit)

\* INSERT .. ON CONFLICT DO NOTHING, then SELECT.
Row(s, policy) ==
    IF scopes[s] = NoRow
    THEN ScopeRow(policy, 0, 0, 0, FALSE, NoReason)
    ELSE scopes[s]

NewTokens(row, charge) == CheckedAdd(row.tokens, CheckedAdd(charge.input, charge.output))

\* The first reason that applies, in the order of the code.
DenialReason(row, policy, charge) ==
    IF row.policy # policy THEN "scope_limits_changed"
    ELSE IF row.blocked THEN "usage_exceeded_reservation"
    ELSE IF Exceeds(CheckedAdd(row.calls, 1), policy.max_calls) THEN "calls_exhausted"
    ELSE IF Exceeds(NewTokens(row, charge), policy.max_tokens) THEN "tokens_exhausted"
    ELSE IF Exceeds(CheckedAdd(row.cost, charge.cost), policy.max_cost) THEN "cost_exhausted"
    ELSE NoReason

\* A denial commits the scope row with its reason.
ReserveDenied(c, s, policy, p, r) ==
    LET reason == DenialReason(Row(s, policy), policy, Charge(policy, p, r))
    IN  /\ caller[c].pc = "idle"
        /\ Bounded(policy, p, r)
        /\ reason # NoReason
        /\ scopes' = [scopes EXCEPT ![s] =
                        [Row(s, policy) EXCEPT !.terminal_reason = reason]]
        /\ UNCHANGED <<attempts, caller, upstream>>

Reserve(c, s, policy, p, r) ==
    LET row == Row(s, policy)
        charge == Charge(policy, p, r)
    IN  /\ caller[c].pc = "idle"
        /\ Len(attempts) < MaxAttempts
        /\ Bounded(policy, p, r)
        /\ DenialReason(row, policy, charge) = NoReason
        /\ scopes' = [scopes EXCEPT ![s] =
                        ScopeRow(row.policy, row.calls + 1, NewTokens(row, charge),
                                 CheckedAdd(row.cost, charge.cost),
                                 row.blocked, row.terminal_reason)]
        /\ attempts' = Append(attempts,
                AttemptRow(s, p, charge.input, charge.output, charge.cost,
                           "reserved", Unobserved))
        /\ upstream' = Append(upstream, NoUsage)
        /\ caller' = [caller EXCEPT ![c] =
                CallState("reserved", Len(attempts) + 1, NoUsage, FALSE, FALSE)]

(***************************************************************************)
(* The upstream call (external): what it consumes is its own choice        *)
(***************************************************************************)
Call(c, mode, consumed) ==
    /\ caller[c].pc = "reserved"
    /\ upstream' = [upstream EXCEPT ![caller[c].id] = consumed]
    /\ caller' = [caller EXCEPT ![c] = CallState(mode, @.id, NoUsage, FALSE, FALSE)]
    /\ UNCHANGED <<scopes, attempts>>

Report(source, usage, cache) ==
    [source |-> source, input |-> usage.input, output |-> usage.output, cache |-> cache]

\* Attempt::settle ignores usage that is not reported or not positive.
Settleable(usage) ==
    /\ usage # NoUsage
    /\ usage.source = "ProviderReported"
    /\ usage.input > 0
    /\ usage.output > 0

\* inner.chat_completion returned a response with its usage.
ChatResponse(c, source, cache) ==
    /\ caller[c].pc = "chat"
    /\ LET usage == Report(source, upstream[caller[c].id], cache)
       IN  caller' = [caller EXCEPT ![c] =
                        IF Settleable(usage)
                        THEN CallState("settling", @.id, usage, FALSE, TRUE)
                        ELSE Idle]
    /\ UNCHANGED <<scopes, attempts, upstream>>

\* A stream item: usage so far (adapters that forward running counts) or the
\* final usage together with the end of the answer; the last usage wins.
StreamUsage(c, source, cache, sofar) ==
    LET id == caller[c].id
        final == sofar = upstream[id]
    IN  /\ caller[c].pc = "stream"
        /\ ~caller[c].finished
        /\ sofar.input = upstream[id].input
        /\ sofar.output <= upstream[id].output
        /\ final \/ attempts[id].provider.partial_usage
        /\ caller' = [caller EXCEPT ![c] =
                CallState("stream", id, Report(source, sofar, cache), @.failed, final)]
        /\ UNCHANGED <<scopes, attempts, upstream>>

\* An error item: `failed` stays set, whatever follows.
StreamError(c) ==
    /\ caller[c].pc = "stream"
    /\ ~caller[c].failed
    /\ caller' = [caller EXCEPT ![c] = CallState("stream", @.id, @.usage, TRUE, @.finished)]
    /\ UNCHANGED <<scopes, attempts, upstream>>

\* Mutant: a failed stream settles what it reported.
StreamEndIgnoresFailure(c) ==
    /\ caller[c].pc = "stream"
    /\ caller' = [caller EXCEPT ![c] =
                    IF Settleable(@.usage)
                    THEN CallState("settling", @.id, @.usage, @.failed, @.finished)
                    ELSE Idle]
    /\ UNCHANGED <<scopes, attempts, upstream>>

\* The stream yields None: settle the last usage unless an item failed.
StreamEnd(c) ==
    /\ caller[c].pc = "stream"
    /\ caller' = [caller EXCEPT ![c] =
                    IF ~@.failed /\ Settleable(@.usage)
                    THEN CallState("settling", @.id, @.usage, FALSE, @.finished)
                    ELSE Idle]
    /\ UNCHANGED <<scopes, attempts, upstream>>

\* Mutant: an interrupted call gets its tokens back.
AbandonRefunds(c) ==
    LET a == attempts[caller[c].id]
    IN  /\ caller[c].pc # "idle"
        /\ caller' = [caller EXCEPT ![c] = Idle]
        /\ scopes' = [scopes EXCEPT ![a.scope].tokens =
                        @ - a.reserved_input - a.reserved_output]
        /\ UNCHANGED <<attempts, upstream>>

\* An upstream error, a dropped future or stream, or the loss of the process:
\* the reservation stays as it is.
Abandon(c) ==
    /\ caller[c].pc # "idle"
    /\ caller' = [caller EXCEPT ![c] = Idle]
    /\ UNCHANGED <<scopes, attempts, upstream>>

(***************************************************************************)
(* Attempt::settle and Store::settle_model_budget                          *)
(***************************************************************************)
\* Cache counters are charged on top of the input tokens.
Observed(usage, p) ==
    [input |-> usage.input + usage.cache, output |-> usage.output,
     cost |-> Price(p, usage.input + usage.cache, usage.output)]

Within(a, seen) ==
    /\ seen.input <= a.reserved_input
    /\ seen.output <= a.reserved_output
    /\ seen.cost <= a.reserved_cost

\* Mutant: the output tokens are not refunded.
SettledRowInputOnly(row, a, seen) ==
    IF Within(a, seen)
    THEN ScopeRow(row.policy, row.calls,
                  row.tokens - (a.reserved_input - seen.input),
                  row.cost - (a.reserved_cost - seen.cost), row.blocked, row.terminal_reason)
    ELSE ScopeRow(row.policy, row.calls, row.tokens, row.cost, TRUE,
                  "usage_exceeded_reservation")

\* Mutant: an overrun is recorded but does not block the scope.
SettledRowUnblocked(row, a, seen) ==
    IF Within(a, seen)
    THEN ScopeRow(row.policy, row.calls,
                  row.tokens - ((a.reserved_input - seen.input)
                                + (a.reserved_output - seen.output)),
                  row.cost - (a.reserved_cost - seen.cost), row.blocked, row.terminal_reason)
    ELSE ScopeRow(row.policy, row.calls, row.tokens, row.cost, row.blocked,
                  "usage_exceeded_reservation")

\* Unused tokens and cost come back; the call itself is never refunded.
SettledRow(row, a, seen) ==
    IF Within(a, seen)
    THEN ScopeRow(row.policy, row.calls,
                  row.tokens - ((a.reserved_input - seen.input)
                                + (a.reserved_output - seen.output)),
                  row.cost - (a.reserved_cost - seen.cost), row.blocked, row.terminal_reason)
    ELSE ScopeRow(row.policy, row.calls, row.tokens, row.cost, TRUE,
                  "usage_exceeded_reservation")

SettledAttempt(a, seen) ==
    AttemptRow(a.scope, a.provider, a.reserved_input, a.reserved_output, a.reserved_cost,
               IF Within(a, seen) THEN "settled" ELSE "overrun", seen)

\* attempt.take(): nothing is left to settle when the stream is polled again.
AttemptTaken(call) == Idle

\* A price outside i64 is an error before the store is asked; a row that is no
\* longer reserved is left alone.
UnchangedBySettle(a, seen) == seen.cost = Overflow \/ a.state # "reserved"

Settle(c) ==
    LET id == caller[c].id
        a == attempts[id]
        seen == Observed(caller[c].usage, a.provider)
    IN  /\ caller[c].pc = "settling"
        /\ caller' = [caller EXCEPT ![c] = AttemptTaken(@)]
        /\ UNCHANGED upstream
        /\ IF UnchangedBySettle(a, seen)
           THEN UNCHANGED <<scopes, attempts>>
           ELSE /\ attempts' = [attempts EXCEPT ![id] = SettledAttempt(a, seen)]
                /\ scopes' = [scopes EXCEPT ![a.scope] = SettledRow(@, a, seen)]

Next ==
    \E c \in Callers :
        \/ \E s \in Scopes, policy \in Policies, p \in Providers, r \in Requests :
              \/ ReserveDenied(c, s, policy, p, r)
              \/ Reserve(c, s, policy, p, r)
        \/ \E mode \in {"chat", "stream"}, consumed \in Usages : Call(c, mode, consumed)
        \/ \E source \in {"ProviderReported", "Estimated"}, cache \in CacheTokens :
              \/ ChatResponse(c, source, cache)
              \/ \E sofar \in Usages : StreamUsage(c, source, cache, sofar)
        \/ StreamError(c)
        \/ StreamEnd(c)
        \/ Abandon(c)
        \/ Settle(c)

Spec == Init /\ [][Next]_vars

(***************************************************************************)
(* Properties                                                              *)
(***************************************************************************)
AttemptsOf(s) == {i \in DOMAIN attempts : attempts[i].scope = s}

\* What the ledger holds against an attempt: what was observed once settled,
\* the whole reservation until then and after an overrun.
ChargedTokens(a) == IF a.state = "settled" THEN a.observed_input + a.observed_output
                    ELSE a.reserved_input + a.reserved_output
ChargedCost(a) == IF a.state = "settled" THEN a.observed_cost ELSE a.reserved_cost

\* v[1] + ... + v[n]
Total(v, n) ==
    LET sum[k \in Nat] == IF k = 0 THEN 0 ELSE sum[k - 1] + v[k]
    IN  sum[n]

TokensOf(s) == [i \in Nat |-> IF i \in AttemptsOf(s) THEN ChargedTokens(attempts[i]) ELSE 0]
CostOf(s) == [i \in Nat |-> IF i \in AttemptsOf(s) THEN ChargedCost(attempts[i]) ELSE 0]

\* The totals of a scope row are exactly what its attempt rows are charged:
\* no interleaving of reservations, refunds, overruns and abandoned calls
\* loses or repeats a charge (reserve_model_budget, settle_model_budget).
LedgerBalanced ==
    \A s \in Scopes : scopes[s] # NoRow =>
        /\ scopes[s].calls = Cardinality(AttemptsOf(s))
        /\ scopes[s].tokens = Total(TokensOf(s), Len(attempts))
        /\ scopes[s].cost = Total(CostOf(s), Len(attempts))

AtMost(total, limit) == total <= I64Max /\ (limit # NoLimit => total <= limit)

\* The limits a scope was opened with hold in every state, for every later
\* caller and whatever settings that caller has (the denials of
\* reserve_model_budget), and the totals stay within i64.
WithinLimits ==
    \A s \in Scopes : scopes[s] # NoRow =>
        LET row == scopes[s]
        IN  /\ AtMost(row.calls, row.policy.max_calls)
            /\ AtMost(row.tokens, row.policy.max_tokens)
            /\ AtMost(row.cost, row.policy.max_cost)

\* An upstream that stays within what one request may use and whose adapter
\* reports usage only with the end of the answer: a truncated stream of running
\* counts is settled at what it had reported so far.
Honest(i) ==
    /\ ~attempts[i].provider.partial_usage
    /\ upstream[i] # NoUsage =>
          /\ upstream[i].input <= attempts[i].reserved_input
          /\ upstream[i].output <= attempts[i].reserved_output

ConsumedOf(s) ==
    [i \in Nat |-> IF i \in AttemptsOf(s) /\ upstream[i] # NoUsage
                   THEN upstream[i].input + upstream[i].output ELSE 0]

\* What providers really consumed for a scope, failed, dropped and unreported
\* calls included, never exceeds the scope's token limit as long as every
\* provider keeps to its context window and output cap
\* (docs/design/model-budgets-design.md: the worst case is charged first).
RealSpendWithinLimit ==
    \A s \in Scopes :
        (scopes[s] # NoRow /\ \A i \in AttemptsOf(s) : Honest(i))
          => LET spent == Total(ConsumedOf(s), Len(attempts))
             IN  /\ spent <= scopes[s].tokens
                 /\ AtMost(spent, scopes[s].policy.max_tokens)

\* A scope is blocked exactly when one of its attempts overran, and then it
\* still names a reason (settle_model_budget's else branch).
BlockedByOverrun ==
    \A s \in Scopes : scopes[s] # NoRow =>
        /\ scopes[s].blocked <=> \E i \in AttemptsOf(s) : attempts[i].state = "overrun"
        /\ scopes[s].blocked => scopes[s].terminal_reason # NoReason

\* price is monotone: a settlement that keeps to its token reservation never
\* overruns its cost, so a cost overrun is always a token overrun.
CostOverrunIsTokenOverrun ==
    \A i \in DOMAIN attempts : attempts[i].state = "overrun" =>
        \/ attempts[i].observed_input > attempts[i].reserved_input
        \/ attempts[i].observed_output > attempts[i].reserved_output

\* A scope is blocked by overruns and by nothing else, and rounding causes none.
OverrunsBlock == BlockedByOverrun /\ CostOverrunIsTokenOverrun

\* Every call in flight owns its own unsettled reservation, so no two calls
\* settle one row (reserve commits before the upstream is contacted).
InFlightOwnsReservation ==
    \A c \in Callers : caller[c].pc # "idle" =>
        /\ attempts[caller[c].id].state = "reserved"
        /\ \A d \in Callers \ {c} : caller[d].pc # "idle" => caller[d].id # caller[c].id

\* A blocked scope admits nothing and stays blocked, across restarts and for
\* every caller ("An observed overrun blocks the scope permanently").
BlockedForGood ==
    [][\A s \in Scopes : scopes[s] # NoRow /\ scopes[s].blocked =>
            scopes'[s].blocked /\ scopes'[s].calls = scopes[s].calls]_vars

\* A stream that yielded an error item keeps its whole reservation, whatever
\* usage it reported before or after (`failed` in chat_completion_stream).
FailedStreamKeepsCharge ==
    [][\A c \in Callers : caller[c].failed =>
            attempts'[caller[c].id] = attempts[caller[c].id]]_vars

(***************************************************************************)
(* The inductive invariant of the proofs                                   *)
(***************************************************************************)
\* Every attempt row points at an existing scope row.
AttemptsHaveRows == \A i \in DOMAIN attempts : scopes[attempts[i].scope] # NoRow

\* A contacted upstream has a consumption; a settling call has usage to settle.
CallersConsistent ==
    \A c \in Callers :
        /\ caller[c].pc \in {"chat", "stream"} => upstream[caller[c].id] \in UsageType
        /\ caller[c].pc = "settling" => Settleable(caller[c].usage)

\* Only a stream carries the failed flag.
FailedIsStreaming == \A c \in Callers : caller[c].failed => caller[c].pc = "stream"

\* A reservation was charged at the provider's price.
ReservedAtPrice ==
    \A i \in DOMAIN attempts :
        attempts[i].reserved_cost =
            Price(attempts[i].provider, attempts[i].reserved_input, attempts[i].reserved_output)

\* usage covers what upstream call i consumed.
Covers(input, output, i) ==
    /\ upstream[i] \in UsageType
    /\ upstream[i].input <= input
    /\ upstream[i].output <= output

\* Without running counts, usage seen and usage settled is all that was consumed.
ReportsAreWhole ==
    /\ \A c \in Callers :
          (/\ caller[c].pc \in {"stream", "settling"}
           /\ caller[c].usage # NoUsage
           /\ ~attempts[caller[c].id].provider.partial_usage)
            => Covers(caller[c].usage.input, caller[c].usage.output, caller[c].id)
    /\ \A i \in DOMAIN attempts :
          attempts[i].state = "settled" /\ ~attempts[i].provider.partial_usage
            => Covers(attempts[i].observed_input, attempts[i].observed_output, i)

IndInv ==
    /\ TypeOK
    /\ WithinLimits
    /\ InFlightOwnsReservation
    /\ BlockedByOverrun
    /\ AttemptsHaveRows
    /\ CallersConsistent

\* The second layer: what the ledger charges and what was consumed.
ChargeInv ==
    /\ LedgerBalanced
    /\ ReservedAtPrice
    /\ CostOverrunIsTokenOverrun
    /\ ReportsAreWhole
    /\ FailedIsStreaming
=============================================================================
