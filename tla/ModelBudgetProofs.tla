------------------------- MODULE ModelBudgetProofs -------------------------
(***************************************************************************)
(* Proofs about ModelBudget, for every set of callers, scopes, policies,   *)
(* providers, requests and usages.                                         *)
(***************************************************************************)
EXTENDS ModelBudget, FiniteSetTheorems, WellFoundedInduction, TLAPS

(***************************************************************************)
(* Totals.  The induction theorems of the library are stated for operators;*)
(* induction is done here with the property given as a set, from the fact  *)
(* that the order of the natural numbers is well-founded.                  *)
(***************************************************************************)
\* Every nonempty set of natural numbers has a least element.
LEMMA LeastElement ==
    ASSUME NEW T \in SUBSET Nat, T # {}
    PROVE  \E x \in T : \A y \in T : x <= y
<1> DEFINE R == OpToRel(<, Nat)
<1>1. IsWellFoundedOn(R, Nat)
  BY NatLessThanWellFounded
<1>2. \A x, y \in Nat : x < y => <<x, y>> \in R
  BY DEF OpToRel
<1> HIDE DEF R
<1>3. PICK x \in T : \A y \in T : ~ (<<y, x>> \in R)
  BY <1>1, WFMin
<1>4. ASSUME NEW y \in T PROVE x <= y
  <2>1. x \in Nat /\ y \in Nat
    OBVIOUS
  <2>2. ~ (y < x)
    BY <1>2, <1>3, <2>1
  <2> QED
    BY <2>1, <2>2
<1> QED
  BY <1>4

\* Induction over the natural numbers, with the property given as a set.
LEMMA Induction ==
    ASSUME NEW P \in SUBSET Nat, 0 \in P, \A n \in P : n + 1 \in P
    PROVE  \A n \in Nat : n \in P
<1> SUFFICES ASSUME Nat \ P # {} PROVE FALSE
  OBVIOUS
<1>1. PICK x \in Nat \ P : \A y \in Nat \ P : x <= y
  BY LeastElement
<1>2. x # 0 /\ x - 1 \in Nat
  BY <1>1
<1>3. x - 1 \in P
  BY <1>1, <1>2
<1>4. (x - 1) + 1 \in P
  BY <1>3
<1> QED
  BY <1>2, <1>4

\* The partial sums of v up to n.
SumsTo(v, n, f) ==
    /\ f \in [0..n -> Int]
    /\ f[0] = 0
    /\ \A k \in 1..n : f[k] = f[k - 1] + v[k]

\* Partial sums exist up to every n.
LEMMA SumsExist ==
    ASSUME NEW v \in [Nat -> Int]
    PROVE  \A n \in Nat : \E f : SumsTo(v, n, f)
<1> DEFINE P == {n \in Nat : \E f : SumsTo(v, n, f)}
<1>1. 0 \in P
  <2>1. SumsTo(v, 0, [k \in 0..0 |-> 0])
    BY DEF SumsTo
  <2> QED
    BY <2>1
<1>2. ASSUME NEW n \in P PROVE n + 1 \in P
  <2>1. PICK f : SumsTo(v, n, f)
    OBVIOUS
  <2> DEFINE g == [k \in 0..(n + 1) |-> IF k = n + 1 THEN f[n] + v[n + 1] ELSE f[k]]
  <2>2. n \in Nat /\ f \in [0..n -> Int] /\ v[n + 1] \in Int /\ f[n] \in Int
    BY <2>1 DEF SumsTo
  <2>3. g \in [0..(n + 1) -> Int]
    BY <2>2
  <2>4. g[0] = 0
    BY <2>1, <2>2 DEF SumsTo
  <2>5. ASSUME NEW k \in 1..(n + 1) PROVE g[k] = g[k - 1] + v[k]
    <3>1. CASE k = n + 1
      BY <2>2, <3>1
    <3>2. CASE k # n + 1
      <4>1. k \in 1..n /\ k \in 0..(n + 1) /\ k - 1 \in 0..(n + 1) /\ k - 1 # n + 1
        BY <2>2, <3>2
      <4>2. f[k] = f[k - 1] + v[k]
        BY <2>1, <4>1 DEF SumsTo
      <4> QED
        BY <3>2, <4>1, <4>2
    <3> QED
      BY <3>1, <3>2
  <2> HIDE DEF g
  <2>6. SumsTo(v, n + 1, g)
    BY <2>3, <2>4, <2>5 DEF SumsTo
  <2> QED
    BY <2>2, <2>6
<1> HIDE DEF P
<1>3. \A n \in Nat : n \in P
  <2>1. P \in SUBSET Nat
    BY DEF P
  <2> QED
    BY <1>1, <1>2, <2>1, Induction
<1> QED
  BY <1>3 DEF P

\* Partial sums of the same values agree.
LEMMA SumsAgree ==
    ASSUME NEW v \in [Nat -> Int], NEW m \in Nat, NEW n \in Nat, m <= n,
           NEW f, NEW g, SumsTo(v, m, f), SumsTo(v, n, g)
    PROVE  \A k \in 0..m : f[k] = g[k]
<1> DEFINE P == {k \in Nat : k <= m => f[k] = g[k]}
<1>1. 0 \in P
  BY DEF SumsTo
<1>2. ASSUME NEW k \in P PROVE k + 1 \in P
  <2> SUFFICES ASSUME k + 1 <= m PROVE f[k + 1] = g[k + 1]
    OBVIOUS
  <2>1. k + 1 \in 1..m /\ k + 1 \in 1..n /\ (k + 1) - 1 = k
    OBVIOUS
  <2>2. f[k + 1] = f[k] + v[k + 1] /\ g[k + 1] = g[k] + v[k + 1]
    BY <2>1 DEF SumsTo
  <2> QED
    BY <2>2
<1> HIDE DEF P
<1>3. \A k \in Nat : k \in P
  <2>1. P \in SUBSET Nat
    BY DEF P
  <2> QED
    BY <1>1, <1>2, <2>1, Induction
<1> QED
  BY <1>3 DEF P

\* The defining equations of Total: the recursive function exists.
LEMMA TotalDef ==
    ASSUME NEW v \in [Nat -> Int]
    PROVE  /\ Total(v, 0) = 0
           /\ \A n \in Nat : Total(v, n) \in Int
           /\ \A n \in Nat : Total(v, n + 1) = Total(v, n) + v[n + 1]
<1> DEFINE Sums(n) == CHOOSE f : SumsTo(v, n, f)
           F == [n \in Nat |-> Sums(n)[n]]
           sum == CHOOSE f : f = [k \in Nat |-> IF k = 0 THEN 0 ELSE f[k - 1] + v[k]]
<1>1. \A n \in Nat : SumsTo(v, n, Sums(n))
  BY SumsExist
<1> HIDE DEF Sums
<1>2. F[0] = 0
  BY <1>1 DEF SumsTo
<1>3. ASSUME NEW n \in Nat, n # 0 PROVE F[n] = F[n - 1] + v[n]
  <2>1. n \in 1..n /\ n - 1 \in Nat /\ n - 1 \in 0..(n - 1)
    BY <1>3
  <2>2. Sums(n)[n] = Sums(n)[n - 1] + v[n]
    BY <1>1, <2>1 DEF SumsTo
  <2>3. Sums(n - 1)[n - 1] = Sums(n)[n - 1]
    <3>1. SumsTo(v, n - 1, Sums(n - 1)) /\ SumsTo(v, n, Sums(n)) /\ n - 1 <= n
      BY <1>1, <2>1
    <3> QED
      BY <2>1, <3>1, SumsAgree
  <2> QED
    BY <2>1, <2>2, <2>3
<1> HIDE DEF F
<1>4. F = [k \in Nat |-> IF k = 0 THEN 0 ELSE F[k - 1] + v[k]]
  <2>1. F = [n \in Nat |-> F[n]]
    BY DEF F
  <2> QED
    BY <1>2, <1>3, <2>1
<1>5. sum = [k \in Nat |-> IF k = 0 THEN 0 ELSE sum[k - 1] + v[k]]
  BY <1>4
<1>6. \A n : Total(v, n) = sum[n]
  BY DEF Total
<1> HIDE DEF sum
<1>7. sum[0] = 0 /\ \A n \in Nat : sum[n + 1] = sum[n] + v[n + 1]
  <2>1. sum[0] = 0
    BY <1>5
  <2>2. ASSUME NEW n \in Nat PROVE sum[n + 1] = sum[n] + v[n + 1]
    <3>1. n + 1 \in Nat /\ n + 1 # 0 /\ (n + 1) - 1 = n
      OBVIOUS
    <3> QED
      BY <1>5, <3>1
  <2> QED
    BY <2>1, <2>2
<1>8. \A n \in Nat : sum[n] \in Int
  <2> DEFINE P == {n \in Nat : sum[n] \in Int}
  <2>1. 0 \in P /\ P \in SUBSET Nat
    BY <1>7
  <2>2. \A n \in P : n + 1 \in P
    BY <1>7
  <2> HIDE DEF P
  <2>3. \A n \in Nat : n \in P
    BY <2>1, <2>2, Induction
  <2> QED
    BY <2>3 DEF P
<1> QED
  BY <1>6, <1>7, <1>8

\* Only the first n values count.
LEMMA TotalSame ==
    ASSUME NEW v \in [Nat -> Int], NEW w \in [Nat -> Int], NEW n \in Nat,
           \A i \in 1..n : v[i] = w[i]
    PROVE  Total(v, n) = Total(w, n)
<1> DEFINE P == {k \in Nat : k <= n => Total(v, k) = Total(w, k)}
<1>1. 0 \in P /\ P \in SUBSET Nat
  BY TotalDef
<1>2. ASSUME NEW k \in P PROVE k + 1 \in P
  <2> SUFFICES ASSUME k + 1 <= n PROVE Total(v, k + 1) = Total(w, k + 1)
    OBVIOUS
  <2>1. k \in Nat /\ k + 1 \in 1..n /\ Total(v, k) = Total(w, k)
    OBVIOUS
  <2> QED
    BY <2>1, TotalDef
<1> HIDE DEF P
<1>3. n \in P
  BY <1>1, <1>2, Induction
<1> QED
  BY <1>3 DEF P

\* Changing one of the first n values changes the total by the difference.
LEMMA TotalUpdate ==
    ASSUME NEW v \in [Nat -> Int], NEW w \in [Nat -> Int], NEW n \in Nat,
           NEW j \in 1..n, \A i \in 1..n : i # j => w[i] = v[i]
    PROVE  Total(w, n) = Total(v, n) + (w[j] - v[j])
<1> DEFINE P == {k \in Nat : j <= k /\ k <= n => Total(w, k) = Total(v, k) + (w[j] - v[j])}
<1>1. 0 \in P /\ P \in SUBSET Nat
  OBVIOUS
<1>2. ASSUME NEW k \in P PROVE k + 1 \in P
  <2> SUFFICES ASSUME j <= k + 1, k + 1 <= n
               PROVE  Total(w, k + 1) = Total(v, k + 1) + (w[j] - v[j])
    OBVIOUS
  <2>1. /\ k \in Nat /\ k + 1 \in 1..n /\ j \in Nat
        /\ v[k + 1] \in Int /\ w[k + 1] \in Int /\ v[j] \in Int /\ w[j] \in Int
        /\ Total(v, k) \in Int /\ Total(w, k) \in Int
        /\ Total(v, k + 1) = Total(v, k) + v[k + 1]
        /\ Total(w, k + 1) = Total(w, k) + w[k + 1]
    BY TotalDef
  <2>2. CASE j = k + 1
    <3>1. Total(v, k) = Total(w, k)
      <4>1. \A i \in 1..k : v[i] = w[i]
        BY <2>2, <2>1
      <4> QED
        BY <2>1, <4>1, TotalSame
    <3> QED
      BY <2>1, <2>2, <3>1
  <2>3. CASE j # k + 1
    <3>1. Total(w, k) = Total(v, k) + (w[j] - v[j]) /\ w[k + 1] = v[k + 1]
      BY <2>1, <2>3
    <3> QED
      BY <2>1, <3>1
  <2> QED
    BY <2>2, <2>3
<1> HIDE DEF P
<1>3. n \in P
  BY <1>1, <1>2, Induction
<1> QED
  BY <1>3 DEF P

\* A total of smaller values is smaller.
LEMMA TotalAtMost ==
    ASSUME NEW v \in [Nat -> Int], NEW w \in [Nat -> Int], NEW n \in Nat,
           \A i \in 1..n : v[i] <= w[i]
    PROVE  Total(v, n) <= Total(w, n)
<1> DEFINE P == {k \in Nat : k <= n => Total(v, k) <= Total(w, k)}
<1>1. 0 \in P /\ P \in SUBSET Nat
  BY TotalDef
<1>2. ASSUME NEW k \in P PROVE k + 1 \in P
  <2> SUFFICES ASSUME k + 1 <= n PROVE Total(v, k + 1) <= Total(w, k + 1)
    OBVIOUS
  <2>1. /\ k \in Nat /\ k + 1 \in 1..n /\ Total(v, k) <= Total(w, k)
        /\ v[k + 1] \in Int /\ w[k + 1] \in Int /\ v[k + 1] <= w[k + 1]
    OBVIOUS
  <2>2. /\ Total(v, k) \in Int /\ Total(w, k) \in Int
        /\ Total(v, k + 1) = Total(v, k) + v[k + 1]
        /\ Total(w, k + 1) = Total(w, k) + w[k + 1]
    BY <2>1, TotalDef
  <2> QED
    BY <2>1, <2>2
<1> HIDE DEF P
<1>3. n \in P
  BY <1>1, <1>2, Induction
<1> QED
  BY <1>3 DEF P

\* A total of zeros is zero.
LEMMA TotalZero ==
    ASSUME NEW v \in [Nat -> Int], NEW n \in Nat, \A i \in 1..n : v[i] = 0
    PROVE  Total(v, n) = 0
<1> DEFINE P == {k \in Nat : k <= n => Total(v, k) = 0}
<1>1. 0 \in P /\ P \in SUBSET Nat
  BY TotalDef
<1>2. ASSUME NEW k \in P PROVE k + 1 \in P
  <2> SUFFICES ASSUME k + 1 <= n PROVE Total(v, k + 1) = 0
    OBVIOUS
  <2>1. k \in Nat /\ k + 1 \in 1..n /\ Total(v, k) = 0 /\ v[k + 1] = 0
    OBVIOUS
  <2> QED
    BY <2>1, TotalDef
<1> HIDE DEF P
<1>3. n \in P
  BY <1>1, <1>2, Induction
<1> QED
  BY <1>3 DEF P

(***************************************************************************)
(* Prices                                                                  *)
(***************************************************************************)
\* A product grows with its first factor.
LEMMA ProductMonotone ==
    ASSUME NEW k \in Nat, NEW m \in Nat, NEW n \in Nat, m <= n
    PROVE  m * k <= n * k
OBVIOUS

\* What division by d yields.
LEMMA DivBounds ==
    ASSUME NEW n \in Nat, NEW d \in Nat \ {0}
    PROVE  /\ n \div d \in Nat
           /\ d * (n \div d) <= n
           /\ n < d * (n \div d) + d
OBVIOUS

\* Division by d is monotone.
LEMMA DivMonotone ==
    ASSUME NEW m \in Nat, NEW n \in Nat, NEW d \in Nat \ {0}, m <= n
    PROVE  m \div d <= n \div d
<1> DEFINE p == m \div d
           q == n \div d
<1>1. p \in Nat /\ q \in Nat /\ d * p <= m /\ n < d * q + d
  BY DivBounds
<1> HIDE DEF p, q
<1>2. SUFFICES ASSUME p >= q + 1 PROVE FALSE
  BY <1>1 DEF p, q
<1>3. d * (q + 1) <= d * p
  BY <1>1, <1>2
<1>4. d * (q + 1) = d * q + d
  BY <1>1
<1>5. d * q \in Int /\ d * p \in Int /\ d * (q + 1) \in Int
  BY <1>1
<1> QED
  BY <1>1, <1>3, <1>4, <1>5

\* Rounding up is monotone.
LEMMA CeilDivMonotone ==
    ASSUME NEW m \in Nat, NEW n \in Nat, NEW d \in Nat \ {0}, m <= n
    PROVE  CeilDiv(m, d) <= CeilDiv(n, d)
<1>1. m + d - 1 \in Nat /\ n + d - 1 \in Nat /\ m + d - 1 <= n + d - 1
  OBVIOUS
<1> QED
  BY <1>1, DivMonotone DEF CeilDiv

\* Checked addition yields a natural number within i64 or the overflow mark.
LEMMA CheckedAddType ==
    ASSUME NEW a \in Int, NEW b \in Int, a >= -1, b >= -1
    PROVE  /\ CheckedAdd(a, b) \in Int
           /\ CheckedAdd(a, b) # Overflow =>
                /\ CheckedAdd(a, b) = a + b
                /\ a + b <= I64Max
                /\ a # Overflow /\ b # Overflow
BY ConstantsAssumption DEF CheckedAdd, Overflow

\* Ceiling division of a natural number is a natural number.
LEMMA CeilDivType ==
    ASSUME NEW n \in Nat, NEW d \in Nat \ {0}
    PROVE  CeilDiv(n, d) \in Nat
BY DEF CeilDiv

\* A product of natural numbers is a natural number.
LEMMA ProductType ==
    ASSUME NEW m \in Nat, NEW n \in Nat
    PROVE  m * n \in Nat
OBVIOUS

\* A price is a natural number or the overflow mark.
LEMMA PriceType ==
    ASSUME NEW p \in Providers, NEW input \in Nat, NEW output \in Nat
    PROVE  /\ Price(p, input, output) \in Int
           /\ Price(p, input, output) >= -1
<1>1. p.input_rate \in Nat /\ p.output_rate \in Nat
  BY ConstantsAssumption DEF ProviderType
<1>2. ASSUME NEW t \in Nat, NEW rate \in Nat
      PROVE  TokenCost(t, rate) \in Int /\ TokenCost(t, rate) >= -1
  <2>1. t * rate \in Nat
    BY ProductType
  <2>2. CeilDiv(t * rate, RateUnit) \in Nat
    BY <2>1, CeilDivType, ConstantsAssumption
  <2> QED
    BY <2>2 DEF TokenCost, Overflow
<1>3. /\ TokenCost(input, p.input_rate) \in Int
      /\ TokenCost(input, p.input_rate) >= -1
      /\ TokenCost(output, p.output_rate) \in Int
      /\ TokenCost(output, p.output_rate) >= -1
  BY <1>1, <1>2
<1> QED
  BY <1>3, ConstantsAssumption DEF Price, CheckedAdd, Overflow

\* What a reservation reads and charges.
LEMMA ChargeType ==
    ASSUME NEW policy \in Policies, NEW p \in Providers, NEW r \in Requests,
           Bounded(policy, p, r)
    PROVE  /\ Charge(policy, p, r).input \in Nat
           /\ Charge(policy, p, r).output \in Nat
           /\ Charge(policy, p, r).cost \in Nat
<1> DEFINE out == OutputAllowance(policy, r)
<1>1. p.context_window \in Nat
  BY ConstantsAssumption DEF ProviderType
<1>2. out \in Nat
  BY ConstantsAssumption DEF OutputAllowance, PolicyType, RequestType, NoLimit
<1>3. /\ Price(p, p.context_window, out) \in Int
      /\ Price(p, p.context_window, out) >= -1
  BY <1>1, <1>2, PriceType
<1>4. Price(p, p.context_window, out) # -1
  BY DEF Bounded, Charge, Overflow
<1> QED
  BY <1>1, <1>2, <1>3, <1>4 DEF Charge

\* The row a reservation reads is a well-formed row within its limits.
LEMMA RowWithinLimits ==
    ASSUME IndInv, NEW s \in Scopes, NEW policy \in Policies
    PROVE  /\ Row(s, policy) \in RowType
           /\ AtMost(Row(s, policy).calls, Row(s, policy).policy.max_calls)
           /\ AtMost(Row(s, policy).tokens, Row(s, policy).policy.max_tokens)
           /\ AtMost(Row(s, policy).cost, Row(s, policy).policy.max_cost)
<1>1. CASE scopes[s] = NoRow
  <2>1. policy \in PolicyType /\ ValidPolicy(policy)
    BY ConstantsAssumption
  <2>2. \A limit \in {policy.max_calls, policy.max_tokens, policy.max_cost} : AtMost(0, limit)
    BY <2>1, ConstantsAssumption DEF ValidPolicy, AtMost, NoLimit
  <2> QED
    BY <1>1, <2>2 DEF Row, ScopeRow, RowType, NoReason
<1>2. CASE scopes[s] # NoRow
  BY <1>2 DEF Row, IndInv, TypeOK, WithinLimits
<1> QED
  BY <1>1, <1>2

\* An admitted reservation leaves the row within its limits.
LEMMA AdmittedWithinLimits ==
    ASSUME NEW row \in RowType, NEW policy \in Policies, NEW charge,
           charge.input \in Nat, charge.output \in Nat, charge.cost \in Nat,
           DenialReason(row, policy, charge) = NoReason
    PROVE  /\ row.policy = policy
           /\ ~row.blocked
           /\ AtMost(row.calls + 1, policy.max_calls)
           /\ NewTokens(row, charge) \in Int
           /\ AtMost(NewTokens(row, charge), policy.max_tokens)
           /\ CheckedAdd(row.cost, charge.cost) \in Int
           /\ AtMost(CheckedAdd(row.cost, charge.cost), policy.max_cost)
<1>1. ASSUME NEW a \in Int, NEW b \in Int, NEW limit \in Int,
             ~Exceeds(CheckedAdd(a, b), limit)
      PROVE  /\ CheckedAdd(a, b) \in Int
             /\ AtMost(CheckedAdd(a, b), limit)
             /\ CheckedAdd(a, b) = a + b
  BY <1>1, ConstantsAssumption DEF CheckedAdd, Exceeds, AtMost, Overflow
<1>2. policy.max_calls \in Int /\ policy.max_tokens \in Int /\ policy.max_cost \in Int
  BY ConstantsAssumption DEF PolicyType
<1>3. row.calls \in Int /\ row.tokens \in Int /\ row.cost \in Int
  BY DEF RowType
<1>4. /\ row.policy = policy
      /\ ~row.blocked
      /\ ~Exceeds(CheckedAdd(row.calls, 1), policy.max_calls)
      /\ ~Exceeds(NewTokens(row, charge), policy.max_tokens)
      /\ ~Exceeds(CheckedAdd(row.cost, charge.cost), policy.max_cost)
  BY DEF DenialReason, NoReason
<1>5. CheckedAdd(charge.input, charge.output) \in Int
  BY ConstantsAssumption DEF CheckedAdd, Overflow
<1>6. /\ NewTokens(row, charge) \in Int
      /\ AtMost(NewTokens(row, charge), policy.max_tokens)
  BY <1>1, <1>2, <1>3, <1>4, <1>5 DEF NewTokens
<1> QED
  BY <1>1, <1>2, <1>3, <1>4, <1>6

\* Every attempt row has a known scope and provider.
LEMMA AttemptScopes ==
    ASSUME TypeOK, NEW i \in DOMAIN attempts
    PROVE  /\ attempts[i] \in AttemptType
           /\ attempts[i].scope \in Scopes
           /\ attempts[i].provider \in Providers
<1>1. attempts[i] \in AttemptType
  BY DEF TypeOK
<1> QED
  BY <1>1 DEF AttemptType

\* The initial state satisfies the inductive invariant.
LEMMA InitIndInv == Init => IndInv
<1> SUFFICES ASSUME Init PROVE IndInv
  OBVIOUS
<1>1. Idle \in CallerType /\ Idle.pc = "idle"
  BY DEF Idle, CallState, CallerType
<1>2. TypeOK
  BY <1>1 DEF Init, TypeOK
<1> QED
  BY <1>1, <1>2 DEF Init, IndInv, WithinLimits, InFlightOwnsReservation,
     BlockedByOverrun, AttemptsHaveRows, CallersConsistent

\* A denial keeps the invariant: it may only open a row and name a reason.
LEMMA ReserveDeniedStep ==
    ASSUME IndInv, NEW c \in Callers, NEW s \in Scopes, NEW policy \in Policies,
           NEW p \in Providers, NEW r \in Requests,
           ReserveDenied(c, s, policy, p, r)
    PROVE  IndInv'
<1> DEFINE row == Row(s, policy)
           reason == DenialReason(row, policy, Charge(policy, p, r))
           new == [row EXCEPT !.terminal_reason = reason]
<1>1. row \in RowType
  BY RowWithinLimits
<1>2. reason \in DenialReasons
  BY DEF ReserveDenied, DenialReason, DenialReasons, NoReason
<1>3. /\ new \in RowType
      /\ new.policy = row.policy /\ new.calls = row.calls /\ new.tokens = row.tokens
      /\ new.cost = row.cost /\ new.blocked = row.blocked
      /\ new.terminal_reason = reason
  BY <1>1, <1>2 DEF RowType
<1>4. scopes' = [scopes EXCEPT ![s] = new] /\ UNCHANGED <<attempts, caller, upstream>>
  BY DEF ReserveDenied
<1>5. scopes \in [Scopes -> RowType \cup {NoRow}]
  BY DEF IndInv, TypeOK
<1>6. scopes'[s] = new /\ \A t \in Scopes \ {s} : scopes'[t] = scopes[t]
  BY <1>4, <1>5
<1>7. TypeOK'
  BY <1>3, <1>4 DEF IndInv, TypeOK
<1>8. WithinLimits'
  <2> HIDE DEF row, reason, new
  <2>1. /\ AtMost(row.calls, row.policy.max_calls)
        /\ AtMost(row.tokens, row.policy.max_tokens)
        /\ AtMost(row.cost, row.policy.max_cost)
    BY RowWithinLimits DEF row
  <2> QED
    BY <2>1, <1>3, <1>6 DEF IndInv, WithinLimits
<1>9. AttemptsHaveRows'
  <2>1. new # NoRow
    BY <1>3, SentinelsAssumption
  <2> QED
    BY <2>1, <1>4, <1>6, AttemptScopes DEF IndInv, AttemptsHaveRows
<1>10. BlockedByOverrun'
  <2> SUFFICES ASSUME NEW t \in Scopes, scopes'[t] # NoRow
               PROVE  /\ scopes'[t].blocked <=>
                            \E i \in AttemptsOf(t) : attempts[i].state = "overrun"
                      /\ scopes'[t].blocked => scopes'[t].terminal_reason # NoReason
    BY <1>4 DEF BlockedByOverrun, AttemptsOf
  <2>1. CASE t # s
    BY <2>1, <1>6 DEF IndInv, BlockedByOverrun
  <2>2. CASE t = s /\ scopes[s] # NoRow
    BY <2>2, <1>2, <1>3, <1>6 DEF IndInv, BlockedByOverrun, Row, DenialReasons, NoReason
  <2>3. CASE t = s /\ scopes[s] = NoRow
    <3>1. ~row.blocked
      BY <2>3 DEF Row, ScopeRow
    <3>2. AttemptsOf(s) = {}
      BY <2>3 DEF AttemptsOf, IndInv, AttemptsHaveRows
    <3> QED
      BY <2>3, <3>1, <3>2, <1>3, <1>6
  <2> QED
    BY <2>1, <2>2, <2>3
<1>11. InFlightOwnsReservation' /\ CallersConsistent'
  BY <1>4 DEF IndInv, InFlightOwnsReservation, CallersConsistent, Settleable
<1> QED
  BY <1>7, <1>8, <1>9, <1>10, <1>11 DEF IndInv

\* An admission keeps the invariant: the new totals are within the limits and
\* the new attempt belongs to this caller alone.
LEMMA ReserveStep ==
    ASSUME IndInv, NEW c \in Callers, NEW s \in Scopes, NEW policy \in Policies,
           NEW p \in Providers, NEW r \in Requests,
           Reserve(c, s, policy, p, r)
    PROVE  IndInv'
<1> DEFINE row == Row(s, policy)
           charge == Charge(policy, p, r)
           new == ScopeRow(row.policy, row.calls + 1, NewTokens(row, charge),
                           CheckedAdd(row.cost, charge.cost),
                           row.blocked, row.terminal_reason)
           a == AttemptRow(s, p, charge.input, charge.output, charge.cost,
                           "reserved", Unobserved)
           me == CallState("reserved", Len(attempts) + 1, NoUsage, FALSE, FALSE)
<1> USE DEF IndInv
<1>1. row \in RowType
  BY RowWithinLimits
<1>2. charge.input \in Nat /\ charge.output \in Nat /\ charge.cost \in Nat
  BY ChargeType DEF Reserve
<1>3. /\ row.policy = policy
      /\ ~row.blocked
      /\ AtMost(row.calls + 1, policy.max_calls)
      /\ NewTokens(row, charge) \in Int
      /\ AtMost(NewTokens(row, charge), policy.max_tokens)
      /\ CheckedAdd(row.cost, charge.cost) \in Int
      /\ AtMost(CheckedAdd(row.cost, charge.cost), policy.max_cost)
  <2>1. DenialReason(row, policy, charge) = NoReason
    BY DEF Reserve
  <2> HIDE DEF row, charge
  <2> QED
    BY <1>1, <1>2, <2>1, AdmittedWithinLimits
<1>4. /\ new \in RowType
      /\ new.policy = policy /\ new.calls = row.calls + 1
      /\ new.tokens = NewTokens(row, charge)
      /\ new.cost = CheckedAdd(row.cost, charge.cost)
      /\ ~new.blocked
  <2> HIDE DEF row, charge
  <2> QED
    BY <1>1, <1>3 DEF ScopeRow, RowType
<1>5. /\ scopes' = [scopes EXCEPT ![s] = new]
      /\ attempts' = Append(attempts, a)
      /\ upstream' = Append(upstream, NoUsage)
      /\ caller' = [caller EXCEPT ![c] = me]
  BY DEF Reserve
<1>6. a \in AttemptType /\ a.scope = s /\ a.state = "reserved"
  BY <1>2 DEF AttemptRow, Unobserved, AttemptType, AttemptStates
<1>7. me \in CallerType /\ me.pc = "reserved" /\ me.id = Len(attempts) + 1
  <2>1. Len(attempts) + 1 \in Nat
    BY DEF TypeOK
  <2> QED
    BY <2>1 DEF CallState, CallerType
<1> HIDE DEF row, charge, new, a, me
<1>8. /\ scopes \in [Scopes -> RowType \cup {NoRow}]
      /\ attempts \in Seq(AttemptType)
      /\ caller \in [Callers -> CallerType]
      /\ upstream \in Seq(UsageType \cup {NoUsage})
      /\ Len(upstream) = Len(attempts)
  BY DEF TypeOK
<1>9. /\ scopes'[s] = new /\ \A t \in Scopes \ {s} : scopes'[t] = scopes[t]
      /\ caller'[c] = me /\ \A d \in Callers \ {c} : caller'[d] = caller[d]
  BY <1>5, <1>8
<1>10. /\ attempts' \in Seq(AttemptType)
       /\ Len(attempts') = Len(attempts) + 1
       /\ DOMAIN attempts' = DOMAIN attempts \cup {Len(attempts) + 1}
       /\ Len(attempts) + 1 \notin DOMAIN attempts
       /\ attempts'[Len(attempts) + 1] = a
       /\ \A i \in DOMAIN attempts : attempts'[i] = attempts[i]
  BY <1>5, <1>6, <1>8
<1>11. /\ upstream' \in Seq(UsageType \cup {NoUsage})
       /\ Len(upstream') = Len(attempts')
       /\ \A i \in DOMAIN attempts : upstream'[i] = upstream[i]
  BY <1>5, <1>8, <1>10
<1>12. TypeOK'
  <2>1. /\ scopes' \in [Scopes -> RowType \cup {NoRow}]
        /\ caller' \in [Callers -> CallerType]
    BY <1>4, <1>5, <1>7, <1>8
  <2>2. \A d \in Callers : caller'[d].pc # "idle" => caller'[d].id \in DOMAIN attempts'
    BY <1>7, <1>9, <1>10 DEF TypeOK
  <2> QED
    BY <2>1, <2>2, <1>10, <1>11 DEF TypeOK
<1>13. WithinLimits'
  BY <1>3, <1>4, <1>9 DEF WithinLimits
<1>14. AttemptsHaveRows'
  <2>1. new # NoRow
    BY <1>4, SentinelsAssumption
  <2> QED
    BY <2>1, AttemptScopes, <1>6, <1>9, <1>10 DEF AttemptsHaveRows
<1>15. BlockedByOverrun'
  <2>1. \A t \in Scopes : (\E i \in AttemptsOf(t)' : attempts'[i].state = "overrun")
                           <=> (\E i \in AttemptsOf(t) : attempts[i].state = "overrun")
    BY <1>6, <1>10 DEF AttemptsOf
  <2>2. ASSUME NEW t \in Scopes \ {s}, scopes'[t] # NoRow
        PROVE  /\ scopes'[t].blocked <=>
                      \E i \in AttemptsOf(t) : attempts[i].state = "overrun"
               /\ scopes'[t].blocked => scopes'[t].terminal_reason # NoReason
    BY <2>2, <1>9 DEF BlockedByOverrun
  <2>3. ~ \E i \in AttemptsOf(s) : attempts[i].state = "overrun"
    BY <1>3 DEF row, Row, BlockedByOverrun, AttemptsHaveRows, AttemptsOf
  <2> QED
    BY <2>1, <2>2, <2>3, <1>4, <1>9 DEF BlockedByOverrun
<1>16. InFlightOwnsReservation'
  BY <1>6, <1>7, <1>9, <1>10 DEF InFlightOwnsReservation, TypeOK
<1>17. CallersConsistent'
  BY <1>7, <1>9, <1>11 DEF CallersConsistent, TypeOK
<1> QED
  BY <1>12, <1>13, <1>14, <1>15, <1>16, <1>17

\* A step that only moves one caller, to a state that is consistent with its
\* attempt, keeps the invariant.
LEMMA CallerStep ==
    ASSUME IndInv, NEW c \in Callers, NEW new \in CallerType,
           UNCHANGED <<scopes, attempts>>,
           caller' = [caller EXCEPT ![c] = new],
           upstream' \in Seq(UsageType \cup {NoUsage}),
           Len(upstream') = Len(upstream),
           \A i \in DOMAIN attempts : i # caller[c].id => upstream'[i] = upstream[i],
           new.pc # "idle" => caller[c].pc # "idle" /\ new.id = caller[c].id,
           new.pc \in {"chat", "stream"} => upstream'[new.id] \in UsageType,
           new.pc = "settling" => Settleable(new.usage),
           new.pc = "idle" => upstream' = upstream
    PROVE  IndInv'
<1> USE DEF IndInv
<1>1. caller'[c] = new /\ \A d \in Callers \ {c} : caller'[d] = caller[d]
  BY DEF TypeOK
<1>2. TypeOK'
  <2>1. caller' \in [Callers -> CallerType]
    BY DEF TypeOK
  <2>2. \A d \in Callers : caller'[d].pc # "idle" => caller'[d].id \in DOMAIN attempts
    BY <1>1 DEF TypeOK
  <2> QED
    BY <2>1, <2>2 DEF TypeOK
<1>3. WithinLimits' /\ BlockedByOverrun' /\ AttemptsHaveRows'
  BY DEF WithinLimits, BlockedByOverrun, AttemptsHaveRows, AttemptsOf
<1>4. InFlightOwnsReservation'
  BY <1>1 DEF InFlightOwnsReservation
<1>5. CallersConsistent'
  <2> SUFFICES ASSUME NEW d \in Callers
               PROVE  /\ caller'[d].pc \in {"chat", "stream"} =>
                              upstream'[caller'[d].id] \in UsageType
                      /\ caller'[d].pc = "settling" => Settleable(caller'[d].usage)
    BY DEF CallersConsistent, Settleable
  <2>1. CASE d = c
    BY <2>1, <1>1
  <2>2. CASE d # c /\ caller[c].pc # "idle"
    BY <2>2, <1>1 DEF CallersConsistent, InFlightOwnsReservation, TypeOK
  <2>3. CASE d # c /\ caller[c].pc = "idle"
    BY <2>3, <1>1 DEF CallersConsistent
  <2> QED
    BY <2>1, <2>2, <2>3
<1> QED
  BY <1>2, <1>3, <1>4, <1>5

\* The usage a response or a stream item carries is well formed.
LEMMA ReportIsTyped ==
    ASSUME NEW source \in {"ProviderReported", "Estimated"}, NEW cache \in CacheTokens,
           NEW u \in UsageType
    PROVE  Report(source, u, cache) \in ReportType
BY ConstantsAssumption DEF Report, ReportType, UsageType

\* The upstream call and everything that follows it up to the settlement.
LEMMA UpstreamSteps ==
    ASSUME IndInv, NEW c \in Callers,
           \/ \E mode \in {"chat", "stream"}, consumed \in Usages : Call(c, mode, consumed)
           \/ \E source \in {"ProviderReported", "Estimated"}, cache \in CacheTokens :
                 \/ ChatResponse(c, source, cache)
                 \/ \E sofar \in Usages : StreamUsage(c, source, cache, sofar)
           \/ StreamError(c)
           \/ StreamEnd(c)
           \/ Abandon(c)
    PROVE  IndInv'
<1>1. /\ caller \in [Callers -> CallerType]
      /\ caller[c] \in CallerType
      /\ upstream \in Seq(UsageType \cup {NoUsage})
      /\ Len(upstream) = Len(attempts)
      /\ caller[c].pc # "idle" => caller[c].id \in DOMAIN attempts
  BY DEF IndInv, TypeOK
<1>2. Idle \in CallerType /\ Idle.pc = "idle"
  BY DEF Idle, CallState, CallerType
<1>4. ASSUME NEW mode \in {"chat", "stream"}, NEW consumed \in Usages,
             Call(c, mode, consumed)
      PROVE  IndInv'
  <2> DEFINE new == CallState(mode, caller[c].id, NoUsage, FALSE, FALSE)
  <2>1. new \in CallerType /\ new.pc = mode /\ new.id = caller[c].id
    BY <1>1 DEF CallState, CallerType
  <2>2. caller' = [caller EXCEPT ![c] = new]
    BY <1>1, <1>4 DEF Call
  <2>3. consumed \in UsageType /\ caller[c].id \in DOMAIN upstream
    BY <1>1, <1>4, ConstantsAssumption DEF Call
  <2>4. /\ upstream' \in Seq(UsageType \cup {NoUsage})
        /\ Len(upstream') = Len(upstream)
        /\ upstream'[caller[c].id] = consumed
        /\ \A i \in DOMAIN attempts : i # caller[c].id => upstream'[i] = upstream[i]
    BY <1>1, <1>4, <2>3 DEF Call
  <2> HIDE DEF new
  <2> QED
    BY <2>1, <2>2, <2>3, <2>4, <1>4, CallerStep DEF Call
<1>5. ASSUME NEW source \in {"ProviderReported", "Estimated"}, NEW cache \in CacheTokens,
             ChatResponse(c, source, cache)
      PROVE  IndInv'
  <2> DEFINE usage == Report(source, upstream[caller[c].id], cache)
             settling == CallState("settling", caller[c].id, usage, FALSE, TRUE)
             new == IF Settleable(usage) THEN settling ELSE Idle
  <2>1. usage \in ReportType
    BY <1>5, ReportIsTyped DEF ChatResponse, IndInv, CallersConsistent
  <2>2. /\ settling \in CallerType /\ settling.pc = "settling"
        /\ settling.id = caller[c].id /\ settling.usage = usage
    BY <1>1, <2>1 DEF CallState, CallerType
  <2>3. caller' = [caller EXCEPT ![c] = new] /\ UNCHANGED <<scopes, attempts, upstream>>
    BY <1>1, <1>5 DEF ChatResponse
  <2>4. caller[c].pc # "idle"
    BY <1>5 DEF ChatResponse
  <2> HIDE DEF usage, settling
  <2>5. CASE Settleable(usage)
    BY <2>2, <2>3, <2>4, <2>5, <1>1, CallerStep
  <2>6. CASE ~Settleable(usage)
    BY <1>2, <2>3, <2>4, <2>6, <1>1, CallerStep
  <2> QED
    BY <2>5, <2>6
<1>6. ASSUME NEW source \in {"ProviderReported", "Estimated"}, NEW cache \in CacheTokens,
             NEW sofar \in Usages, StreamUsage(c, source, cache, sofar)
      PROVE  IndInv'
  <2> DEFINE usage == Report(source, sofar, cache)
             final == sofar = upstream[caller[c].id]
             new == CallState("stream", caller[c].id, usage, caller[c].failed, final)
  <2>1. usage \in ReportType
    BY ReportIsTyped, ConstantsAssumption
  <2>2. new \in CallerType /\ new.pc = "stream" /\ new.id = caller[c].id
    BY <1>1, <2>1 DEF CallState, CallerType
  <2>3. caller' = [caller EXCEPT ![c] = new] /\ UNCHANGED <<scopes, attempts, upstream>>
    BY <1>1, <1>6 DEF StreamUsage
  <2>4. caller[c].pc = "stream" /\ upstream[caller[c].id] \in UsageType
    BY <1>6 DEF StreamUsage, IndInv, CallersConsistent
  <2> HIDE DEF new
  <2> QED
    BY <2>2, <2>3, <2>4, <1>1, CallerStep
<1>7. ASSUME StreamError(c)
      PROVE  IndInv'
  <2> DEFINE new == CallState("stream", caller[c].id, caller[c].usage,
                              TRUE, caller[c].finished)
  <2>1. new \in CallerType /\ new.pc = "stream" /\ new.id = caller[c].id
    BY <1>1 DEF CallState, CallerType
  <2>2. caller' = [caller EXCEPT ![c] = new] /\ UNCHANGED <<scopes, attempts, upstream>>
    BY <1>1, <1>7 DEF StreamError
  <2>3. caller[c].pc = "stream" /\ upstream[caller[c].id] \in UsageType
    BY <1>7 DEF StreamError, IndInv, CallersConsistent
  <2> HIDE DEF new
  <2> QED
    BY <2>1, <2>2, <2>3, <1>1, CallerStep
<1>8. ASSUME StreamEnd(c)
      PROVE  IndInv'
  <2> DEFINE settling == CallState("settling", caller[c].id, caller[c].usage,
                                   FALSE, caller[c].finished)
  <2>1. /\ settling \in CallerType /\ settling.pc = "settling"
        /\ settling.id = caller[c].id /\ settling.usage = caller[c].usage
    BY <1>1 DEF CallState, CallerType
  <2>2. caller[c].pc = "stream" /\ UNCHANGED <<scopes, attempts, upstream>>
    BY <1>8 DEF StreamEnd
  <2>3. CASE ~caller[c].failed /\ Settleable(caller[c].usage)
    <3>1. caller' = [caller EXCEPT ![c] = settling]
      BY <1>1, <1>8, <2>3 DEF StreamEnd
    <3> HIDE DEF settling
    <3> QED
      BY <2>1, <2>2, <2>3, <3>1, <1>1, CallerStep
  <2>4. CASE ~(~caller[c].failed /\ Settleable(caller[c].usage))
    <3>1. caller' = [caller EXCEPT ![c] = Idle]
      BY <1>1, <1>8, <2>4 DEF StreamEnd
    <3> QED
      BY <1>2, <2>2, <3>1, <1>1, CallerStep
  <2> QED
    BY <2>3, <2>4
<1>9. ASSUME Abandon(c)
      PROVE  IndInv'
  BY <1>1, <1>2, <1>9, CallerStep DEF Abandon
<1> QED
  BY <1>4, <1>5, <1>6, <1>7, <1>8, <1>9

\* The usage a settling call holds and what the settlement makes of it.
LEMMA ObservedType ==
    ASSUME IndInv, NEW c \in Callers, caller[c].pc = "settling"
    PROVE  LET seen == Observed(caller[c].usage, attempts[caller[c].id].provider)
           IN  /\ seen.input \in Nat
               /\ seen.output \in Nat
               /\ seen.cost \in Int
               /\ seen.cost # Overflow => seen.cost \in Nat
<1> DEFINE usage == caller[c].usage
           p == attempts[caller[c].id].provider
<1>1. caller[c].id \in DOMAIN attempts /\ caller[c] \in CallerType
  BY DEF IndInv, TypeOK
<1>2. p \in Providers
  BY <1>1, AttemptScopes DEF IndInv
<1>3. usage # NoUsage
  BY DEF IndInv, CallersConsistent, Settleable
<1>4. usage \in ReportType
  BY <1>1, <1>3 DEF CallerType
<1>5. usage.input + usage.cache \in Nat /\ usage.output \in Nat
  BY <1>4 DEF ReportType
<1>6. /\ Price(p, usage.input + usage.cache, usage.output) \in Int
      /\ Price(p, usage.input + usage.cache, usage.output) >= -1
  BY <1>2, <1>5, PriceType
<1> QED
  BY <1>5, <1>6 DEF Observed, Overflow

\* A settlement keeps the invariant: a refund only lowers the totals, and an
\* overrun blocks the scope in the transaction that records it.
LEMMA SettleStep ==
    ASSUME IndInv, NEW c \in Callers, Settle(c)
    PROVE  IndInv'
<1> DEFINE id == caller[c].id
           a == attempts[id]
           seen == Observed(caller[c].usage, a.provider)
           row == scopes[a.scope]
           newA == SettledAttempt(a, seen)
           newRow == SettledRow(row, a, seen)
<1> USE DEF IndInv
<1>1. caller[c].pc = "settling" /\ caller' = [caller EXCEPT ![c] = Idle] /\ upstream' = upstream
  BY DEF Settle, AttemptTaken
<1>2. Idle \in CallerType /\ Idle.pc = "idle"
  BY DEF Idle, CallState, CallerType
<1>3. CASE UnchangedBySettle(a, seen)
  <2>1. UNCHANGED <<scopes, attempts>>
    BY <1>3 DEF Settle
  <2>2. upstream \in Seq(UsageType \cup {NoUsage})
    BY DEF TypeOK
  <2> QED
    BY <1>1, <1>2, <2>1, <2>2, CallerStep
<1>4. CASE ~UnchangedBySettle(a, seen)
  <2>1. id \in DOMAIN attempts /\ a \in AttemptType /\ a.scope \in Scopes
    BY <1>1, AttemptScopes DEF TypeOK
  <2>2. seen.input \in Nat /\ seen.output \in Nat /\ seen.cost \in Nat
    BY <1>1, <1>4, ObservedType DEF UnchangedBySettle
  <2>3. row # NoRow /\ row \in RowType
    BY <2>1 DEF AttemptsHaveRows, TypeOK
  <2>4. attempts' = [attempts EXCEPT ![id] = newA] /\ scopes' = [scopes EXCEPT ![a.scope] = newRow]
    BY <1>4 DEF Settle
  <2>5. /\ newA \in AttemptType /\ newA.scope = a.scope
        /\ newA.state = IF Within(a, seen) THEN "settled" ELSE "overrun"
    <3> HIDE DEF a, seen
    <3> QED
      BY <2>1, <2>2 DEF SettledAttempt, AttemptRow, AttemptType, AttemptStates
  <2>6. /\ newRow \in RowType
        /\ newRow.policy = row.policy /\ newRow.calls = row.calls
        /\ newRow.tokens <= row.tokens /\ newRow.cost <= row.cost
        /\ newRow.blocked <=> (row.blocked \/ ~Within(a, seen))
        /\ Within(a, seen) => newRow.terminal_reason = row.terminal_reason
        /\ ~Within(a, seen) => newRow.terminal_reason # NoReason
    <3>1. a.reserved_input \in Nat /\ a.reserved_output \in Nat /\ a.reserved_cost \in Nat
      BY <2>1 DEF AttemptType
    <3> HIDE DEF a, seen, row
    <3>2. CASE Within(a, seen)
      <4>1. newRow = ScopeRow(row.policy, row.calls,
                        row.tokens - ((a.reserved_input - seen.input)
                                      + (a.reserved_output - seen.output)),
                        row.cost - (a.reserved_cost - seen.cost),
                        row.blocked, row.terminal_reason)
        BY <3>2 DEF SettledRow
      <4>2. /\ seen.input <= a.reserved_input
            /\ seen.output <= a.reserved_output
            /\ seen.cost <= a.reserved_cost
        BY <3>2 DEF Within
      <4> HIDE DEF newRow
      <4> QED
        BY <2>2, <2>3, <3>1, <3>2, <4>1, <4>2 DEF ScopeRow, RowType
    <3>3. CASE ~Within(a, seen)
      <4>1. newRow = ScopeRow(row.policy, row.calls, row.tokens, row.cost, TRUE,
                              "usage_exceeded_reservation")
        BY <3>3 DEF SettledRow
      <4> HIDE DEF newRow
      <4> QED
        BY <2>3, <3>3, <4>1 DEF ScopeRow, RowType, DenialReasons, NoReason
    <3> QED
      BY <3>2, <3>3
  <2> HIDE DEF newA, newRow, seen
  <2>8. /\ scopes'[a.scope] = newRow
        /\ \A t \in Scopes \ {a.scope} : scopes'[t] = scopes[t]
        /\ scopes' \in [Scopes -> RowType \cup {NoRow}]
    BY <2>1, <2>4, <2>6 DEF TypeOK
  <2>9. /\ attempts' \in Seq(AttemptType)
        /\ DOMAIN attempts' = DOMAIN attempts
        /\ Len(attempts') = Len(attempts)
        /\ attempts'[id] = newA
        /\ \A i \in DOMAIN attempts : i # id => attempts'[i] = attempts[i]
    BY <2>1, <2>4, <2>5 DEF TypeOK
  <2>10. caller'[c] = Idle /\ \A d \in Callers \ {c} : caller'[d] = caller[d]
    BY <1>1 DEF TypeOK
  <2>11. \A d \in Callers \ {c} : caller[d].pc # "idle" =>
              caller[d].id # id /\ caller[d].id \in DOMAIN attempts
    BY <1>1 DEF InFlightOwnsReservation, TypeOK
  <2>12. TypeOK'
    <3>1. caller' \in [Callers -> CallerType]
      BY <1>1, <1>2 DEF TypeOK
    <3>2. \A d \in Callers : caller'[d].pc # "idle" => caller'[d].id \in DOMAIN attempts'
      BY <1>2, <2>9, <2>10, <2>11
    <3> QED
      BY <1>1, <2>8, <2>9, <3>1, <3>2 DEF TypeOK
  <2>13. WithinLimits'
    <3>2. /\ AtMost(row.calls, row.policy.max_calls)
          /\ AtMost(row.tokens, row.policy.max_tokens)
          /\ AtMost(row.cost, row.policy.max_cost)
      BY <2>1, <2>3 DEF WithinLimits
    <3>3. row.policy \in PolicyType
      BY <2>3, ConstantsAssumption DEF RowType
    <3> HIDE DEF row
    <3>4. /\ AtMost(newRow.calls, newRow.policy.max_calls)
          /\ AtMost(newRow.tokens, newRow.policy.max_tokens)
          /\ AtMost(newRow.cost, newRow.policy.max_cost)
      BY <2>3, <2>6, <3>2, <3>3, ConstantsAssumption DEF AtMost, RowType, PolicyType, NoLimit
    <3> QED
      BY <3>4, <2>8 DEF WithinLimits
  <2>14. AttemptsHaveRows'
    <3>1. newRow # NoRow
      BY <2>6, SentinelsAssumption
    <3>2. \A i \in DOMAIN attempts : attempts'[i].scope = attempts[i].scope
      BY <2>5, <2>9
    <3>3. \A i \in DOMAIN attempts : attempts[i].scope \in Scopes
      BY AttemptScopes
    <3> QED
      BY <3>1, <3>2, <3>3, <2>8, <2>9 DEF AttemptsHaveRows
  <2>15. BlockedByOverrun'
    <3>1. \A t \in Scopes : AttemptsOf(t)' = AttemptsOf(t)
      BY <2>5, <2>9 DEF AttemptsOf
    <3>2. ASSUME NEW t \in Scopes \ {a.scope}, scopes'[t] # NoRow
          PROVE  /\ scopes'[t].blocked <=>
                        \E i \in AttemptsOf(t) : attempts'[i].state = "overrun"
                 /\ scopes'[t].blocked => scopes'[t].terminal_reason # NoReason
      <4>1. \A i \in AttemptsOf(t) : attempts'[i] = attempts[i]
        BY <2>9 DEF AttemptsOf
      <4> QED
        BY <4>1, <3>2, <2>8 DEF BlockedByOverrun
    <3>3. /\ newRow.blocked <=>
                \E i \in AttemptsOf(a.scope) : attempts'[i].state = "overrun"
          /\ newRow.blocked => newRow.terminal_reason # NoReason
      <4>1. id \in AttemptsOf(a.scope)
        BY <2>1 DEF AttemptsOf
      <4>2. \A i \in AttemptsOf(a.scope) : i # id => attempts'[i] = attempts[i]
        BY <2>9 DEF AttemptsOf
      <4>3. attempts[id].state # "overrun"
        BY <1>4 DEF UnchangedBySettle
      <4>4. /\ row.blocked <=> \E i \in AttemptsOf(a.scope) : attempts[i].state = "overrun"
            /\ row.blocked => row.terminal_reason # NoReason
        BY <2>1, <2>3 DEF BlockedByOverrun
      <4>5. CASE Within(a, seen)
        BY <4>1, <4>2, <4>3, <4>4, <4>5, <2>5, <2>6, <2>9
      <4>6. CASE ~Within(a, seen)
        BY <4>1, <4>6, <2>5, <2>6, <2>9
      <4> QED
        BY <4>5, <4>6
    <3> QED
      BY <3>1, <3>2, <3>3, <2>8 DEF BlockedByOverrun
  <2>16. InFlightOwnsReservation'
    BY <1>2, <2>9, <2>10, <2>11 DEF InFlightOwnsReservation
  <2>17. CallersConsistent'
    BY <1>1, <1>2, <2>10 DEF CallersConsistent, Settleable
  <2> QED
    BY <2>12, <2>13, <2>14, <2>15, <2>16, <2>17
<1> QED
  BY <1>3, <1>4

\* Every step keeps the inductive invariant.
LEMMA NextIndInv == IndInv /\ [Next]_vars => IndInv'
<1> SUFFICES ASSUME IndInv, [Next]_vars PROVE IndInv'
  OBVIOUS
<1>1. CASE Next
  BY <1>1, ReserveDeniedStep, ReserveStep, UpstreamSteps, SettleStep DEF Next
<1>2. CASE UNCHANGED vars
  BY <1>2 DEF vars, IndInv, TypeOK, WithinLimits, InFlightOwnsReservation,
     BlockedByOverrun, AttemptsHaveRows, CallersConsistent, AttemptsOf, Settleable
<1> QED
  BY <1>1, <1>2

\* The inductive invariant holds in every reachable state.
THEOREM Invariance == Spec => []IndInv
BY InitIndInv, NextIndInv, PTL DEF Spec

\* Every reachable state is well typed.
THEOREM TypeCorrectness == Spec => []TypeOK
<1>1. IndInv => TypeOK
  BY DEF IndInv
<1> QED
  BY <1>1, Invariance, PTL

\* No scope ever exceeds the limits it was opened with, nor i64, whatever the
\* callers, their settings, their failures and the usage they report.
THEOREM LimitsHold == Spec => []WithinLimits
<1>1. IndInv => WithinLimits
  BY DEF IndInv
<1> QED
  BY <1>1, Invariance, PTL

\* Every call in flight owns an unsettled reservation of its own.
THEOREM ReservationsOwned == Spec => []InFlightOwnsReservation
<1>1. IndInv => InFlightOwnsReservation
  BY DEF IndInv
<1> QED
  BY <1>1, Invariance, PTL

\* A scope is blocked exactly when one of its attempts overran.
THEOREM OverrunBlocks == Spec => []BlockedByOverrun
<1>1. IndInv => BlockedByOverrun
  BY DEF IndInv
<1> QED
  BY <1>1, Invariance, PTL

\* A blocked scope stays blocked and admits no further call.
THEOREM BlockedScopesStayBlocked == Spec => BlockedForGood
<1> DEFINE Kept == \A s \in Scopes : scopes[s] # NoRow /\ scopes[s].blocked =>
                       scopes'[s].blocked /\ scopes'[s].calls = scopes[s].calls
<1>1. ASSUME IndInv, [Next]_vars
      PROVE  Kept
  <2> SUFFICES ASSUME NEW s \in Scopes, scopes[s] # NoRow, scopes[s].blocked
               PROVE  scopes'[s].blocked /\ scopes'[s].calls = scopes[s].calls
    OBVIOUS
  <2>1. scopes \in [Scopes -> RowType \cup {NoRow}] /\ scopes[s] \in RowType
    BY <1>1 DEF IndInv, TypeOK
  <2>2. ASSUME NEW c \in Callers, NEW t \in Scopes, NEW policy \in Policies,
               NEW p \in Providers, NEW r \in Requests,
               ReserveDenied(c, t, policy, p, r)
        PROVE  scopes'[s].blocked /\ scopes'[s].calls = scopes[s].calls
    <3> DEFINE reason == DenialReason(Row(t, policy), policy, Charge(policy, p, r))
    <3>1. scopes' = [scopes EXCEPT ![t] = [Row(t, policy) EXCEPT !.terminal_reason = reason]]
      BY <2>2 DEF ReserveDenied
    <3>2. CASE t = s
      <4>1. Row(t, policy) = scopes[s]
        BY <3>2 DEF Row
      <4> HIDE DEF reason
      <4>2. scopes'[s] = [scopes[s] EXCEPT !.terminal_reason = reason]
        BY <2>1, <3>1, <3>2, <4>1
      <4> QED
        BY <2>1, <4>2 DEF RowType
    <3>3. CASE t # s
      BY <2>1, <3>1, <3>3
    <3> QED
      BY <3>2, <3>3
  <2>3. ASSUME NEW c \in Callers, NEW t \in Scopes, NEW policy \in Policies,
               NEW p \in Providers, NEW r \in Requests,
               Reserve(c, t, policy, p, r)
        PROVE  scopes'[s] = scopes[s]
    <3>1. t # s
      BY <2>3 DEF Reserve, DenialReason, Row, NoReason
    <3> QED
      BY <2>1, <2>3, <3>1 DEF Reserve
  <2>4. ASSUME NEW c \in Callers, Settle(c)
        PROVE  scopes'[s].blocked /\ scopes'[s].calls = scopes[s].calls
    <3> DEFINE a == attempts[caller[c].id]
               seen == Observed(caller[c].usage, a.provider)
    <3>1. \/ scopes' = scopes
          \/ scopes' = [scopes EXCEPT ![a.scope] = SettledRow(scopes[a.scope], a, seen)]
      BY <2>4 DEF Settle
    <3> HIDE DEF a, seen
    <3>2. /\ SettledRow(scopes[s], a, seen).blocked
          /\ SettledRow(scopes[s], a, seen).calls = scopes[s].calls
      BY DEF SettledRow, ScopeRow
    <3> QED
      BY <2>1, <3>1, <3>2
  <2>5. ASSUME NEW c \in Callers,
               \/ \E mode \in {"chat", "stream"}, consumed \in Usages : Call(c, mode, consumed)
               \/ \E source \in {"ProviderReported", "Estimated"}, cache \in CacheTokens :
                     \/ ChatResponse(c, source, cache)
                     \/ \E sofar \in Usages : StreamUsage(c, source, cache, sofar)
               \/ StreamError(c)
               \/ StreamEnd(c)
               \/ Abandon(c)
        PROVE  scopes' = scopes
    BY <2>5 DEF Call, ChatResponse, StreamUsage, StreamError, StreamEnd, Abandon
  <2>6. CASE UNCHANGED vars
    BY <2>6 DEF vars
  <2> QED
    BY <1>1, <2>2, <2>3, <2>4, <2>5, <2>6 DEF Next
<1> QED
  BY <1>1, Invariance, PTL DEF Spec, BlockedForGood

(***************************************************************************)
(* The second layer: charges and consumption                               *)
(***************************************************************************)
\* The price of the tokens of one side is monotone.
LEMMA TokenCostMonotone ==
    ASSUME NEW m \in Nat, NEW n \in Nat, m <= n, NEW rate \in Nat,
           TokenCost(n, rate) # Overflow
    PROVE  /\ TokenCost(m, rate) \in Nat
           /\ TokenCost(n, rate) \in Nat
           /\ TokenCost(m, rate) <= TokenCost(n, rate)
<1>1. m * rate \in Nat /\ n * rate \in Nat /\ m * rate <= n * rate
  BY ProductType, ProductMonotone
<1>2. /\ CeilDiv(m * rate, RateUnit) \in Nat
      /\ CeilDiv(n * rate, RateUnit) \in Nat
      /\ CeilDiv(m * rate, RateUnit) <= CeilDiv(n * rate, RateUnit)
  BY <1>1, CeilDivType, CeilDivMonotone, ConstantsAssumption
<1> QED
  BY <1>2, ConstantsAssumption DEF TokenCost, Overflow

\* price is monotone wherever it stays within i64.
LEMMA PriceMonotone ==
    ASSUME NEW p \in Providers, NEW i \in Nat, NEW j \in Nat, i <= j,
           NEW m \in Nat, NEW n \in Nat, m <= n,
           Price(p, j, n) # Overflow
    PROVE  Price(p, i, m) <= Price(p, j, n)
<1>1. p.input_rate \in Nat /\ p.output_rate \in Nat
  BY ConstantsAssumption DEF ProviderType
<1>2. CASE Priced(p)
  <2>1. TokenCost(j, p.input_rate) # Overflow /\ TokenCost(n, p.output_rate) # Overflow
    BY <1>2 DEF Price, CheckedAdd
  <2>2. /\ TokenCost(i, p.input_rate) \in Nat /\ TokenCost(j, p.input_rate) \in Nat
        /\ TokenCost(i, p.input_rate) <= TokenCost(j, p.input_rate)
    BY <1>1, <2>1, TokenCostMonotone
  <2>3. /\ TokenCost(m, p.output_rate) \in Nat /\ TokenCost(n, p.output_rate) \in Nat
        /\ TokenCost(m, p.output_rate) <= TokenCost(n, p.output_rate)
    BY <1>1, <2>1, TokenCostMonotone
  <2> QED
    BY <1>2, <2>2, <2>3, ConstantsAssumption DEF Price, CheckedAdd, Overflow
<1>3. CASE ~Priced(p)
  BY <1>3 DEF Price
<1> QED
  BY <1>2, <1>3

\* What the rows of a scope add up to is well typed.
ChargesTyped == \A s \in Scopes : TokensOf(s) \in [Nat -> Int] /\ CostOf(s) \in [Nat -> Int]

\* Well-typed attempts have well-typed charges.
LEMMA ChargesHaveTypes == TypeOK => ChargesTyped
<1> SUFFICES ASSUME TypeOK, NEW s \in Scopes
             PROVE  TokensOf(s) \in [Nat -> Int] /\ CostOf(s) \in [Nat -> Int]
  BY DEF ChargesTyped
<1>1. \A i \in AttemptsOf(s) : attempts[i] \in AttemptType
  BY AttemptScopes DEF AttemptsOf
<1>2. \A i \in AttemptsOf(s) : ChargedTokens(attempts[i]) \in Int /\ ChargedCost(attempts[i]) \in Int
  BY <1>1 DEF ChargedTokens, ChargedCost, AttemptType
<1> QED
  BY <1>2 DEF TokensOf, CostOf

\* The attempts of a scope are finitely many.
LEMMA AttemptsFinite ==
    ASSUME TypeOK, NEW s \in Scopes
    PROVE  IsFiniteSet(AttemptsOf(s))
<1>1. Len(attempts) \in Nat /\ DOMAIN attempts = 1..Len(attempts)
  BY DEF TypeOK
<1>2. IsFiniteSet(1..Len(attempts))
  BY <1>1, FS_Interval
<1> QED
  BY <1>1, <1>2, FS_Subset DEF AttemptsOf

\* The row a reservation reads is balanced, an absent one being empty.
LEMMA RowBalanced ==
    ASSUME IndInv, LedgerBalanced, NEW s \in Scopes, NEW policy \in Policies
    PROVE  /\ Row(s, policy).calls = Cardinality(AttemptsOf(s))
           /\ Row(s, policy).tokens = Total(TokensOf(s), Len(attempts))
           /\ Row(s, policy).cost = Total(CostOf(s), Len(attempts))
<1>1. CASE scopes[s] = NoRow
  <2>1. AttemptsOf(s) = {}
    BY <1>1 DEF AttemptsOf, IndInv, AttemptsHaveRows
  <2>2. \A i \in 1..Len(attempts) : TokensOf(s)[i] = 0 /\ CostOf(s)[i] = 0
    BY <2>1 DEF TokensOf, CostOf
  <2>3. /\ TokensOf(s) \in [Nat -> Int] /\ CostOf(s) \in [Nat -> Int]
        /\ Len(attempts) \in Nat
    BY ChargesHaveTypes DEF ChargesTyped, IndInv, TypeOK
  <2>4. /\ Total(TokensOf(s), Len(attempts)) = 0
        /\ Total(CostOf(s), Len(attempts)) = 0
    BY <2>2, <2>3, TotalZero
  <2>5. Cardinality(AttemptsOf(s)) = 0
    BY <2>1, FS_EmptySet
  <2> QED
    BY <1>1, <2>4, <2>5 DEF Row, ScopeRow
<1>2. CASE scopes[s] # NoRow
  BY <1>2 DEF Row, LedgerBalanced
<1> QED
  BY <1>1, <1>2

\* A denial opens an empty row or leaves the totals alone.
LEMMA ReserveDeniedBalance ==
    ASSUME IndInv, LedgerBalanced, NEW c \in Callers, NEW s \in Scopes,
           NEW policy \in Policies, NEW p \in Providers, NEW r \in Requests,
           ReserveDenied(c, s, policy, p, r)
    PROVE  LedgerBalanced'
<1> DEFINE row == Row(s, policy)
           reason == DenialReason(row, policy, Charge(policy, p, r))
           new == [row EXCEPT !.terminal_reason = reason]
<1>1. scopes' = [scopes EXCEPT ![s] = new] /\ attempts' = attempts
  BY DEF ReserveDenied
<1>2. row \in RowType
  BY RowWithinLimits
<1> HIDE DEF reason
<1>3. new.calls = row.calls /\ new.tokens = row.tokens /\ new.cost = row.cost
  BY <1>2 DEF RowType
<1>4. /\ row.calls = Cardinality(AttemptsOf(s))
      /\ row.tokens = Total(TokensOf(s), Len(attempts))
      /\ row.cost = Total(CostOf(s), Len(attempts))
  BY RowBalanced
<1> HIDE DEF row, new
<1>5. scopes'[s] = new /\ \A t \in Scopes \ {s} : scopes'[t] = scopes[t]
  BY <1>1 DEF IndInv, TypeOK
<1>6. \A t : AttemptsOf(t)' = AttemptsOf(t) /\ TokensOf(t)' = TokensOf(t) /\ CostOf(t)' = CostOf(t)
  BY <1>1 DEF AttemptsOf, TokensOf, CostOf
<1>7. ASSUME NEW t \in Scopes, scopes'[t] # NoRow
      PROVE  /\ scopes'[t].calls = Cardinality(AttemptsOf(t))
             /\ scopes'[t].tokens = Total(TokensOf(t), Len(attempts))
             /\ scopes'[t].cost = Total(CostOf(t), Len(attempts))
  BY <1>3, <1>4, <1>5, <1>7 DEF LedgerBalanced
<1> QED
  BY <1>1, <1>6, <1>7 DEF LedgerBalanced

\* One more attempt of scope s: its totals grow by the charge, the others stay.
LEMMA AppendedAttempt ==
    ASSUME TypeOK, TypeOK', NEW s \in Scopes, NEW t \in Scopes, NEW a \in AttemptType,
           a.scope = s, a.state = "reserved", attempts' = Append(attempts, a)
    PROVE  LET n == Len(attempts)
           IN  IF t = s
               THEN /\ Cardinality(AttemptsOf(t)') = Cardinality(AttemptsOf(t)) + 1
                    /\ Total(TokensOf(t)', n + 1) = Total(TokensOf(t), n)
                                                      + (a.reserved_input + a.reserved_output)
                    /\ Total(CostOf(t)', n + 1) = Total(CostOf(t), n) + a.reserved_cost
               ELSE /\ Cardinality(AttemptsOf(t)') = Cardinality(AttemptsOf(t))
                    /\ Total(TokensOf(t)', n + 1) = Total(TokensOf(t), n)
                    /\ Total(CostOf(t)', n + 1) = Total(CostOf(t), n)
<1> DEFINE n == Len(attempts)
<1>1. /\ n \in Nat /\ DOMAIN attempts = 1..n /\ DOMAIN attempts' = 1..(n + 1)
      /\ attempts'[n + 1] = a
      /\ \A i \in 1..n : attempts'[i] = attempts[i]
  BY DEF TypeOK
<1> HIDE DEF n
<1>2. /\ TokensOf(t) \in [Nat -> Int] /\ CostOf(t) \in [Nat -> Int]
      /\ TokensOf(t)' \in [Nat -> Int] /\ CostOf(t)' \in [Nat -> Int]
  <2>1. ChargesTyped /\ ChargesTyped'
    BY ChargesHaveTypes, PTL
  <2> QED
    BY <2>1 DEF ChargesTyped
<1>3. \A i \in 1..n : i \in AttemptsOf(t)' <=> i \in AttemptsOf(t)
  BY <1>1 DEF AttemptsOf
<1>4. \A i \in 1..n : TokensOf(t)'[i] = TokensOf(t)[i] /\ CostOf(t)'[i] = CostOf(t)[i]
  BY <1>1, <1>3 DEF TokensOf, CostOf
<1>5. Total(TokensOf(t)', n) = Total(TokensOf(t), n) /\ Total(CostOf(t)', n) = Total(CostOf(t), n)
  BY <1>1, <1>2, <1>4, TotalSame
<1>6. /\ Total(TokensOf(t)', n + 1) = Total(TokensOf(t)', n) + TokensOf(t)'[n + 1]
      /\ Total(CostOf(t)', n + 1) = Total(CostOf(t)', n) + CostOf(t)'[n + 1]
      /\ Total(TokensOf(t)', n) \in Int /\ Total(CostOf(t)', n) \in Int
  BY <1>1, <1>2, TotalDef
<1>7. CASE t = s
  <2>1. AttemptsOf(t)' = AttemptsOf(t) \cup {n + 1} /\ n + 1 \notin AttemptsOf(t)
    BY <1>1, <1>3, <1>7 DEF AttemptsOf
  <2>2. Cardinality(AttemptsOf(t)') = Cardinality(AttemptsOf(t)) + 1
    BY <2>1, AttemptsFinite, FS_AddElement
  <2>3. TokensOf(t)'[n + 1] = a.reserved_input + a.reserved_output /\ CostOf(t)'[n + 1] = a.reserved_cost
    BY <1>1, <2>1 DEF TokensOf, CostOf, ChargedTokens, ChargedCost
  <2> QED
    BY <1>5, <1>6, <1>7, <2>2, <2>3 DEF n
<1>8. CASE t # s
  <2>1. AttemptsOf(t)' = AttemptsOf(t) /\ n + 1 \notin AttemptsOf(t)'
    BY <1>1, <1>3, <1>8 DEF AttemptsOf
  <2>2. TokensOf(t)'[n + 1] = 0 /\ CostOf(t)'[n + 1] = 0
    BY <1>1, <2>1 DEF TokensOf, CostOf
  <2> QED
    BY <1>5, <1>6, <1>8, <2>1, <2>2 DEF n
<1> QED
  BY <1>7, <1>8

\* An admission charges the new attempt to its scope.
LEMMA ReserveBalance ==
    ASSUME IndInv, IndInv', LedgerBalanced, NEW c \in Callers, NEW s \in Scopes,
           NEW policy \in Policies, NEW p \in Providers, NEW r \in Requests,
           Reserve(c, s, policy, p, r)
    PROVE  LedgerBalanced'
<1> DEFINE row == Row(s, policy)
           charge == Charge(policy, p, r)
           new == ScopeRow(row.policy, row.calls + 1, NewTokens(row, charge),
                           CheckedAdd(row.cost, charge.cost),
                           row.blocked, row.terminal_reason)
           a == AttemptRow(s, p, charge.input, charge.output, charge.cost,
                           "reserved", Unobserved)
           n == Len(attempts)
<1>1. scopes' = [scopes EXCEPT ![s] = new] /\ attempts' = Append(attempts, a)
  BY DEF Reserve
<1>2. row \in RowType
  BY RowWithinLimits
<1>3. charge.input \in Nat /\ charge.output \in Nat /\ charge.cost \in Nat
  BY ChargeType DEF Reserve
<1>4. /\ a \in AttemptType /\ a.scope = s /\ a.state = "reserved"
      /\ a.reserved_input = charge.input /\ a.reserved_output = charge.output
      /\ a.reserved_cost = charge.cost
  BY <1>3 DEF AttemptRow, Unobserved, AttemptType, AttemptStates
<1>5. /\ new.calls = row.calls + 1
      /\ new.tokens = row.tokens + (charge.input + charge.output)
      /\ new.cost = row.cost + charge.cost
  <2>1. DenialReason(row, policy, charge) = NoReason
    BY DEF Reserve
  <2> HIDE DEF row, charge
  <2>2. /\ ~Exceeds(NewTokens(row, charge), policy.max_tokens)
        /\ ~Exceeds(CheckedAdd(row.cost, charge.cost), policy.max_cost)
    BY <2>1 DEF DenialReason, NoReason
  <2>3. /\ NewTokens(row, charge) # Overflow
        /\ CheckedAdd(row.cost, charge.cost) # Overflow
    BY <2>2 DEF Exceeds
  <2>4. row.tokens \in Int /\ row.cost \in Int
    BY <1>2 DEF RowType
  <2>5. NewTokens(row, charge) = row.tokens + (charge.input + charge.output)
    BY <1>3, <2>3, <2>4, ConstantsAssumption DEF NewTokens, CheckedAdd, Overflow
  <2>6. CheckedAdd(row.cost, charge.cost) = row.cost + charge.cost
    BY <1>3, <2>3, <2>4, ConstantsAssumption DEF CheckedAdd, Overflow
  <2> QED
    BY <2>5, <2>6 DEF ScopeRow
<1>6. /\ row.calls = Cardinality(AttemptsOf(s))
      /\ row.tokens = Total(TokensOf(s), n)
      /\ row.cost = Total(CostOf(s), n)
  BY RowBalanced
<1>7. TypeOK /\ TypeOK' /\ scopes \in [Scopes -> RowType \cup {NoRow}]
  BY DEF IndInv, TypeOK
<1>8. Len(attempts') = n + 1
  BY <1>1, <1>4, <1>7 DEF TypeOK
<1> HIDE DEF row, charge, new, a, n
<1>9. scopes'[s] = new /\ \A t \in Scopes \ {s} : scopes'[t] = scopes[t]
  BY <1>1, <1>7
<1>10. ASSUME NEW t \in Scopes, scopes'[t] # NoRow
       PROVE  /\ scopes'[t].calls = Cardinality(AttemptsOf(t)')
              /\ scopes'[t].tokens = Total(TokensOf(t)', n + 1)
              /\ scopes'[t].cost = Total(CostOf(t)', n + 1)
  <2>1. IF t = s
        THEN /\ Cardinality(AttemptsOf(t)') = Cardinality(AttemptsOf(t)) + 1
             /\ Total(TokensOf(t)', n + 1) = Total(TokensOf(t), n)
                                               + (a.reserved_input + a.reserved_output)
             /\ Total(CostOf(t)', n + 1) = Total(CostOf(t), n) + a.reserved_cost
        ELSE /\ Cardinality(AttemptsOf(t)') = Cardinality(AttemptsOf(t))
             /\ Total(TokensOf(t)', n + 1) = Total(TokensOf(t), n)
             /\ Total(CostOf(t)', n + 1) = Total(CostOf(t), n)
    BY <1>1, <1>4, <1>7, AppendedAttempt DEF n
  <2>2. CASE t = s
    BY <1>4, <1>5, <1>6, <1>9, <2>1, <2>2
  <2>3. CASE t # s
    BY <1>9, <1>10, <2>1, <2>3 DEF LedgerBalanced, n
  <2> QED
    BY <2>2, <2>3
<1> QED
  BY <1>8, <1>10 DEF LedgerBalanced

\* What a settlement that reaches the store changes.
LEMMA SettleChanges ==
    ASSUME IndInv, NEW c \in Callers, Settle(c),
           NEW id, id = caller[c].id,
           NEW a, a = attempts[id],
           NEW seen, seen = Observed(caller[c].usage, a.provider),
           ~UnchangedBySettle(a, seen)
    PROVE  /\ id \in DOMAIN attempts
           /\ a \in AttemptType /\ a.state = "reserved"
           /\ a.scope \in Scopes /\ a.provider \in Providers
           /\ seen.input \in Nat /\ seen.output \in Nat /\ seen.cost \in Nat
           /\ scopes[a.scope] # NoRow /\ scopes[a.scope] \in RowType
           /\ attempts' = [attempts EXCEPT ![id] = SettledAttempt(a, seen)]
           /\ attempts'[id] = SettledAttempt(a, seen)
           /\ \A i \in DOMAIN attempts : i # id => attempts'[i] = attempts[i]
           /\ DOMAIN attempts' = DOMAIN attempts /\ Len(attempts') = Len(attempts)
           /\ scopes'[a.scope] = SettledRow(scopes[a.scope], a, seen)
           /\ \A t \in Scopes \ {a.scope} : scopes'[t] = scopes[t]
<1>1. caller[c].pc = "settling"
  BY DEF Settle
<1>2. id \in DOMAIN attempts
  BY <1>1 DEF IndInv, TypeOK
<1>3. a \in AttemptType /\ a.scope \in Scopes /\ a.provider \in Providers
  BY <1>2, AttemptScopes DEF IndInv
<1>4. a.state = "reserved" /\ seen.cost # Overflow
  BY DEF UnchangedBySettle
<1>5. seen.input \in Nat /\ seen.output \in Nat /\ seen.cost \in Nat
  BY <1>1, <1>4, ObservedType
<1>6. /\ attempts' = [attempts EXCEPT ![id] = SettledAttempt(a, seen)]
      /\ scopes' = [scopes EXCEPT ![a.scope] = SettledRow(scopes[a.scope], a, seen)]
  BY DEF Settle
<1>7. attempts \in Seq(AttemptType) /\ scopes \in [Scopes -> RowType \cup {NoRow}]
  BY DEF IndInv, TypeOK
<1>8. scopes[a.scope] # NoRow
  BY <1>2 DEF IndInv, AttemptsHaveRows
<1> HIDE DEF Observed
<1> QED
  BY <1>2, <1>3, <1>4, <1>5, <1>6, <1>7, <1>8

\* A settlement refunds exactly what the attempt is charged less.
LEMMA SettleBalance ==
    ASSUME IndInv, IndInv', LedgerBalanced, NEW c \in Callers, Settle(c),
           NEW id, id = caller[c].id,
           NEW a, a = attempts[id],
           NEW seen, seen = Observed(caller[c].usage, a.provider),
           ~UnchangedBySettle(a, seen)
    PROVE  LedgerBalanced'
<1> DEFINE s == a.scope
           row == scopes[s]
           new == SettledRow(row, a, seen)
           b == SettledAttempt(a, seen)
           n == Len(attempts)
<1>1. /\ id \in DOMAIN attempts
      /\ a \in AttemptType /\ a.state = "reserved"
      /\ s \in Scopes
      /\ seen.input \in Nat /\ seen.output \in Nat /\ seen.cost \in Nat
      /\ row # NoRow /\ row \in RowType
      /\ attempts'[id] = b
      /\ \A i \in DOMAIN attempts : i # id => attempts'[i] = attempts[i]
      /\ DOMAIN attempts' = DOMAIN attempts /\ Len(attempts') = n
      /\ scopes'[s] = new
      /\ \A t \in Scopes \ {s} : scopes'[t] = scopes[t]
  BY SettleChanges
<1>2. TypeOK /\ TypeOK' /\ ChargesTyped /\ ChargesTyped'
  <2>1. TypeOK /\ TypeOK'
    BY DEF IndInv
  <2> QED
    BY <2>1, ChargesHaveTypes, PTL
<1>3. n \in Nat /\ DOMAIN attempts = 1..n
  BY <1>2 DEF TypeOK
<1>4. /\ b.scope = s
      /\ ChargedTokens(a) = a.reserved_input + a.reserved_output
      /\ ChargedCost(a) = a.reserved_cost
      /\ ChargedTokens(b) = IF Within(a, seen) THEN seen.input + seen.output
                            ELSE a.reserved_input + a.reserved_output
      /\ ChargedCost(b) = IF Within(a, seen) THEN seen.cost ELSE a.reserved_cost
  BY <1>1 DEF SettledAttempt, AttemptRow, ChargedTokens, ChargedCost
<1>5. /\ new.calls = row.calls
      /\ new.tokens = row.tokens + (ChargedTokens(b) - ChargedTokens(a))
      /\ new.cost = row.cost + (ChargedCost(b) - ChargedCost(a))
  <2>1. /\ a.reserved_input \in Nat /\ a.reserved_output \in Nat /\ a.reserved_cost \in Nat
        /\ row.tokens \in Int /\ row.cost \in Int
    BY <1>1 DEF AttemptType, RowType
  <2> HIDE DEF row, b
  <2>2. CASE Within(a, seen)
    <3>1. /\ new.calls = row.calls
          /\ new.tokens = row.tokens - ((a.reserved_input - seen.input)
                                        + (a.reserved_output - seen.output))
          /\ new.cost = row.cost - (a.reserved_cost - seen.cost)
      BY <2>2 DEF SettledRow, ScopeRow
    <3>2. /\ ChargedTokens(b) = seen.input + seen.output
          /\ ChargedCost(b) = seen.cost
      BY <1>4, <2>2
    <3>3. /\ ChargedTokens(a) = a.reserved_input + a.reserved_output
          /\ ChargedCost(a) = a.reserved_cost
          /\ seen.input \in Nat /\ seen.output \in Nat /\ seen.cost \in Nat
      BY <1>1, <1>4
    <3> HIDE DEF new
    <3> QED
      BY <2>1, <3>1, <3>2, <3>3
  <2>3. CASE ~Within(a, seen)
    <3>1. new.calls = row.calls /\ new.tokens = row.tokens /\ new.cost = row.cost
      BY <2>3 DEF SettledRow, ScopeRow
    <3>2. ChargedTokens(b) = ChargedTokens(a) /\ ChargedCost(b) = ChargedCost(a)
      BY <1>4, <2>3
    <3>3. ChargedTokens(a) \in Int /\ ChargedCost(a) \in Int
      BY <1>4, <2>1
    <3> HIDE DEF new
    <3> QED
      BY <2>1, <3>1, <3>2, <3>3
  <2> QED
    BY <2>2, <2>3
<1> HIDE DEF s, row, new, b, n
<1>6. \A t : AttemptsOf(t)' = AttemptsOf(t)
  BY <1>1, <1>4 DEF AttemptsOf, s
<1>7. ASSUME NEW t \in Scopes, scopes'[t] # NoRow
      PROVE  /\ scopes'[t].calls = Cardinality(AttemptsOf(t))
             /\ scopes'[t].tokens = Total(TokensOf(t)', n)
             /\ scopes'[t].cost = Total(CostOf(t)', n)
  <2>1. /\ TokensOf(t) \in [Nat -> Int] /\ CostOf(t) \in [Nat -> Int]
        /\ TokensOf(t)' \in [Nat -> Int] /\ CostOf(t)' \in [Nat -> Int]
    BY <1>2 DEF ChargesTyped
  <2>2. \A i \in 1..n : i # id => /\ TokensOf(t)'[i] = TokensOf(t)[i]
                                 /\ CostOf(t)'[i] = CostOf(t)[i]
    <3> SUFFICES ASSUME NEW i \in 1..n, i # id
                 PROVE  TokensOf(t)'[i] = TokensOf(t)[i] /\ CostOf(t)'[i] = CostOf(t)[i]
      OBVIOUS
    <3>1. i \in Nat /\ attempts'[i] = attempts[i]
      BY <1>1, <1>3
    <3>2. i \in AttemptsOf(t)' <=> i \in AttemptsOf(t)
      BY <1>6
    <3> QED
      BY <3>1, <3>2 DEF TokensOf, CostOf
  <2>3. CASE t = s
    <3>1. id \in AttemptsOf(t) /\ id \in 1..n /\ id \in Nat
      BY <1>1, <1>3, <2>3 DEF AttemptsOf, s
    <3>2. /\ TokensOf(t)[id] = ChargedTokens(a) /\ CostOf(t)[id] = ChargedCost(a)
          /\ TokensOf(t)'[id] = ChargedTokens(b) /\ CostOf(t)'[id] = ChargedCost(b)
      BY <1>1, <1>6, <3>1 DEF TokensOf, CostOf
    <3>3. /\ Total(TokensOf(t)', n) = Total(TokensOf(t), n)
                                        + (TokensOf(t)'[id] - TokensOf(t)[id])
          /\ Total(CostOf(t)', n) = Total(CostOf(t), n) + (CostOf(t)'[id] - CostOf(t)[id])
      BY <1>3, <2>1, <2>2, <3>1, TotalUpdate
    <3>4. /\ row.calls = Cardinality(AttemptsOf(t))
          /\ row.tokens = Total(TokensOf(t), n)
          /\ row.cost = Total(CostOf(t), n)
      BY <1>1, <2>3 DEF LedgerBalanced, row, n
    <3> QED
      BY <1>1, <1>5, <2>3, <3>2, <3>3, <3>4
  <2>4. CASE t # s
    <3>1. id \notin AttemptsOf(t)
      BY <2>4 DEF AttemptsOf, s
    <3>2. \A i \in 1..n : TokensOf(t)'[i] = TokensOf(t)[i] /\ CostOf(t)'[i] = CostOf(t)[i]
      <4>1. id \in Nat /\ id \notin AttemptsOf(t)'
        BY <1>1, <1>3, <1>6, <3>1
      <4>2. /\ TokensOf(t)[id] = 0 /\ TokensOf(t)'[id] = 0
            /\ CostOf(t)[id] = 0 /\ CostOf(t)'[id] = 0
        BY <3>1, <4>1 DEF TokensOf, CostOf
      <4> QED
        BY <2>2, <4>2
    <3>3. Total(TokensOf(t)', n) = Total(TokensOf(t), n) /\ Total(CostOf(t)', n) = Total(CostOf(t), n)
      BY <1>3, <2>1, <3>2, TotalSame
    <3> QED
      BY <1>1, <1>7, <2>4, <3>3 DEF LedgerBalanced, n
  <2> QED
    BY <2>3, <2>4
<1> QED
  BY <1>1, <1>6, <1>7 DEF LedgerBalanced

\* Reservations are charged at the provider's price, and so a settlement within
\* its token reservation is within its cost reservation.
LEMMA PricesStep ==
    ASSUME IndInv, ReservedAtPrice, CostOverrunIsTokenOverrun, [Next]_vars
    PROVE  ReservedAtPrice' /\ CostOverrunIsTokenOverrun'
<1>1. CASE attempts' = attempts
  BY <1>1 DEF ReservedAtPrice, CostOverrunIsTokenOverrun
<1>2. ASSUME NEW c \in Callers, NEW s \in Scopes, NEW policy \in Policies,
             NEW p \in Providers, NEW r \in Requests, Reserve(c, s, policy, p, r)
      PROVE  ReservedAtPrice' /\ CostOverrunIsTokenOverrun'
  <2> DEFINE charge == Charge(policy, p, r)
             a == AttemptRow(s, p, charge.input, charge.output, charge.cost,
                             "reserved", Unobserved)
  <2>1. attempts' = Append(attempts, a)
    BY <1>2 DEF Reserve
  <2>2. /\ a.reserved_cost = Price(a.provider, a.reserved_input, a.reserved_output)
        /\ a.state = "reserved"
    BY DEF AttemptRow, Charge
  <2>3. attempts \in Seq(AttemptType)
    BY DEF IndInv, TypeOK
  <2>4. charge.input \in Nat /\ charge.output \in Nat /\ charge.cost \in Nat
    BY <1>2, ChargeType DEF Reserve
  <2>5. a \in AttemptType
    BY <2>4 DEF AttemptRow, Unobserved, AttemptType, AttemptStates
  <2> HIDE DEF a
  <2>6. \A i \in DOMAIN attempts' : attempts'[i] = a \/ (i \in DOMAIN attempts /\ attempts'[i] = attempts[i])
    BY <2>1, <2>3, <2>5
  <2> QED
    BY <2>2, <2>6 DEF ReservedAtPrice, CostOverrunIsTokenOverrun
<1>3. ASSUME NEW c \in Callers, Settle(c)
      PROVE  ReservedAtPrice' /\ CostOverrunIsTokenOverrun'
  <2>1. PICK id, a, seen : /\ id = caller[c].id
                           /\ a = attempts[id]
                           /\ seen = Observed(caller[c].usage, a.provider)
    OBVIOUS
  <2>2. CASE UnchangedBySettle(a, seen)
    BY <1>3, <2>1, <2>2, <1>1 DEF Settle
  <2>3. CASE ~UnchangedBySettle(a, seen)
    <3> DEFINE b == SettledAttempt(a, seen)
    <3>1. /\ id \in DOMAIN attempts
          /\ a \in AttemptType /\ a.provider \in Providers
          /\ seen.input \in Nat /\ seen.output \in Nat /\ seen.cost \in Nat
          /\ attempts'[id] = b
          /\ \A i \in DOMAIN attempts : i # id => attempts'[i] = attempts[i]
          /\ DOMAIN attempts' = DOMAIN attempts
      BY <1>3, <2>1, <2>3, SettleChanges
    <3>2. /\ b.provider = a.provider /\ b.reserved_input = a.reserved_input
          /\ b.reserved_output = a.reserved_output /\ b.reserved_cost = a.reserved_cost
          /\ b.observed_input = seen.input /\ b.observed_output = seen.output
          /\ b.state = "overrun" => ~Within(a, seen)
      BY DEF SettledAttempt, AttemptRow
    <3>3. a.reserved_input \in Nat /\ a.reserved_output \in Nat /\ a.reserved_cost \in Nat
      BY <3>1 DEF AttemptType
    <3>4. a.reserved_cost = Price(a.provider, a.reserved_input, a.reserved_output)
      BY <2>1, <3>1 DEF ReservedAtPrice
    <3>5. seen.cost = Price(a.provider, seen.input, seen.output)
      BY <2>1 DEF Observed
    <3>6. ASSUME b.state = "overrun", seen.input <= a.reserved_input,
                 seen.output <= a.reserved_output
          PROVE  FALSE
      <4>1. Price(a.provider, a.reserved_input, a.reserved_output) # Overflow
        BY <3>3, <3>4 DEF Overflow
      <4>2. seen.cost <= a.reserved_cost
        BY <3>1, <3>3, <3>4, <3>5, <3>6, <4>1, PriceMonotone
      <4> QED
        BY <3>2, <3>6, <4>2 DEF Within
    <3> HIDE DEF b
    <3>7. ReservedAtPrice'
      BY <3>1, <3>2, <3>4 DEF ReservedAtPrice
    <3>8. CostOverrunIsTokenOverrun'
      BY <3>1, <3>2, <3>3, <3>6 DEF CostOverrunIsTokenOverrun
    <3> QED
      BY <3>7, <3>8
  <2> QED
    BY <2>2, <2>3
<1>4. ASSUME NEW c \in Callers,
             \/ \E s \in Scopes, policy \in Policies, p \in Providers, r \in Requests :
                   ReserveDenied(c, s, policy, p, r)
             \/ \E mode \in {"chat", "stream"}, consumed \in Usages : Call(c, mode, consumed)
             \/ \E source \in {"ProviderReported", "Estimated"}, cache \in CacheTokens :
                   \/ ChatResponse(c, source, cache)
                   \/ \E sofar \in Usages : StreamUsage(c, source, cache, sofar)
             \/ StreamError(c)
             \/ StreamEnd(c)
             \/ Abandon(c)
      PROVE  attempts' = attempts
  BY <1>4 DEF ReserveDenied, Call, ChatResponse, StreamUsage, StreamError, StreamEnd, Abandon
<1>5. CASE UNCHANGED vars
  BY <1>5, <1>1 DEF vars
<1> QED
  BY <1>1, <1>2, <1>3, <1>4, <1>5 DEF Next

\* A step that leaves attempts and consumption alone and moves one caller, whose
\* new usage covers its call, keeps the reports whole.
LEMMA ReportsCallerStep ==
    ASSUME IndInv, ReportsAreWhole, NEW c \in Callers, NEW new \in CallerType,
           UNCHANGED <<attempts, upstream>>,
           caller' = [caller EXCEPT ![c] = new],
           (/\ new.pc \in {"stream", "settling"}
            /\ new.usage # NoUsage
            /\ ~attempts[new.id].provider.partial_usage)
              => Covers(new.usage.input, new.usage.output, new.id)
    PROVE  ReportsAreWhole'
<1>1. caller'[c] = new /\ \A d \in Callers \ {c} : caller'[d] = caller[d]
  BY DEF IndInv, TypeOK
<1> QED
  BY <1>1 DEF ReportsAreWhole, Covers

\* Without running counts, what a call reports and settles is what it consumed.
LEMMA ReportsStep ==
    ASSUME IndInv, IndInv', ReportsAreWhole, [Next]_vars
    PROVE  ReportsAreWhole'
<1>1. /\ caller \in [Callers -> CallerType]
      /\ attempts \in Seq(AttemptType)
      /\ upstream \in Seq(UsageType \cup {NoUsage})
      /\ Len(upstream) = Len(attempts)
      /\ \A c \in Callers : caller[c].pc # "idle" => caller[c].id \in DOMAIN attempts
  BY DEF IndInv, TypeOK
<1>2. Idle \in CallerType /\ Idle.pc = "idle"
  BY DEF Idle, CallState, CallerType
<1>3. \A c \in Callers : caller[c] \in CallerType /\ caller'[c] \in CallerType
  BY DEF IndInv, TypeOK
<1>4. ASSUME NEW c \in Callers, NEW s \in Scopes, NEW policy \in Policies,
             NEW p \in Providers, NEW r \in Requests,
             ReserveDenied(c, s, policy, p, r)
      PROVE  ReportsAreWhole'
  BY <1>4 DEF ReserveDenied, ReportsAreWhole, Covers
<1>5. ASSUME NEW c \in Callers, NEW s \in Scopes, NEW policy \in Policies,
             NEW p \in Providers, NEW r \in Requests, Reserve(c, s, policy, p, r)
      PROVE  ReportsAreWhole'
  <2> DEFINE new == CallState("reserved", Len(attempts) + 1, NoUsage, FALSE, FALSE)
  <2>1. PICK a : attempts' = Append(attempts, a) /\ a.state = "reserved"
    BY <1>5 DEF Reserve, AttemptRow
  <2>2. upstream' = Append(upstream, NoUsage)
    BY <1>5 DEF Reserve
  <2>3. caller' = [caller EXCEPT ![c] = new] /\ new.pc = "reserved"
    BY <1>5 DEF Reserve, CallState
  <2> HIDE DEF new
  <2>4. attempts' \in Seq(AttemptType)
    BY DEF IndInv, TypeOK
  <2>5. /\ \A i \in DOMAIN attempts : attempts'[i] = attempts[i] /\ upstream'[i] = upstream[i]
        /\ \A i \in DOMAIN attempts' : i \in DOMAIN attempts \/ attempts'[i] = a
    BY <1>1, <2>1, <2>2, <2>4
  <2>6. caller'[c] = new /\ \A d \in Callers \ {c} : caller'[d] = caller[d]
    BY <1>1, <2>3
  <2>7. ASSUME NEW d \in Callers, caller'[d].pc \in {"stream", "settling"},
               caller'[d].usage # NoUsage,
               ~attempts'[caller'[d].id].provider.partial_usage
        PROVE  Covers(caller[d].usage.input, caller[d].usage.output, caller[d].id)'
    <3>1. d # c /\ caller'[d] = caller[d] /\ caller[d].id \in DOMAIN attempts
      BY <1>1, <2>3, <2>6, <2>7
    <3>2. Covers(caller[d].usage.input, caller[d].usage.output, caller[d].id)
      BY <2>5, <2>7, <3>1 DEF ReportsAreWhole
    <3> QED
      BY <2>5, <3>1, <3>2 DEF Covers
  <2>8. ASSUME NEW i \in DOMAIN attempts', attempts'[i].state = "settled",
               ~attempts'[i].provider.partial_usage
        PROVE  Covers(attempts[i].observed_input, attempts[i].observed_output, i)'
    BY <2>1, <2>5, <2>8 DEF ReportsAreWhole, Covers
  <2> QED
    BY <2>7, <2>8 DEF ReportsAreWhole, Covers
<1>6. ASSUME NEW c \in Callers, NEW mode \in {"chat", "stream"}, NEW consumed \in Usages,
             Call(c, mode, consumed)
      PROVE  ReportsAreWhole'
  <2> DEFINE new == CallState(mode, caller[c].id, NoUsage, FALSE, FALSE)
  <2>1. caller' = [caller EXCEPT ![c] = new] /\ new.usage = NoUsage
    BY <1>1, <1>6 DEF Call, CallState
  <2> HIDE DEF new
  <2>2. /\ upstream' = [upstream EXCEPT ![caller[c].id] = consumed]
        /\ attempts' = attempts /\ caller[c].pc = "reserved"
    BY <1>6 DEF Call
  <2>3. caller'[c] = new /\ \A d \in Callers \ {c} : caller'[d] = caller[d]
    BY <1>1, <2>1
  <2>4. \A i \in DOMAIN attempts : i # caller[c].id => upstream'[i] = upstream[i]
    BY <1>1, <2>2
  <2>5. /\ attempts[caller[c].id].state = "reserved"
        /\ \A d \in Callers \ {c} : caller[d].pc # "idle" =>
              caller[d].id # caller[c].id /\ caller[d].id \in DOMAIN attempts
    BY <1>1, <2>2 DEF IndInv, InFlightOwnsReservation
  <2> QED
    BY <2>1, <2>2, <2>3, <2>4, <2>5 DEF ReportsAreWhole, Covers
<1>7. ASSUME NEW c \in Callers, NEW source \in {"ProviderReported", "Estimated"},
             NEW cache \in CacheTokens, ChatResponse(c, source, cache)
      PROVE  ReportsAreWhole'
  <2> DEFINE usage == Report(source, upstream[caller[c].id], cache)
             settling == CallState("settling", caller[c].id, usage, FALSE, TRUE)
             new == IF Settleable(usage) THEN settling ELSE Idle
  <2>1. UNCHANGED <<attempts, upstream>> /\ caller' = [caller EXCEPT ![c] = new]
    BY <1>1, <1>7 DEF ChatResponse
  <2>2. upstream[caller[c].id] \in UsageType
    BY <1>7 DEF ChatResponse, IndInv, CallersConsistent
  <2>3. /\ settling.id = caller[c].id
        /\ settling.usage.input = upstream[caller[c].id].input
        /\ settling.usage.output = upstream[caller[c].id].output
    BY DEF CallState, Report
  <2>4. new \in CallerType
    BY <1>1, <1>3, <2>1
  <2> HIDE DEF settling, usage
  <2>5. Covers(settling.usage.input, settling.usage.output, settling.id)
    BY <2>2, <2>3 DEF Covers, UsageType
  <2> QED
    BY <1>2, <2>1, <2>4, <2>5, ReportsCallerStep
<1>8. ASSUME NEW c \in Callers, NEW source \in {"ProviderReported", "Estimated"},
             NEW cache \in CacheTokens, NEW sofar \in Usages,
             StreamUsage(c, source, cache, sofar)
      PROVE  ReportsAreWhole'
  <2> DEFINE final == sofar = upstream[caller[c].id]
             new == CallState("stream", caller[c].id, Report(source, sofar, cache),
                              caller[c].failed, final)
  <2>1. UNCHANGED <<attempts, upstream>> /\ caller' = [caller EXCEPT ![c] = new]
    BY <1>1, <1>8 DEF StreamUsage
  <2>2. final \/ attempts[caller[c].id].provider.partial_usage
    BY <1>8 DEF StreamUsage
  <2>3. sofar \in UsageType
    BY ConstantsAssumption
  <2>4. /\ new.id = caller[c].id /\ new.usage.input = sofar.input
        /\ new.usage.output = sofar.output
    BY DEF CallState, Report
  <2>5. new \in CallerType
    BY <1>1, <1>3, <2>1
  <2>6. ~attempts[new.id].provider.partial_usage
          => Covers(new.usage.input, new.usage.output, new.id)
    BY <2>2, <2>3, <2>4 DEF Covers, UsageType
  <2> HIDE DEF new
  <2> QED
    BY <2>1, <2>5, <2>6, ReportsCallerStep
<1>9. ASSUME NEW c \in Callers, StreamError(c) \/ StreamEnd(c) \/ Abandon(c)
      PROVE  ReportsAreWhole'
  <2>1. PICK new : /\ caller' = [caller EXCEPT ![c] = new]
                   /\ \/ new = Idle
                      \/ /\ caller[c].pc = "stream"
                         /\ new.id = caller[c].id /\ new.usage = caller[c].usage
    BY <1>1, <1>9 DEF StreamError, StreamEnd, Abandon, CallState
  <2>2. UNCHANGED <<attempts, upstream>>
    BY <1>9 DEF StreamError, StreamEnd, Abandon
  <2>3. new \in CallerType
    BY <1>1, <1>3, <2>1
  <2>4. (/\ new.pc \in {"stream", "settling"}
         /\ new.usage # NoUsage
         /\ ~attempts[new.id].provider.partial_usage)
           => Covers(new.usage.input, new.usage.output, new.id)
    BY <1>2, <2>1 DEF ReportsAreWhole
  <2> QED
    BY <2>1, <2>2, <2>3, <2>4, ReportsCallerStep
<1>10. ASSUME NEW c \in Callers, Settle(c)
       PROVE  ReportsAreWhole'
  <2>1. caller' = [caller EXCEPT ![c] = Idle] /\ upstream' = upstream /\ caller[c].pc = "settling"
    BY <1>10 DEF Settle, AttemptTaken
  <2>2. PICK id, a, seen : /\ id = caller[c].id
                           /\ a = attempts[id]
                           /\ seen = Observed(caller[c].usage, a.provider)
    OBVIOUS
  <2>3. CASE UnchangedBySettle(a, seen)
    <3>1. attempts' = attempts
      BY <1>10, <2>2, <2>3 DEF Settle
    <3> QED
      BY <1>2, <2>1, <3>1, ReportsCallerStep
  <2>4. CASE ~UnchangedBySettle(a, seen)
    <3> DEFINE b == SettledAttempt(a, seen)
    <3>1. /\ id \in DOMAIN attempts
          /\ attempts'[id] = b
          /\ \A i \in DOMAIN attempts : i # id => attempts'[i] = attempts[i]
          /\ DOMAIN attempts' = DOMAIN attempts
      BY <1>10, <2>2, <2>4, SettleChanges
    <3>2. /\ b.provider = a.provider /\ b.observed_input = seen.input
          /\ b.observed_output = seen.output
      BY DEF SettledAttempt, AttemptRow
    <3>3. /\ seen.input = caller[c].usage.input + caller[c].usage.cache
          /\ seen.output = caller[c].usage.output
      BY <2>2 DEF Observed
    <3>4. caller[c].usage # NoUsage /\ caller[c].usage \in ReportType
      BY <1>3, <2>1 DEF IndInv, CallersConsistent, Settleable, CallerType
    <3>5. ~a.provider.partial_usage => Covers(caller[c].usage.input, caller[c].usage.output, id)
      BY <2>1, <2>2, <3>4 DEF ReportsAreWhole
    <3>6. ~a.provider.partial_usage => Covers(seen.input, seen.output, id)
      BY <3>3, <3>4, <3>5 DEF Covers, UsageType, ReportType
    <3> HIDE DEF b
    <3>7. \A d \in Callers \ {c} : /\ caller'[d] = caller[d]
                                   /\ caller[d].pc # "idle" =>
                                        caller[d].id # id /\ caller[d].id \in DOMAIN attempts
      BY <1>1, <2>1, <2>2 DEF IndInv, InFlightOwnsReservation
    <3>8. caller'[c].pc = "idle"
      BY <1>1, <1>2, <2>1
    <3> QED
      BY <2>1, <3>1, <3>2, <3>6, <3>7, <3>8 DEF ReportsAreWhole, Covers
  <2> QED
    BY <2>3, <2>4
<1>11. CASE UNCHANGED vars
  BY <1>11 DEF vars, ReportsAreWhole, Covers
<1> QED
  BY <1>4, <1>5, <1>6, <1>7, <1>8, <1>9, <1>10, <1>11 DEF Next

\* A step leaves the failed flag on streams only.
LEMMA FailedStep ==
    ASSUME IndInv, FailedIsStreaming, [Next]_vars
    PROVE  FailedIsStreaming'
<1>1. caller \in [Callers -> CallerType]
  BY DEF IndInv, TypeOK
<1>2. ASSUME NEW c \in Callers, NEW new, caller' = [caller EXCEPT ![c] = new],
             new.failed => new.pc = "stream"
      PROVE  FailedIsStreaming'
  BY <1>1, <1>2 DEF FailedIsStreaming
<1>3. ~Idle.failed
  BY DEF Idle, CallState
<1>4. ASSUME NEW c \in Callers, NEW at, NEW id, NEW usage, NEW finished,
             caller' = [caller EXCEPT ![c] = CallState(at, id, usage, FALSE, finished)]
      PROVE  FailedIsStreaming'
  <2>1. ~CallState(at, id, usage, FALSE, finished).failed
    BY DEF CallState
  <2> QED
    BY <1>2, <1>4, <2>1
<1>5. ASSUME NEW c \in Callers, NEW s \in Scopes, NEW policy \in Policies,
             NEW p \in Providers, NEW r \in Requests,
             ReserveDenied(c, s, policy, p, r) \/ Reserve(c, s, policy, p, r)
      PROVE  FailedIsStreaming'
  <2>1. CASE ReserveDenied(c, s, policy, p, r)
    BY <2>1 DEF ReserveDenied, FailedIsStreaming
  <2>2. CASE Reserve(c, s, policy, p, r)
    <3>1. caller' = [caller EXCEPT ![c] =
                        CallState("reserved", Len(attempts) + 1, NoUsage, FALSE, FALSE)]
      BY <2>2 DEF Reserve
    <3> QED
      BY <1>4, <3>1
  <2> QED
    BY <1>5, <2>1, <2>2
<1>6. ASSUME NEW c \in Callers, NEW mode \in {"chat", "stream"}, NEW consumed \in Usages,
             Call(c, mode, consumed)
      PROVE  FailedIsStreaming'
  <2>1. caller' = [caller EXCEPT ![c] = CallState(mode, caller[c].id, NoUsage, FALSE, FALSE)]
    BY <1>1, <1>6 DEF Call
  <2> QED
    BY <1>4, <2>1
<1>7. ASSUME NEW c \in Callers, NEW source \in {"ProviderReported", "Estimated"},
             NEW cache \in CacheTokens, ChatResponse(c, source, cache)
      PROVE  FailedIsStreaming'
  <2> DEFINE usage == Report(source, upstream[caller[c].id], cache)
  <2>1. \/ caller' = [caller EXCEPT ![c] = CallState("settling", caller[c].id, usage, FALSE, TRUE)]
        \/ caller' = [caller EXCEPT ![c] = Idle]
    BY <1>1, <1>7 DEF ChatResponse
  <2> QED
    BY <1>2, <1>3, <1>4, <2>1
<1>8. ASSUME NEW c \in Callers, NEW source \in {"ProviderReported", "Estimated"},
             NEW cache \in CacheTokens, NEW sofar \in Usages,
             StreamUsage(c, source, cache, sofar)
      PROVE  FailedIsStreaming'
  <2> DEFINE new == CallState("stream", caller[c].id, Report(source, sofar, cache),
                              caller[c].failed, sofar = upstream[caller[c].id])
  <2>1. caller' = [caller EXCEPT ![c] = new] /\ new.pc = "stream"
    BY <1>1, <1>8 DEF StreamUsage, CallState
  <2> HIDE DEF new
  <2> QED
    BY <1>2, <2>1
<1>9. ASSUME NEW c \in Callers, StreamError(c)
      PROVE  FailedIsStreaming'
  <2> DEFINE new == CallState("stream", caller[c].id, caller[c].usage, TRUE, caller[c].finished)
  <2>1. caller' = [caller EXCEPT ![c] = new] /\ new.pc = "stream"
    BY <1>1, <1>9 DEF StreamError, CallState
  <2> HIDE DEF new
  <2> QED
    BY <1>2, <2>1
<1>10. ASSUME NEW c \in Callers, StreamEnd(c)
       PROVE  FailedIsStreaming'
  <2>1. \/ caller' = [caller EXCEPT ![c] = CallState("settling", caller[c].id, caller[c].usage,
                                                     FALSE, caller[c].finished)]
        \/ caller' = [caller EXCEPT ![c] = Idle]
    BY <1>1, <1>10 DEF StreamEnd
  <2> QED
    BY <1>2, <1>3, <1>4, <2>1
<1>11. ASSUME NEW c \in Callers, Abandon(c) \/ Settle(c)
       PROVE  FailedIsStreaming'
  BY <1>2, <1>3, <1>11 DEF Abandon, Settle, AttemptTaken
<1>12. CASE UNCHANGED vars
  BY <1>12 DEF vars, FailedIsStreaming
<1> QED
  BY <1>5, <1>6, <1>7, <1>8, <1>9, <1>10, <1>11, <1>12 DEF Next

\* Every step keeps the ledger balanced.
LEMMA BalanceStep ==
    ASSUME IndInv, IndInv', LedgerBalanced, [Next]_vars
    PROVE  LedgerBalanced'
<1>1. ASSUME UNCHANGED <<scopes, attempts>>
      PROVE  LedgerBalanced'
  BY <1>1 DEF LedgerBalanced, AttemptsOf, TokensOf, CostOf
<1>2. ASSUME NEW c \in Callers, Settle(c)
      PROVE  LedgerBalanced'
  <2>1. PICK id, a, seen : /\ id = caller[c].id
                           /\ a = attempts[id]
                           /\ seen = Observed(caller[c].usage, a.provider)
    OBVIOUS
  <2>2. CASE UnchangedBySettle(a, seen)
    BY <1>1, <1>2, <2>1, <2>2 DEF Settle
  <2>3. CASE ~UnchangedBySettle(a, seen)
    BY <1>2, <2>1, <2>3, SettleBalance
  <2> QED
    BY <2>2, <2>3
<1>3. ASSUME NEW c \in Callers,
             \/ \E mode \in {"chat", "stream"}, consumed \in Usages : Call(c, mode, consumed)
             \/ \E source \in {"ProviderReported", "Estimated"}, cache \in CacheTokens :
                   \/ ChatResponse(c, source, cache)
                   \/ \E sofar \in Usages : StreamUsage(c, source, cache, sofar)
             \/ StreamError(c)
             \/ StreamEnd(c)
             \/ Abandon(c)
      PROVE  UNCHANGED <<scopes, attempts>>
  BY <1>3 DEF Call, ChatResponse, StreamUsage, StreamError, StreamEnd, Abandon
<1>4. CASE UNCHANGED vars
  BY <1>1, <1>4 DEF vars
<1> QED
  BY <1>1, <1>2, <1>3, <1>4, ReserveDeniedBalance, ReserveBalance DEF Next

\* The initial ledger is empty and balanced.
LEMMA InitChargeInv == Init => ChargeInv
<1> SUFFICES ASSUME Init PROVE ChargeInv
  OBVIOUS
<1>1. ~Idle.failed /\ Idle.pc = "idle"
  BY DEF Idle, CallState
<1> QED
  BY <1>1 DEF Init, ChargeInv, LedgerBalanced, ReservedAtPrice, CostOverrunIsTokenOverrun,
     ReportsAreWhole, FailedIsStreaming

\* The second layer holds in every reachable state.
THEOREM ChargeInvariance == Spec => []ChargeInv
<1>1. IndInv /\ IndInv' /\ ChargeInv /\ [Next]_vars => ChargeInv'
  BY BalanceStep, PricesStep, ReportsStep, FailedStep DEF ChargeInv
<1> QED
  BY <1>1, InitChargeInv, Invariance, PTL DEF Spec

\* The totals of every scope row are exactly what its attempt rows are charged,
\* for any number of attempts: nothing is lost or charged twice.
THEOREM LedgerIsBalanced == Spec => []LedgerBalanced
<1>1. ChargeInv => LedgerBalanced
  BY DEF ChargeInv
<1> QED
  BY <1>1, ChargeInvariance, PTL

\* A scope is blocked by overruns and by nothing else, and a settlement that
\* keeps to its tokens never overruns its cost.
THEOREM OverrunsAndBlocks == Spec => []OverrunsBlock
<1>1. IndInv /\ ChargeInv => OverrunsBlock
  BY DEF IndInv, ChargeInv, OverrunsBlock
<1> QED
  BY <1>1, Invariance, ChargeInvariance, PTL

\* What providers really consumed for a scope never exceeds its token limit while
\* every provider keeps to its window and cap and reports only finished answers.
THEOREM RealSpendIsWithinLimit == Spec => []RealSpendWithinLimit
<1>1. ASSUME IndInv, ChargeInv
      PROVE  RealSpendWithinLimit
  <2> SUFFICES ASSUME NEW s \in Scopes, scopes[s] # NoRow,
                      \A i \in AttemptsOf(s) : Honest(i)
               PROVE  LET spent == Total(ConsumedOf(s), Len(attempts))
                      IN  spent <= scopes[s].tokens /\ AtMost(spent, scopes[s].policy.max_tokens)
    BY DEF RealSpendWithinLimit
  <2> DEFINE n == Len(attempts)
  <2>1. /\ n \in Nat /\ DOMAIN attempts = 1..n
        /\ upstream \in Seq(UsageType \cup {NoUsage}) /\ Len(upstream) = n
        /\ scopes[s] \in RowType
    BY <1>1 DEF IndInv, TypeOK
  <2> HIDE DEF n
  <2>2. TokensOf(s) \in [Nat -> Int]
    BY <1>1, ChargesHaveTypes DEF IndInv, ChargesTyped
  <2>3. \A i \in AttemptsOf(s) : upstream[i] # NoUsage => upstream[i] \in UsageType
    BY <2>1 DEF AttemptsOf
  <2>4. ConsumedOf(s) \in [Nat -> Int]
    BY <2>3 DEF ConsumedOf, UsageType
  <2>5. ASSUME NEW i \in 1..n
        PROVE  ConsumedOf(s)[i] <= TokensOf(s)[i]
    <3>1. i \in Nat
      BY <2>1
    <3>2. CASE i \notin AttemptsOf(s)
      BY <3>1, <3>2 DEF ConsumedOf, TokensOf
    <3>3. CASE i \in AttemptsOf(s)
      <4> DEFINE a == attempts[i]
      <4>1. /\ a \in AttemptType /\ TokensOf(s)[i] = ChargedTokens(a)
            /\ i \in DOMAIN attempts /\ Honest(i)
        BY <1>1, <2>1, <3>1, <3>3, AttemptScopes DEF IndInv, TokensOf
      <4>2. /\ a.observed_input \in Nat /\ a.observed_output \in Nat
            /\ a.reserved_input \in Nat /\ a.reserved_output \in Nat
        BY <4>1 DEF AttemptType
      <4>3. CASE upstream[i] = NoUsage
        <5>1. ConsumedOf(s)[i] = 0
          BY <3>1, <4>3 DEF ConsumedOf
        <5> QED
          BY <4>1, <4>2, <5>1 DEF ChargedTokens
      <4>4. CASE upstream[i] # NoUsage
        <5>1. /\ ConsumedOf(s)[i] = upstream[i].input + upstream[i].output
              /\ upstream[i].input \in Nat /\ upstream[i].output \in Nat
          BY <2>3, <3>1, <3>3, <4>4 DEF ConsumedOf, UsageType
        <5>2. CASE a.state = "settled"
          <6>1. Covers(a.observed_input, a.observed_output, i)
            BY <1>1, <4>1, <5>2 DEF ChargeInv, ReportsAreWhole, Honest
          <6> QED
            BY <4>1, <4>2, <5>1, <5>2, <6>1 DEF Covers, ChargedTokens
        <5>3. CASE a.state # "settled"
          BY <4>1, <4>2, <4>4, <5>1, <5>3 DEF Honest, ChargedTokens
        <5> QED
          BY <5>2, <5>3
      <4> QED
        BY <4>3, <4>4
    <3> QED
      BY <3>2, <3>3
  <2>6. Total(ConsumedOf(s), n) <= Total(TokensOf(s), n)
    BY <2>1, <2>2, <2>4, <2>5, TotalAtMost
  <2>7. scopes[s].tokens = Total(TokensOf(s), n)
    BY <1>1 DEF ChargeInv, LedgerBalanced, n
  <2>8. AtMost(scopes[s].tokens, scopes[s].policy.max_tokens)
    BY <1>1 DEF IndInv, WithinLimits
  <2>9. /\ Total(ConsumedOf(s), n) \in Int /\ Total(TokensOf(s), n) \in Int
        /\ scopes[s].policy.max_tokens \in Int
    BY <2>1, <2>2, <2>4, TotalDef, ConstantsAssumption DEF RowType, PolicyType
  <2> QED
    BY <2>6, <2>7, <2>8, <2>9, ConstantsAssumption DEF AtMost, n
<1> QED
  BY <1>1, Invariance, ChargeInvariance, PTL

\* A stream that yielded an error item keeps its whole reservation.
THEOREM FailedStreamsKeepTheirCharge == Spec => FailedStreamKeepsCharge
<1> DEFINE Kept == \A c \in Callers : caller[c].failed =>
                       attempts'[caller[c].id] = attempts[caller[c].id]
<1>1. ASSUME IndInv, ChargeInv, [Next]_vars
      PROVE  Kept
  <2> SUFFICES ASSUME NEW c \in Callers, caller[c].failed
               PROVE  attempts'[caller[c].id] = attempts[caller[c].id]
    OBVIOUS
  <2>1. caller[c].pc = "stream" /\ caller[c].id \in DOMAIN attempts /\ attempts \in Seq(AttemptType)
    BY <1>1 DEF ChargeInv, FailedIsStreaming, IndInv, TypeOK
  <2>2. ASSUME NEW d \in Callers, NEW s \in Scopes, NEW policy \in Policies,
               NEW p \in Providers, NEW r \in Requests, Reserve(d, s, policy, p, r)
        PROVE  attempts'[caller[c].id] = attempts[caller[c].id]
    BY <2>1, <2>2 DEF Reserve
  <2>3. ASSUME NEW d \in Callers, Settle(d)
        PROVE  attempts'[caller[c].id] = attempts[caller[c].id]
    <3>1. d # c /\ caller[d].pc = "settling"
      BY <2>1, <2>3 DEF Settle
    <3>2. caller[d].id # caller[c].id /\ caller[d].id \in DOMAIN attempts
      BY <1>1, <2>1, <3>1 DEF IndInv, InFlightOwnsReservation, TypeOK
    <3>3. \/ attempts' = attempts
          \/ \E b : attempts' = [attempts EXCEPT ![caller[d].id] = b]
      BY <2>3 DEF Settle
    <3> QED
      BY <2>1, <3>2, <3>3
  <2>4. ASSUME NEW d \in Callers,
               \/ \E s \in Scopes, policy \in Policies, p \in Providers, r \in Requests :
                     ReserveDenied(d, s, policy, p, r)
               \/ \E mode \in {"chat", "stream"}, consumed \in Usages : Call(d, mode, consumed)
               \/ \E source \in {"ProviderReported", "Estimated"}, cache \in CacheTokens :
                     \/ ChatResponse(d, source, cache)
                     \/ \E sofar \in Usages : StreamUsage(d, source, cache, sofar)
               \/ StreamError(d)
               \/ StreamEnd(d)
               \/ Abandon(d)
        PROVE  attempts' = attempts
    BY <2>4 DEF ReserveDenied, Call, ChatResponse, StreamUsage, StreamError, StreamEnd, Abandon
  <2>5. CASE UNCHANGED vars
    BY <2>5 DEF vars
  <2> QED
    BY <1>1, <2>2, <2>3, <2>4, <2>5 DEF Next
<1> QED
  BY <1>1, Invariance, ChargeInvariance, PTL DEF Spec, FailedStreamKeepsCharge
=============================================================================
