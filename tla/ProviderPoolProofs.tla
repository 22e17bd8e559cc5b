-------------------------- MODULE ProviderPoolProofs --------------------------
(***************************************************************************)
(* Type correctness of the provider pool, that permits are neither lost    *)
(* nor made, and that no freeze is lifted except by its time or by an      *)
(* answered health check, for any providers, callers, limits and           *)
(* durations.                                                              *)
(***************************************************************************)
EXTENDS ProviderPool, FiniteSetTheorems, TLAPS

\* Least picks one of its two arguments, and nothing larger than the second.
LEMMA LeastBounded ==
    ASSUME NEW m \in Nat, NEW n \in Nat
    PROVE  Least(m, n) \in 0..n
BY DEF Least

\* The adaptive duration never exceeds the configured maximum.
LEMMA AdaptiveBounded ==
    ASSUME NEW n
    PROVE  Adaptive(n) \in 0..MaxFreeze
BY PoolAssumption DEF Adaptive

\* Every operation of a FreezeManager keeps its state well typed.
LEMMA FreezeTyped ==
    ASSUME NEW f \in FreezeType
    PROVE  /\ \A d \in Nat : Frozen(f, d) \in FreezeType
           /\ FrozenForGood(f) \in FreezeType
           /\ AutoThawed(f) \in FreezeType
           /\ Unfrozen \in FreezeType
<1>1. Unfrozen \in FreezeType /\ FrozenForGood(f) \in FreezeType /\ AutoThawed(f) \in FreezeType
  BY PoolAssumption DEF Unfrozen, FrozenForGood, AutoThawed, FreezeState, FreezeType
<1>2. ASSUME NEW d \in Nat PROVE Frozen(f, d) \in FreezeType
  <2> DEFINE streak == Least(f.streak + 1, StreakCap)
             length == IF d = 0 THEN Adaptive(streak) ELSE Least(d, MaxFreeze)
  <2>1. streak \in 0..StreakCap
    <3>1. f.streak + 1 \in Nat
      BY PoolAssumption DEF FreezeType
    <3> QED BY <3>1, LeastBounded, PoolAssumption
  <2>2. length \in 0..MaxFreeze
    BY AdaptiveBounded, LeastBounded, PoolAssumption
  <2>3. CASE f.permanent
    <3>1. Frozen(f, d) = FreezeState(f.frozen, TRUE, f.thawIn, streak)
      BY <2>3 DEF Frozen
    <3> HIDE DEF streak
    <3> QED BY <3>1, <2>1 DEF FreezeState, FreezeType
  <2>4. CASE ~f.permanent
    <3>1. Frozen(f, d) = FreezeState(TRUE, FALSE, length, streak)
      BY <2>4 DEF Frozen
    <3> HIDE DEF streak, length
    <3> QED BY <3>1, <2>1, <2>2 DEF FreezeState, FreezeType
  <2> QED BY <2>3, <2>4
<1> QED BY <1>1, <1>2

\* Serving a queue takes its first caller out and nobody else.
LEMMA ServedQueue ==
    ASSUME NEW q \in Seq(Calls), Distinct(q)
    PROVE  /\ Served(q) \in Seq(Calls)
           /\ Distinct(Served(q))
           /\ First(q) \subseteq Calls
           /\ \A x : InQueue(Served(q), x) <=> InQueue(q, x) /\ x \notin First(q)
           /\ \A x \in First(q) : InQueue(q, x)
           /\ q = <<>> => First(q) = {} /\ Served(q) = <<>>
           /\ q # <<>> => First(q) = {Head(q)}
<1>1. CASE q = <<>>
  BY <1>1 DEF Served, First, InQueue, Distinct
<1>2. CASE q # <<>>
  <2>1. Served(q) = Tail(q) /\ First(q) = {Head(q)}
    BY <1>2 DEF Served, First
  <2>2. /\ Tail(q) \in Seq(Calls) /\ Head(q) = q[1] /\ Len(q) \in Nat \ {0}
        /\ Len(Tail(q)) = Len(q) - 1
        /\ \A i \in 1..(Len(q) - 1) : Tail(q)[i] = q[i + 1]
    BY <1>2
  <2>3. DOMAIN q = 1..Len(q) /\ DOMAIN Tail(q) = 1..(Len(q) - 1)
    BY <2>2
  <2>4. Distinct(Tail(q))
    BY <2>2, <2>3 DEF Distinct
  <2>5. ASSUME NEW x PROVE InQueue(Tail(q), x) <=> InQueue(q, x) /\ x # Head(q)
    <3>1. ASSUME InQueue(Tail(q), x) PROVE InQueue(q, x) /\ x # Head(q)
      <4>1. PICK i \in 1..(Len(q) - 1) : Tail(q)[i] = x
        BY <3>1, <2>3 DEF InQueue
      <4>2. i + 1 \in 1..Len(q) /\ q[i + 1] = x /\ i + 1 # 1 /\ 1 \in 1..Len(q)
        BY <4>1, <2>2
      <4> QED BY <4>2, <2>2, <2>3 DEF InQueue, Distinct
    <3>2. ASSUME InQueue(q, x), x # Head(q) PROVE InQueue(Tail(q), x)
      <4>1. PICK i \in 1..Len(q) : q[i] = x
        BY <3>2, <2>3 DEF InQueue
      <4>2. i - 1 \in 1..(Len(q) - 1) /\ Tail(q)[i - 1] = x
        BY <4>1, <3>2, <2>2
      <4> QED BY <4>2, <2>3 DEF InQueue
    <3> QED BY <3>1, <3>2
  <2>6. InQueue(q, Head(q)) /\ Head(q) \in Calls
    BY <2>2, <2>3 DEF InQueue
  <2> QED BY <1>2, <2>1, <2>2, <2>4, <2>5, <2>6
<1> QED BY <1>1, <1>2

\* Joining a queue adds the caller at its end.
LEMMA JoinedQueue ==
    ASSUME NEW q \in Seq(Calls), NEW c \in Calls, Distinct(q), ~InQueue(q, c)
    PROVE  /\ Append(q, c) \in Seq(Calls)
           /\ Distinct(Append(q, c))
           /\ \A x : InQueue(Append(q, c), x) <=> InQueue(q, x) \/ x = c
<1> DEFINE r == Append(q, c)
<1>1. /\ r \in Seq(Calls) /\ Len(q) \in Nat /\ DOMAIN q = 1..Len(q) /\ DOMAIN r = 1..(Len(q) + 1)
      /\ \A i \in 1..Len(q) : r[i] = q[i]
      /\ r[Len(q) + 1] = c
  OBVIOUS
<1> HIDE DEF r
<1>2. Distinct(r)
  <2> SUFFICES ASSUME NEW i \in 1..(Len(q) + 1), NEW j \in 1..(Len(q) + 1), r[i] = r[j]
               PROVE  i = j
    BY <1>1 DEF Distinct
  <2>1. CASE i \in 1..Len(q) /\ j \in 1..Len(q)
    BY <2>1, <1>1 DEF Distinct
  <2>2. CASE i = Len(q) + 1 \/ j = Len(q) + 1
    BY <2>2, <1>1 DEF InQueue
  <2> QED BY <2>1, <2>2, <1>1
<1>3. ASSUME NEW x PROVE InQueue(r, x) <=> InQueue(q, x) \/ x = c
  <2>1. ASSUME InQueue(r, x) PROVE InQueue(q, x) \/ x = c
    <3>1. PICK i \in 1..(Len(q) + 1) : r[i] = x
      BY <2>1, <1>1 DEF InQueue
    <3>2. CASE i \in 1..Len(q)
      BY <3>1, <3>2, <1>1 DEF InQueue
    <3>3. CASE i = Len(q) + 1
      BY <3>1, <3>3, <1>1
    <3> QED BY <3>1, <3>2, <3>3, <1>1
  <2>2. ASSUME InQueue(q, x) PROVE InQueue(r, x)
    <3>1. PICK i \in 1..Len(q) : q[i] = x
      BY <2>2, <1>1 DEF InQueue
    <3>2. i \in DOMAIN r /\ r[i] = x
      BY <3>1, <1>1
    <3> QED BY <3>2 DEF InQueue
  <2>3. ASSUME x = c PROVE InQueue(r, x)
    <3>1. Len(q) + 1 \in DOMAIN r
      BY <1>1
    <3> QED BY <2>3, <3>1, <1>1 DEF InQueue
  <2> QED BY <2>1, <2>2, <2>3
<1> QED BY <1>1, <1>2, <1>3 DEF r

\* Leaving a queue takes out the caller that leaves and nobody else.
LEMMA LeftQueue ==
    ASSUME NEW q \in Seq(Calls), NEW c \in Calls, Distinct(q), InQueue(q, c)
    PROVE  /\ Without(q, c) \in Seq(Calls)
           /\ Distinct(Without(q, c))
           /\ \A x : InQueue(Without(q, c), x) <=> InQueue(q, x) /\ x # c
           /\ q # <<>>
<1> DEFINE k == CHOOSE i \in DOMAIN q : q[i] = c
           n == Len(q)
           r == Without(q, c)
<1>1. k \in DOMAIN q /\ q[k] = c
  BY DEF InQueue
<1>2. n \in Nat /\ DOMAIN q = 1..n /\ k \in 1..n
  BY <1>1
<1>3. r = [i \in 1..(n - 1) |-> IF i < k THEN q[i] ELSE q[i + 1]]
  BY DEF Without
<1> HIDE DEF k
<1>4. \A i \in 1..n : q[i] \in Calls
  BY <1>2
<1>5. \A i \in 1..(n - 1) : (IF i < k THEN q[i] ELSE q[i + 1]) \in Calls
  BY <1>2, <1>4
<1>6. r \in Seq(Calls) /\ DOMAIN r = 1..(n - 1)
  <2>1. n - 1 \in Nat
    BY <1>2
  <2>2. r \in [1..(n - 1) -> Calls]
    BY <1>3, <1>5
  <2> HIDE DEF r
  <2> QED BY <2>1, <2>2
<1> HIDE DEF r, n
<1>7. \A i \in 1..(n - 1) : r[i] = IF i < k THEN q[i] ELSE q[i + 1]
  BY <1>3, Zenon
<1>8. Distinct(r)
  <2> DEFINE old(i) == IF i < k THEN i ELSE i + 1
  <2>1. \A i \in 1..(n - 1) : old(i) \in 1..n /\ r[i] = q[old(i)]
    BY <1>2, <1>7
  <2>2. \A i, j \in 1..(n - 1) : old(i) = old(j) => i = j
    BY <1>2
  <2> HIDE DEF old
  <2> QED BY <2>1, <2>2, <1>2, <1>6 DEF Distinct
<1>9. ASSUME NEW x PROVE InQueue(r, x) <=> InQueue(q, x) /\ x # c
  <2>1. ASSUME InQueue(r, x) PROVE InQueue(q, x) /\ x # c
    <3>1. PICK i \in 1..(n - 1) : r[i] = x
      BY <2>1, <1>6 DEF InQueue
    <3>2. PICK j \in 1..n : q[j] = x /\ j # k
      BY <3>1, <1>2, <1>7
    <3> QED BY <3>2, <1>1, <1>2 DEF InQueue, Distinct
  <2>2. ASSUME InQueue(q, x), x # c PROVE InQueue(r, x)
    <3>1. PICK j \in 1..n : q[j] = x
      BY <2>2, <1>2 DEF InQueue
    <3>2. CASE j < k
      <4>1. j \in 1..(n - 1) /\ r[j] = x
        BY <3>1, <3>2, <1>2, <1>7
      <4> QED BY <4>1, <1>6 DEF InQueue
    <3>3. CASE j > k
      <4>1. j - 1 \in 1..(n - 1) /\ r[j - 1] = x
        BY <3>1, <3>3, <1>2, <1>7
      <4> QED BY <4>1, <1>6 DEF InQueue
    <3> QED BY <3>1, <3>2, <3>3, <2>2, <1>1, <1>2
  <2> QED BY <2>1, <2>2
<1> QED BY <1>1, <1>2, <1>6, <1>8, <1>9 DEF r

\* One element leaves a finite set and at most one new element joins it.
LEMMA SwapCardinality ==
    ASSUME NEW S, IsFiniteSet(S), NEW c \in S, NEW L, NEW h, L = {} \/ (L = {h} /\ h \notin S)
    PROVE  /\ Cardinality(S) \in Nat
           /\ L = {} => Cardinality((S \ {c}) \cup L) = Cardinality(S) - 1
           /\ L # {} => Cardinality((S \ {c}) \cup L) = Cardinality(S)
<1>1. IsFiniteSet(S \ {c}) /\ Cardinality(S \ {c}) = Cardinality(S) - 1 /\ Cardinality(S) \in Nat
  BY FS_RemoveElement, FS_CardinalityType
<1>2. CASE L = {}
  <2>1. (S \ {c}) \cup L = S \ {c}
    BY <1>2
  <2> QED BY <1>1, <1>2, <2>1
<1>3. CASE L = {h} /\ h \notin S
  <2>1. Cardinality((S \ {c}) \cup {h}) = Cardinality(S \ {c}) + 1
    BY <1>1, <1>3, FS_AddElement
  <2> QED BY <1>1, <1>3, <2>1
<1> QED BY <1>2, <1>3

-----------------------------------------------------------------------------
(* The inductive invariant: types, where a call or a check may be without  *)
(* a provider, and the balance of the permits.                             *)

Seated == {"global", "admitted", "local"} \cup InFlight

SideTyped ==
    /\ freeze \in [Providers -> FreezeType]
    /\ counted \in [Calls -> Nat]
    /\ todo \in [Probers -> SUBSET Providers]
    /\ probe \in [Probers -> Providers \cup {NoProvider}]
    /\ answer \in [Probers -> {"none", "pending", "healthy", "unhealthy"}]
    /\ overtaken \in [Probers -> BOOLEAN]
    /\ \A q \in Probers : answer[q] # "none" => probe[q] \in Providers

QueueTyped ==
    /\ free \in [Providers -> Nat]
    /\ waiting \in [Providers -> Seq(Calls)]
    /\ globalFree \in Nat
    /\ globalWait \in Seq(Calls)

CallTyped ==
    /\ pc \in [Calls -> Scanning \cup InFlight \cup Ended \cup
                        {"idle", "chosen", "global", "admitted", "local"}]
    /\ call \in [Calls -> CallType \cup {NoCall}]
    /\ at \in [Calls -> 1..(NumProviders + 1)]
    /\ cand \in [Calls -> SUBSET Providers]
    /\ sel \in [Calls -> Providers \cup {NoProvider}]
    /\ attempt \in [Calls -> 0..(MaxAttempts - 1)]
    /\ \A c \in Calls : pc[c] \in {"thaw", "weigh"} => at[c] \in Providers
    /\ \A c \in Calls : pc[c] \in {"chosen"} \cup Seated => sel[c] \in Providers

IndInv == SideTyped /\ QueueTyped /\ CallTyped /\ PermitsBalance

\* The parts of the inductive invariant give the type invariant.
LEMMA IndInvTyped == IndInv => TypeOK
BY DEF IndInv, SideTyped, QueueTyped, CallTyped, TypeOK

\* The initial state satisfies the inductive invariant.
LEMMA InitInv == Init => IndInv
<1> SUFFICES ASSUME Init PROVE IndInv
  OBVIOUS
<1>1. SideTyped
  BY PoolAssumption DEF Init, SideTyped, Unfrozen, FreezeState, FreezeType
<1>2. QueueTyped
  BY PoolAssumption DEF Init, QueueTyped
<1>3. CallTyped
  BY PoolAssumption DEF Init, CallTyped, Providers, Scanning, Seated, InFlight
<1>4. Admitted = {} /\ \A p \in Providers : Holders(p) = {}
  BY DEF Init, Admitted, Holders, InFlight
<1>5. PermitsBalance
  <2>1. Cardinality({}) = 0
    BY FS_EmptySet
  <2>2. ProviderBalance
    <3> SUFFICES ASSUME NEW p \in Providers
                 PROVE  free[p] + Cardinality(Holders(p)) = MaxConcurrency /\ waiting[p] = <<>>
      BY DEF ProviderBalance
    <3>1. free[p] = MaxConcurrency /\ waiting[p] = <<>>
      BY DEF Init
    <3>2. Cardinality(Holders(p)) = 0
      BY <1>4, <2>1
    <3> QED BY <3>1, <3>2, PoolAssumption
  <2>3. GlobalBalance
    BY <1>4, <2>1, PoolAssumption DEF Init, GlobalBalance
  <2>4. Queues
    <3>1. Distinct(<<>>) /\ \A c : ~InQueue(<<>>, c)
      BY DEF Distinct, InQueue
    <3>2. \A c \in Calls : pc[c] = "idle"
      BY DEF Init
    <3> QED BY <3>1, <3>2 DEF Init, Queues
  <2> QED BY <2>2, <2>3, <2>4 DEF PermitsBalance
<1> QED BY <1>1, <1>2, <1>3, <1>5 DEF IndInv

\* A step that neither touches a semaphore nor lets a call gain or lose a
\* place keeps the balance.
Still ==
    /\ UNCHANGED poolVars
    /\ \A c \in Calls : \/ pc'[c] = pc[c] /\ sel'[c] = sel[c]
                        \/ pc'[c] \notin Seated /\ pc[c] \notin Seated
                        \/ pc'[c] \in InFlight /\ pc[c] \in InFlight /\ sel'[c] = sel[c]

\* Still steps keep the permits in balance.
LEMMA StillBalance == PermitsBalance /\ Still => PermitsBalance'
<1> SUFFICES ASSUME PermitsBalance, Still PROVE PermitsBalance'
  OBVIOUS
<1>1. UNCHANGED <<free, waiting, globalFree, globalWait>>
  BY DEF Still, poolVars
<1>2. ASSUME NEW p \in Providers PROVE Holders(p)' = Holders(p)
  BY DEF Still, Holders, Seated, InFlight
<1>3. Admitted' = Admitted
  BY DEF Still, Admitted, Seated, InFlight
<1>4. ASSUME NEW c \in Calls
      PROVE  /\ (pc'[c] = "global") <=> (pc[c] = "global")
             /\ \A p : (pc'[c] = "local" /\ sel'[c] = p) <=> (pc[c] = "local" /\ sel[c] = p)
  BY DEF Still, Seated, InFlight
<1>5. ProviderBalance'
  BY <1>1, <1>2 DEF PermitsBalance, ProviderBalance
<1>6. GlobalBalance'
  BY <1>1, <1>3 DEF PermitsBalance, GlobalBalance
<1>7. Queues'
  BY <1>1, <1>4 DEF PermitsBalance, Queues
<1> QED BY <1>5, <1>6, <1>7 DEF PermitsBalance

-----------------------------------------------------------------------------
(* The steps that take, hand on or give back permits.                      *)

\* The sets the balance counts are finite, and who is in them is a call.
LEMMA SeatsFinite ==
    /\ IsFiniteSet(Admitted) /\ Cardinality(Admitted) \in Nat
    /\ \A p \in Providers : IsFiniteSet(Holders(p)) /\ Cardinality(Holders(p)) \in Nat
<1>1. Admitted \subseteq Calls /\ \A p \in Providers : Holders(p) \subseteq Calls
  BY DEF Admitted, Holders
<1> QED BY <1>1, PoolAssumption, FS_Subset, FS_CardinalityType

\* Taking or queueing for the global permit keeps the invariant.
LEMMA JoinGlobalInv ==
    ASSUME IndInv, NEW c \in Calls, JoinGlobal(c)
    PROVE  IndInv'
<1> USE DEF JoinGlobal
<1>0. pc[c] = "chosen" /\ sel[c] \in Providers /\ c \notin Admitted
  BY DEF IndInv, CallTyped, Admitted, InFlight
<1>1. SideTyped'
  BY DEF IndInv, SideTyped, probeVars
<1>2. CASE globalFree > 0
  <2>1. /\ globalFree' = globalFree - 1 /\ pc' = [pc EXCEPT ![c] = "admitted"]
        /\ UNCHANGED <<free, waiting, globalWait, sel, call, at, cand, attempt>>
    BY <1>2 DEF Goto, routeVars
  <2>2. QueueTyped' /\ CallTyped'
    BY <1>0, <1>2, <2>1 DEF IndInv, QueueTyped, CallTyped, Seated, InFlight
  <2>3. Admitted' = Admitted \cup {c} /\ \A p \in Providers : Holders(p)' = Holders(p)
    BY <1>0, <2>1 DEF IndInv, CallTyped, Admitted, Holders, InFlight
  <2>4. Cardinality(Admitted') = Cardinality(Admitted) + 1
    BY <1>0, <2>3, SeatsFinite, FS_AddElement
  <2>5. ProviderBalance'
    BY <2>1, <2>3 DEF IndInv, PermitsBalance, ProviderBalance
  <2>6. GlobalBalance'
    BY <1>2, <2>1, <2>3, <2>4, SeatsFinite, PoolAssumption DEF IndInv, QueueTyped, PermitsBalance, GlobalBalance
  <2>7. Queues'
    BY <1>0, <2>1 DEF IndInv, CallTyped, PermitsBalance, Queues
  <2> QED BY <1>1, <2>2, <2>5, <2>6, <2>7 DEF IndInv, PermitsBalance
<1>3. CASE ~(globalFree > 0)
  <2>1. /\ globalWait' = Append(globalWait, c) /\ pc' = [pc EXCEPT ![c] = "global"]
        /\ UNCHANGED <<free, waiting, globalFree, sel, call, at, cand, attempt>>
    BY <1>3 DEF Goto, routeVars
  <2>2. Distinct(globalWait) /\ ~InQueue(globalWait, c) /\ globalWait \in Seq(Calls)
    BY <1>0 DEF IndInv, QueueTyped, PermitsBalance, Queues
  <2>3. /\ globalWait' \in Seq(Calls) /\ Distinct(globalWait')
        /\ \A x : InQueue(globalWait', x) <=> InQueue(globalWait, x) \/ x = c
    BY <2>1, <2>2, JoinedQueue
  <2>4. QueueTyped' /\ CallTyped'
    BY <1>0, <2>1, <2>3 DEF IndInv, QueueTyped, CallTyped, Seated, InFlight
  <2>5. Admitted' = Admitted /\ \A p \in Providers : Holders(p)' = Holders(p)
    BY <1>0, <2>1 DEF IndInv, CallTyped, Admitted, Holders, InFlight
  <2>6. ProviderBalance'
    BY <2>1, <2>5 DEF IndInv, PermitsBalance, ProviderBalance
  <2>7. GlobalBalance'
    BY <1>3, <2>1, <2>5 DEF IndInv, QueueTyped, PermitsBalance, GlobalBalance
  <2>8. Queues'
    BY <1>0, <2>1, <2>3 DEF IndInv, CallTyped, PermitsBalance, Queues
  <2> QED BY <1>1, <2>4, <2>6, <2>7, <2>8 DEF IndInv, PermitsBalance
<1> QED BY <1>2, <1>3

\* Taking or queueing for a provider's permit keeps the invariant.
LEMMA JoinLocalInv ==
    ASSUME IndInv, NEW c \in Calls, JoinLocal(c)
    PROVE  IndInv'
<1> PICK p \in Providers : p = sel[c]
  BY DEF JoinLocal, IndInv, CallTyped, Seated
<1>0. pc[c] = "admitted" /\ p = sel[c] /\ c \in Admitted /\ \A o \in Providers : c \notin Holders(o)
  BY DEF JoinLocal, Admitted, Holders, InFlight
<1>1. SideTyped'
  BY DEF JoinLocal, IndInv, SideTyped, probeVars
<1>2. CASE free[p] > 0
  <2>1. /\ free' = [free EXCEPT ![p] = @ - 1] /\ pc' = [pc EXCEPT ![c] = "calling"]
        /\ UNCHANGED <<globalFree, waiting, globalWait, sel, call, at, cand, attempt>>
    BY <1>2 DEF JoinLocal, Goto, routeVars
  <2>2. QueueTyped' /\ CallTyped'
    BY <1>0, <1>2, <2>1 DEF IndInv, QueueTyped, CallTyped, Seated, InFlight
  <2>3. /\ Admitted' = Admitted /\ Holders(p)' = Holders(p) \cup {c}
        /\ \A o \in Providers \ {p} : Holders(o)' = Holders(o)
    BY <1>0, <2>1 DEF IndInv, CallTyped, Admitted, Holders, InFlight
  <2>4. Cardinality(Holders(p)') = Cardinality(Holders(p)) + 1
    BY <1>0, <2>3, SeatsFinite, FS_AddElement
  <2>5. ProviderBalance'
    <3> SUFFICES ASSUME NEW o \in Providers
                 PROVE  /\ free'[o] + Cardinality(Holders(o)') = MaxConcurrency
                        /\ waiting'[o] # <<>> => free'[o] = 0
      BY DEF ProviderBalance
    <3>1. CASE o = p
      <4>1. free[p] \in Nat /\ free'[p] = free[p] - 1 /\ waiting'[p] = waiting[p]
        BY <2>1 DEF IndInv, QueueTyped
      <4>2. free[p] + Cardinality(Holders(p)) = MaxConcurrency /\ waiting[p] = <<>>
        BY <1>2 DEF IndInv, PermitsBalance, ProviderBalance
      <4>3. Cardinality(Holders(p)) \in Nat
        BY SeatsFinite
      <4> QED BY <2>4, <3>1, <4>1, <4>2, <4>3
    <3>2. CASE o # p
      BY <2>1, <2>3, <3>2 DEF IndInv, QueueTyped, PermitsBalance, ProviderBalance
    <3> QED BY <3>1, <3>2
  <2>6. GlobalBalance'
    BY <2>1, <2>3 DEF IndInv, PermitsBalance, GlobalBalance
  <2>7. Queues'
    BY <1>0, <2>1 DEF IndInv, CallTyped, PermitsBalance, Queues
  <2> QED BY <1>1, <2>2, <2>5, <2>6, <2>7 DEF IndInv, PermitsBalance
<1>3. CASE ~(free[p] > 0)
  <2>1. /\ waiting' = [waiting EXCEPT ![p] = Append(@, c)] /\ pc' = [pc EXCEPT ![c] = "local"]
        /\ UNCHANGED <<free, globalWait, globalFree, sel, call, at, cand, attempt>>
    BY <1>3 DEF JoinLocal, Goto, routeVars
  <2>2. Distinct(waiting[p]) /\ ~InQueue(waiting[p], c) /\ waiting[p] \in Seq(Calls)
    BY <1>0 DEF IndInv, QueueTyped, PermitsBalance, Queues
  <2>3. /\ Append(waiting[p], c) \in Seq(Calls) /\ Distinct(Append(waiting[p], c))
        /\ \A x : InQueue(Append(waiting[p], c), x) <=> InQueue(waiting[p], x) \/ x = c
    BY <2>2, JoinedQueue
  <2>4. /\ waiting'[p] = Append(waiting[p], c)
        /\ \A o \in Providers \ {p} : waiting'[o] = waiting[o]
    BY <1>0, <2>1 DEF IndInv, QueueTyped
  <2>5. QueueTyped' /\ CallTyped'
    BY <1>0, <2>1, <2>3 DEF IndInv, QueueTyped, CallTyped, Seated, InFlight
  <2>6. Admitted' = Admitted /\ \A o \in Providers : Holders(o)' = Holders(o)
    BY <1>0, <2>1 DEF IndInv, CallTyped, Admitted, Holders, InFlight
  <2>7. ProviderBalance'
    <3>1. free[p] = 0
      BY <1>0, <1>3 DEF IndInv, QueueTyped
    <3> QED BY <2>1, <2>4, <2>6, <3>1 DEF IndInv, PermitsBalance, ProviderBalance
  <2>8. GlobalBalance'
    BY <2>1, <2>6 DEF IndInv, PermitsBalance, GlobalBalance
  <2>9. Queues'
    <3>1. /\ Distinct(globalWait') /\ \A x \in Calls : (pc'[x] = "global") <=> InQueue(globalWait', x)
      BY <1>0, <2>1 DEF IndInv, CallTyped, PermitsBalance, Queues
    <3>2. ASSUME NEW o \in Providers
          PROVE  /\ Distinct(waiting'[o])
                 /\ \A x \in Calls : (pc'[x] = "local" /\ sel'[x] = o) <=> InQueue(waiting'[o], x)
      <4>1. CASE o = p
        BY <1>0, <2>1, <2>3, <2>4, <4>1 DEF IndInv, CallTyped, PermitsBalance, Queues
      <4>2. CASE o # p
        BY <1>0, <2>1, <2>4, <4>2 DEF IndInv, CallTyped, PermitsBalance, Queues
      <4> QED BY <4>1, <4>2
    <3> QED BY <3>1, <3>2 DEF Queues
  <2> QED BY <1>1, <2>5, <2>7, <2>8, <2>9 DEF IndInv, PermitsBalance
<1> QED BY <1>2, <1>3

\* A call leaves and gives its global permit back: the first waiter gets it.
LEMMA LeaveGlobal ==
    ASSUME IndInv, NEW c \in Calls, NEW how \in Ended, NEW L \in SUBSET Calls,
           pc[c] \in {"admitted", "local"} \cup InFlight,
           \A x \in L : x # c /\ pc[x] = "local",
           Leave(c, how, L, First(globalWait)), ReleaseGlobal
    PROVE  /\ CallTyped'
           /\ globalFree' \in Nat /\ globalWait' \in Seq(Calls)
           /\ GlobalBalance'
           /\ Distinct(globalWait')
           /\ \A x \in Calls : (pc'[x] = "global") <=> InQueue(globalWait', x)
<1> DEFINE G == First(globalWait)
<1>1. /\ globalWait \in Seq(Calls) /\ Distinct(globalWait) /\ globalFree \in Nat
      /\ \A x \in Calls : (pc[x] = "global") <=> InQueue(globalWait, x)
  BY DEF IndInv, QueueTyped, PermitsBalance, Queues
<1>2. /\ Served(globalWait) \in Seq(Calls) /\ Distinct(Served(globalWait)) /\ G \subseteq Calls
      /\ \A x : InQueue(Served(globalWait), x) <=> InQueue(globalWait, x) /\ x \notin G
      /\ \A x \in G : InQueue(globalWait, x)
      /\ globalWait = <<>> => G = {} /\ Served(globalWait) = <<>>
      /\ globalWait # <<>> => G = {Head(globalWait)}
  BY <1>1, ServedQueue
<1>3. globalWait' = Served(globalWait)
  BY DEF ReleaseGlobal
<1> HIDE DEF G
<1>4. \A x \in G : x # c /\ x \notin L /\ pc[x] = "global" /\ x \in Calls
  BY <1>1, <1>2 DEF InFlight
<1>5. /\ pc'[c] = how
      /\ \A x \in L : pc'[x] = "calling"
      /\ \A x \in G : pc'[x] = "admitted"
      /\ \A x \in Calls \ ({c} \cup L \cup G) : pc'[x] = pc[x]
  BY <1>4 DEF Leave, G
<1>6. /\ sel' = [sel EXCEPT ![c] = NoProvider] /\ call' = [call EXCEPT ![c] = NoCall]
      /\ attempt' = [attempt EXCEPT ![c] = 0] /\ at' = at /\ cand' = cand
  BY DEF Leave
<1>7. pc' \in [Calls -> Scanning \cup InFlight \cup Ended \cup
                        {"idle", "chosen", "global", "admitted", "local"}]
  BY DEF Leave, IndInv, CallTyped, InFlight
<1>8. how \notin {"thaw", "weigh", "chosen", "global", "admitted", "local", "calling", "backoff", "streaming"}
  BY DEF Ended
<1>9. CallTyped'
  <2>1. /\ call' \in [Calls -> CallType \cup {NoCall}] /\ at' \in [Calls -> 1..(NumProviders + 1)]
        /\ cand' \in [Calls -> SUBSET Providers] /\ sel' \in [Calls -> Providers \cup {NoProvider}]
        /\ attempt' \in [Calls -> 0..(MaxAttempts - 1)]
    BY <1>6, PoolAssumption DEF IndInv, CallTyped
  <2>2. ASSUME NEW x \in Calls
        PROVE  /\ pc'[x] \in {"thaw", "weigh"} => at'[x] \in Providers
               /\ pc'[x] \in {"chosen"} \cup Seated => sel'[x] \in Providers
    <3>1. CASE x = c
      BY <1>5, <1>8, <3>1 DEF Seated, InFlight
    <3>2. CASE x # c
      BY <1>4, <1>5, <1>6, <3>2 DEF IndInv, CallTyped, Seated, InFlight
    <3> QED BY <3>1, <3>2
  <2> QED BY <1>7, <2>1, <2>2 DEF CallTyped
<1>10. c \in Admitted /\ Admitted' = (Admitted \ {c}) \cup G
  BY <1>4, <1>5, <1>8 DEF Admitted, InFlight
<1>11. GlobalBalance'
  <2>1. globalFree + Cardinality(Admitted) = GlobalMax /\ (globalWait # <<>> => globalFree = 0)
    BY DEF IndInv, PermitsBalance, GlobalBalance
  <2>2. IsFiniteSet(Admitted) /\ Cardinality(Admitted) \in Nat
    BY SeatsFinite
  <2>3. G = {} \/ (G = {Head(globalWait)} /\ Head(globalWait) \notin Admitted)
    BY <1>2, <1>4 DEF Admitted, InFlight
  <2>4. /\ G = {} => Cardinality(Admitted') = Cardinality(Admitted) - 1
        /\ G # {} => Cardinality(Admitted') = Cardinality(Admitted)
    BY <1>10, <2>2, <2>3, SwapCardinality
  <2>5. CASE globalWait = <<>>
    BY <1>1, <1>2, <1>3, <2>1, <2>2, <2>4, <2>5, PoolAssumption DEF ReleaseGlobal, GlobalBalance
  <2>6. CASE globalWait # <<>>
    BY <1>1, <1>2, <2>1, <2>2, <2>4, <2>6, PoolAssumption DEF ReleaseGlobal, GlobalBalance
  <2> QED BY <2>5, <2>6
<1>12. globalFree' \in Nat
  BY <1>1 DEF ReleaseGlobal
<1>13. ASSUME NEW x \in Calls PROVE (pc'[x] = "global") <=> InQueue(globalWait', x)
  <2>1. InQueue(globalWait', x) <=> (pc[x] = "global" /\ x \notin G)
    BY <1>1, <1>2, <1>3
  <2>2. CASE x = c
    BY <1>5, <1>8, <2>1, <2>2 DEF InFlight
  <2>3. CASE x # c
    BY <1>4, <1>5, <2>1, <2>3
  <2> QED BY <2>2, <2>3
<1> QED BY <1>2, <1>3, <1>9, <1>11, <1>12, <1>13

\* A call in flight ends: its provider's permit goes to the first waiter too.
LEMMA FinishInv ==
    ASSUME IndInv, NEW c \in Calls, NEW how \in Ended, pc[c] \in InFlight, Finish(c, how), SideTyped'
    PROVE  IndInv'
<1> PICK p \in Providers : p = sel[c]
  BY DEF IndInv, CallTyped, Seated
<1> DEFINE L == First(waiting[p])
<1>1. /\ waiting[p] \in Seq(Calls) /\ Distinct(waiting[p]) /\ free[p] \in Nat
      /\ \A x \in Calls : (pc[x] = "local" /\ sel[x] = p) <=> InQueue(waiting[p], x)
  BY DEF IndInv, QueueTyped, PermitsBalance, Queues
<1>2. /\ Served(waiting[p]) \in Seq(Calls) /\ Distinct(Served(waiting[p])) /\ L \subseteq Calls
      /\ \A x : InQueue(Served(waiting[p]), x) <=> InQueue(waiting[p], x) /\ x \notin L
      /\ \A x \in L : InQueue(waiting[p], x)
      /\ waiting[p] = <<>> => L = {} /\ Served(waiting[p]) = <<>>
      /\ waiting[p] # <<>> => L = {Head(waiting[p])}
  BY <1>1, ServedQueue
<1>3. ReleaseLocal(p) /\ ReleaseGlobal /\ Leave(c, how, L, First(globalWait))
  BY DEF Finish
<1> HIDE DEF L
<1>4. \A x \in L : x # c /\ pc[x] = "local" /\ sel[x] = p
  BY <1>1, <1>2 DEF InFlight
<1>5. /\ CallTyped' /\ globalFree' \in Nat /\ globalWait' \in Seq(Calls) /\ GlobalBalance'
      /\ Distinct(globalWait')
      /\ \A x \in Calls : (pc'[x] = "global") <=> InQueue(globalWait', x)
  BY <1>2, <1>3, <1>4, LeaveGlobal
<1>6. /\ waiting'[p] = Served(waiting[p])
      /\ \A o \in Providers \ {p} : waiting'[o] = waiting[o] /\ free'[o] = free[o]
      /\ free'[p] = IF waiting[p] = <<>> THEN free[p] + 1 ELSE free[p]
      /\ waiting' \in [Providers -> Seq(Calls)] /\ free' \in [Providers -> Nat]
  BY <1>2, <1>3 DEF ReleaseLocal, IndInv, QueueTyped
<1>7. \A x \in First(globalWait) : pc[x] = "global" /\ x \in Calls
  <2>1. globalWait \in Seq(Calls) /\ Distinct(globalWait)
    BY DEF IndInv, QueueTyped, PermitsBalance, Queues
  <2> QED BY <2>1, ServedQueue DEF IndInv, PermitsBalance, Queues
<1>8. /\ pc'[c] \in Ended
      /\ \A x \in L : pc'[x] = "calling"
      /\ \A x \in First(globalWait) : pc'[x] = "admitted"
      /\ \A x \in Calls \ ({c} \cup L \cup First(globalWait)) : pc'[x] = pc[x]
  BY <1>2, <1>3, <1>4, <1>7 DEF Leave, InFlight
<1>9. \A x \in Calls \ {c} : sel'[x] = sel[x]
  BY <1>3 DEF Leave, IndInv, CallTyped
<1>10. sel'[c] \notin Providers
  BY <1>3, PoolAssumption DEF Leave, IndInv, CallTyped
<1>11. /\ c \in Holders(p) /\ Holders(p)' = (Holders(p) \ {c}) \cup L
       /\ \A o \in Providers \ {p} : Holders(o)' = Holders(o)
  <2>1. \A x \in L : x \in Calls \ {c} /\ pc'[x] \in InFlight /\ pc[x] \notin InFlight
    BY <1>2, <1>4, <1>8 DEF InFlight
  <2>2. \A x \in First(globalWait) : x \in Calls \ {c} /\ pc'[x] \notin InFlight /\ pc[x] \notin InFlight
    BY <1>7, <1>8 DEF InFlight
  <2> QED BY <1>4, <1>8, <1>9, <1>10, <2>1, <2>2 DEF Holders
<1>12. ProviderBalance'
  <2>1. IsFiniteSet(Holders(p)) /\ Cardinality(Holders(p)) \in Nat
    BY SeatsFinite
  <2>2. L = {} \/ (L = {Head(waiting[p])} /\ Head(waiting[p]) \notin Holders(p))
    BY <1>2, <1>4 DEF Holders, InFlight
  <2>3. /\ L = {} => Cardinality(Holders(p)') = Cardinality(Holders(p)) - 1
        /\ L # {} => Cardinality(Holders(p)') = Cardinality(Holders(p))
    BY <1>11, <2>1, <2>2, SwapCardinality
  <2>4. free[p] + Cardinality(Holders(p)) = MaxConcurrency /\ (waiting[p] # <<>> => free[p] = 0)
    BY DEF IndInv, PermitsBalance, ProviderBalance
  <2>5. free'[p] + Cardinality(Holders(p)') = MaxConcurrency /\ (waiting'[p] # <<>> => free'[p] = 0)
    <3>1. CASE waiting[p] = <<>>
      BY <1>1, <1>2, <1>6, <2>1, <2>3, <2>4, <3>1, PoolAssumption
    <3>2. CASE waiting[p] # <<>>
      BY <1>1, <1>2, <1>6, <2>1, <2>3, <2>4, <3>2, PoolAssumption
    <3> QED BY <3>1, <3>2
  <2>6. ASSUME NEW o \in Providers \ {p}
        PROVE  free'[o] + Cardinality(Holders(o)') = MaxConcurrency /\ (waiting'[o] # <<>> => free'[o] = 0)
    BY <1>6, <1>11 DEF IndInv, PermitsBalance, ProviderBalance
  <2> QED BY <2>5, <2>6 DEF ProviderBalance
<1>13. ASSUME NEW o \in Providers
       PROVE  /\ Distinct(waiting'[o])
              /\ \A x \in Calls : (pc'[x] = "local" /\ sel'[x] = o) <=> InQueue(waiting'[o], x)
  <2>1. Distinct(waiting[o]) /\ \A x \in Calls : (pc[x] = "local" /\ sel[x] = o) <=> InQueue(waiting[o], x)
    BY DEF IndInv, PermitsBalance, Queues
  <2>2. \A x \in Calls : pc'[x] = "local" <=> pc[x] = "local" /\ x \notin L
    BY <1>4, <1>7, <1>8 DEF InFlight, Ended
  <2>3. pc'[c] # "local" /\ pc[c] # "local"
    BY <1>8 DEF InFlight, Ended
  <2>4. \A x \in Calls : (pc'[x] = "local" /\ sel'[x] = o) <=> (pc[x] = "local" /\ sel[x] = o /\ x \notin L)
    BY <1>9, <2>2, <2>3
  <2>5. CASE o = p
    BY <1>2, <1>6, <2>1, <2>4, <2>5
  <2>6. CASE o # p
    <3>1. waiting'[o] = waiting[o] /\ \A x \in L : sel[x] # o
      BY <1>4, <1>6, <2>6
    <3> QED BY <2>1, <2>4, <3>1
  <2> QED BY <2>5, <2>6
<1>14. Queues'
  BY <1>5, <1>13 DEF Queues
<1>15. QueueTyped'
  BY <1>5, <1>6 DEF QueueTyped
<1> QED BY <1>5, <1>12, <1>14, <1>15 DEF IndInv, PermitsBalance

\* A call dropped at an await keeps the invariant, wherever it waits.
LEMMA DropInv ==
    ASSUME IndInv, NEW c \in Calls, Drop(c)
    PROVE  IndInv'
<1>0. SideTyped'
  BY DEF Drop, IndInv, SideTyped, probeVars
<1>1. "dropped" \in Ended /\ "dropped" \notin Seated \cup {"chosen", "thaw", "weigh"}
  BY DEF Ended, Seated, InFlight
<1>2. CASE pc[c] = "global"
  <2>1. /\ globalWait' = Without(globalWait, c) /\ Leave(c, "dropped", {}, {})
        /\ UNCHANGED <<free, waiting, globalFree>>
    BY <1>2 DEF Drop, InFlight
  <2>2. globalWait \in Seq(Calls) /\ Distinct(globalWait) /\ InQueue(globalWait, c)
    BY <1>2 DEF IndInv, QueueTyped, PermitsBalance, Queues
  <2>3. /\ globalWait' \in Seq(Calls) /\ Distinct(globalWait')
        /\ \A x : InQueue(globalWait', x) <=> InQueue(globalWait, x) /\ x # c
        /\ globalWait # <<>>
    BY <2>1, <2>2, LeftQueue
  <2>4. /\ pc' = [pc EXCEPT ![c] = "dropped"] /\ sel' = [sel EXCEPT ![c] = NoProvider]
        /\ call' = [call EXCEPT ![c] = NoCall] /\ attempt' = [attempt EXCEPT ![c] = 0]
        /\ UNCHANGED <<at, cand>>
    BY <2>1 DEF Leave, IndInv, CallTyped
  <2>5. CallTyped'
    BY <1>1, <2>4, PoolAssumption DEF IndInv, CallTyped
  <2>6. Admitted' = Admitted /\ \A p \in Providers : Holders(p)' = Holders(p)
    BY <1>2, <2>4 DEF IndInv, CallTyped, Admitted, Holders, InFlight
  <2>7. ProviderBalance' /\ GlobalBalance'
    BY <2>1, <2>3, <2>6 DEF IndInv, PermitsBalance, ProviderBalance, GlobalBalance
  <2>8. Queues'
    BY <1>2, <2>1, <2>3, <2>4 DEF IndInv, CallTyped, PermitsBalance, Queues
  <2>9. QueueTyped'
    BY <2>1, <2>3 DEF IndInv, QueueTyped
  <2> QED BY <1>0, <2>5, <2>7, <2>8, <2>9 DEF IndInv, PermitsBalance
<1>3. ASSUME pc[c] \in {"admitted", "local"}, Leave(c, "dropped", {}, First(globalWait)), ReleaseGlobal,
             free' = free, waiting' \in [Providers -> Seq(Calls)],
             \A p \in Providers : waiting'[p] # <<>> => waiting[p] # <<>>,
             \A p \in Providers : Distinct(waiting'[p]),
             \A p \in Providers : \A x : InQueue(waiting'[p], x) <=> InQueue(waiting[p], x) /\ x # c
      PROVE  IndInv'
  <2>1. /\ CallTyped' /\ globalFree' \in Nat /\ globalWait' \in Seq(Calls) /\ GlobalBalance'
        /\ Distinct(globalWait')
        /\ \A x \in Calls : (pc'[x] = "global") <=> InQueue(globalWait', x)
    BY <1>1, <1>3, LeaveGlobal
  <2>2. \A x \in First(globalWait) : pc[x] = "global" /\ x \in Calls
    <3>1. globalWait \in Seq(Calls) /\ Distinct(globalWait)
      BY DEF IndInv, QueueTyped, PermitsBalance, Queues
    <3> QED BY <3>1, ServedQueue DEF IndInv, PermitsBalance, Queues
  <2>3. /\ pc'[c] = "dropped"
        /\ \A x \in First(globalWait) : pc'[x] = "admitted"
        /\ \A x \in Calls \ ({c} \cup First(globalWait)) : pc'[x] = pc[x]
        /\ \A x \in Calls \ {c} : sel'[x] = sel[x]
    BY <1>3, <2>2 DEF Leave, IndInv, CallTyped
  <2>4. \A p \in Providers : Holders(p)' = Holders(p)
    BY <1>3, <2>2, <2>3 DEF Holders, InFlight
  <2>5. ProviderBalance'
    BY <1>3, <2>4 DEF IndInv, PermitsBalance, ProviderBalance
  <2>6. \A x \in Calls : \A p \in Providers :
          (pc'[x] = "local" /\ sel'[x] = p) <=> (pc[x] = "local" /\ sel[x] = p /\ x # c)
    BY <2>2, <2>3
  <2>7. Queues'
    BY <1>3, <2>1, <2>6 DEF IndInv, PermitsBalance, Queues
  <2>8. QueueTyped'
    BY <1>3, <2>1 DEF IndInv, QueueTyped
  <2> QED BY <1>0, <2>1, <2>5, <2>7, <2>8 DEF IndInv, PermitsBalance
<1>4. CASE pc[c] = "admitted"
  <2>1. Leave(c, "dropped", {}, First(globalWait)) /\ ReleaseGlobal /\ UNCHANGED <<free, waiting>>
    BY <1>4 DEF Drop, InFlight
  <2>2. \A p \in Providers : Distinct(waiting[p]) /\ ~InQueue(waiting[p], c)
    BY <1>4 DEF IndInv, PermitsBalance, Queues
  <2> QED BY <1>3, <1>4, <2>1, <2>2 DEF IndInv, QueueTyped
<1>5. CASE pc[c] = "local"
  <2> PICK p \in Providers : p = sel[c]
    BY <1>5 DEF IndInv, CallTyped, Seated
  <2>1. /\ Leave(c, "dropped", {}, First(globalWait)) /\ ReleaseGlobal /\ free' = free
        /\ waiting' = [waiting EXCEPT ![p] = Without(@, c)]
    BY <1>5 DEF Drop, InFlight
  <2>2. waiting[p] \in Seq(Calls) /\ Distinct(waiting[p]) /\ InQueue(waiting[p], c)
    BY <1>5 DEF IndInv, QueueTyped, PermitsBalance, Queues
  <2>3. /\ Without(waiting[p], c) \in Seq(Calls) /\ Distinct(Without(waiting[p], c))
        /\ \A x : InQueue(Without(waiting[p], c), x) <=> InQueue(waiting[p], x) /\ x # c
        /\ waiting[p] # <<>>
    BY <2>2, LeftQueue
  <2>4. \A o \in Providers \ {p} : Distinct(waiting[o]) /\ ~InQueue(waiting[o], c)
    BY DEF IndInv, PermitsBalance, Queues
  <2>5. /\ waiting'[p] = Without(waiting[p], c)
        /\ \A o \in Providers \ {p} : waiting'[o] = waiting[o]
        /\ waiting' \in [Providers -> Seq(Calls)]
    BY <2>1, <2>3 DEF IndInv, QueueTyped
  <2>6. ASSUME NEW o \in Providers
        PROVE  /\ waiting'[o] # <<>> => waiting[o] # <<>>
               /\ Distinct(waiting'[o])
               /\ \A x : InQueue(waiting'[o], x) <=> InQueue(waiting[o], x) /\ x # c
    <3>1. CASE o = p
      BY <2>3, <2>5, <3>1
    <3>2. CASE o # p
      BY <2>4, <2>5, <3>2
    <3> QED BY <3>1, <3>2
  <2> QED BY <1>3, <1>5, <2>1, <2>5, <2>6
<1>6. CASE pc[c] \in InFlight
  <2>1. Finish(c, "dropped")
    BY <1>6 DEF Drop, InFlight
  <2> QED BY <1>0, <1>1, <1>6, <2>1, FinishInv
<1> QED BY <1>2, <1>4, <1>5, <1>6 DEF Drop

-----------------------------------------------------------------------------
(* The other steps: routing, work that keeps its permits, and thawing.     *)

\* A step is harmless when it keeps the types and is still.
LEMMA StillInv ==
    ASSUME IndInv, SideTyped', CallTyped', Still
    PROVE  IndInv'
<1>1. QueueTyped'
  BY DEF IndInv, QueueTyped, Still, poolVars
<1> QED BY <1>1, StillBalance DEF IndInv

\* What a failure does to a provider is well typed.
LEMMA ReportTyped ==
    ASSUME SideTyped, NEW p \in Providers, NEW e \in Errors, Report(p, e), counted' \in [Calls -> Nat]
    PROVE  SideTyped'
<1>1. freeze[p] \in FreezeType
  BY DEF SideTyped
<1>2. freeze' \in [Providers -> FreezeType]
  <2>1. CASE UNCHANGED freeze
    BY <2>1 DEF SideTyped
  <2>2. CASE freeze' = [freeze EXCEPT ![p] = FrozenForGood(@)]
    BY <1>1, <2>2, FreezeTyped DEF SideTyped
  <2>3. CASE \E d \in Durations : freeze' = [freeze EXCEPT ![p] = Frozen(@, d)]
    <3> PICK d \in Durations : freeze' = [freeze EXCEPT ![p] = Frozen(@, d)]
      BY <2>3
    <3>1. Frozen(freeze[p], d) \in FreezeType
      BY <1>1, FreezeTyped, PoolAssumption
    <3> QED BY <3>1 DEF SideTyped
  <2> QED BY <2>1, <2>2, <2>3 DEF Report
<1>3. overtaken' \in [Probers -> BOOLEAN] /\ UNCHANGED <<todo, probe, answer>>
  BY DEF Report
<1> QED BY <1>2, <1>3 DEF SideTyped

\* Counting a request keeps the counters numbers.
LEMMA CountTyped ==
    ASSUME SideTyped, NEW c \in Calls, Count(c) \/ UNCHANGED counted
    PROVE  counted' \in [Calls -> Nat]
BY DEF SideTyped, Count

\* The steps of the router keep the invariant.
LEMMA RouteInv ==
    ASSUME IndInv, NEW c \in Calls, (\E r \in CallType : Begin(c, r)) \/ Route(c)
    PROVE  IndInv'
<1> USE PoolAssumption
<1>1. ASSUME NEW r \in CallType, Begin(c, r) PROVE IndInv'
  <2>1. SideTyped'
    BY <1>1 DEF Begin, IndInv, SideTyped, probeVars
  <2>2. CallTyped'
    <3>1. r.preferred \in Providers \cup {NoProvider}
      BY DEF CallType
    <3>2. /\ pc' \in [Calls -> Scanning \cup InFlight \cup Ended \cup
                              {"idle", "chosen", "global", "admitted", "local"}]
          /\ call' \in [Calls -> CallType \cup {NoCall}]
          /\ sel' \in [Calls -> Providers \cup {NoProvider}]
          /\ UNCHANGED <<at, cand, attempt>>
      BY <1>1, <3>1 DEF Begin, Goto, IndInv, CallTyped, Scanning, Ended
    <3>3. ASSUME NEW x \in Calls
          PROVE  /\ pc'[x] \in {"thaw", "weigh"} => at'[x] \in Providers
                 /\ pc'[x] \in {"chosen"} \cup Seated => sel'[x] \in Providers
      BY <1>1, <3>1 DEF Begin, Goto, IndInv, CallTyped, Seated, InFlight
    <3> QED BY <3>2, <3>3 DEF CallTyped, IndInv
  <2>3. Still
    BY <1>1 DEF Begin, Goto, IndInv, CallTyped, Still, Seated, InFlight, Ended
  <2> QED BY <2>1, <2>2, <2>3, StillInv
<1>2. CASE Scan(c)
  <2>1. SideTyped'
    BY <1>2 DEF Scan, IndInv, SideTyped, probeVars
  <2>2. CallTyped'
    BY <1>2 DEF Scan, Goto, LookOn, IndInv, CallTyped, Seated, InFlight, Scanning, Providers
  <2>3. Still
    BY <1>2 DEF Scan, Goto, IndInv, CallTyped, Still, Seated, InFlight
  <2> QED BY <2>1, <2>2, <2>3, StillInv
<1>3. CASE TryAutoThaw(c)
  <2> PICK p \in Providers : p = at[c]
    BY <1>3 DEF TryAutoThaw, IndInv, CallTyped
  <2> DEFINE f == AutoThawed(freeze[p])
  <2>1. freeze' = [freeze EXCEPT ![p] = f] /\ f \in FreezeType
    BY <1>3, FreezeTyped DEF TryAutoThaw, IndInv, SideTyped
  <2>2. /\ pc[c] = "thaw"
        /\ IF f.frozen THEN LookOn(c) /\ Goto(c, "scan") ELSE Goto(c, "weigh") /\ UNCHANGED at
        /\ UNCHANGED <<poolVars, call, cand, sel, attempt, counted, probeVars>>
    BY <1>3 DEF TryAutoThaw
  <2> HIDE DEF f
  <2>3. SideTyped'
    BY <2>1, <2>2 DEF IndInv, SideTyped, probeVars
  <2>4. CallTyped'
    BY <2>2 DEF Goto, LookOn, IndInv, CallTyped, Seated, InFlight, Scanning, Providers
  <2>5. Still
    BY <2>2 DEF Goto, IndInv, CallTyped, Still, Seated, InFlight
  <2> QED BY <2>3, <2>4, <2>5, StillInv
<1>4. CASE Weigh(c)
  <2>1. SideTyped'
    BY <1>4 DEF Weigh, IndInv, SideTyped, probeVars
  <2>2. CallTyped'
    <3>1. at[c] \in Providers
      BY <1>4 DEF Weigh, IndInv, CallTyped
    <3>2. cand' \in [Calls -> SUBSET Providers]
      BY <1>4, <3>1 DEF Weigh, IndInv, CallTyped
    <3> QED BY <1>4, <3>1, <3>2 DEF Weigh, Goto, LookOn, IndInv, CallTyped, Seated, InFlight, Scanning, Providers
  <2>3. Still
    BY <1>4 DEF Weigh, Goto, IndInv, CallTyped, Still, Seated, InFlight
  <2> QED BY <2>1, <2>2, <2>3, StillInv
<1>5. CASE Choose(c)
  <2>1. SideTyped'
    BY <1>5 DEF Choose, IndInv, SideTyped, probeVars
  <2>2. CallTyped'
    <3>1. /\ at' = [at EXCEPT ![c] = 1] /\ cand' = [cand EXCEPT ![c] = {}] /\ UNCHANGED attempt
          /\ call' \in [Calls -> CallType \cup {NoCall}]
          /\ \/ pc' = [pc EXCEPT ![c] = "refused"] /\ UNCHANGED sel
             \/ \E p \in Providers : pc' = [pc EXCEPT ![c] = "chosen"] /\ sel' = [sel EXCEPT ![c] = p]
      BY <1>5 DEF Choose, Goto, IndInv, CallTyped
    <3> QED BY <3>1 DEF IndInv, CallTyped, Seated, InFlight, Ended, Providers
  <2>3. Still
    BY <1>5 DEF Choose, Goto, IndInv, CallTyped, Still, Seated, InFlight
  <2> QED BY <2>1, <2>2, <2>3, StillInv
<1> QED BY <1>1, <1>2, <1>3, <1>4, <1>5 DEF Route

\* The steps of a call in flight keep the invariant.
LEMMA WorkInv ==
    ASSUME IndInv, NEW c \in Calls, Work(c)
    PROVE  IndInv'
<1>0. "ok" \in Ended /\ "error" \in Ended /\ SideTyped
  BY DEF Ended, IndInv
<1>1. CASE ChatSucceeds(c)
  <2>1. pc[c] \in InFlight /\ Finish(c, "ok") /\ UNCHANGED <<freeze, probeVars>> /\ Count(c)
    BY <1>1 DEF ChatSucceeds, Calling, InFlight
  <2>2. SideTyped'
    BY <1>0, <2>1, CountTyped DEF SideTyped, probeVars
  <2> QED BY <1>0, <2>1, <2>2, FinishInv
<1>2. CASE ChatRetries(c)
  <2>1. SideTyped'
    BY <1>2 DEF ChatRetries, IndInv, SideTyped, probeVars
  <2>2. CallTyped'
    <3>1. pc[c] = "calling" /\ attempt[c] + 1 \in 0..(MaxAttempts - 1)
      BY <1>2, PoolAssumption DEF ChatRetries, Calling, IndInv, CallTyped
    <3> QED BY <1>2, <3>1 DEF ChatRetries, Goto, IndInv, CallTyped, routeVars, Seated, InFlight
  <2>3. Still
    BY <1>2 DEF ChatRetries, Calling, Goto, routeVars, IndInv, CallTyped, Still, Seated, InFlight
  <2> QED BY <2>1, <2>2, <2>3, StillInv
<1>3. CASE Retry(c)
  <2>1. SideTyped'
    BY <1>3 DEF Retry, IndInv, SideTyped, probeVars
  <2>2. CallTyped'
    BY <1>3 DEF Retry, Goto, IndInv, CallTyped, routeVars, Seated, InFlight
  <2>3. Still
    BY <1>3 DEF Retry, Goto, routeVars, IndInv, CallTyped, Still, Seated, InFlight
  <2> QED BY <2>1, <2>2, <2>3, StillInv
<1>4. CASE StreamOpens(c)
  <2>1. SideTyped'
    BY <1>4 DEF StreamOpens, IndInv, SideTyped, probeVars
  <2>2. CallTyped'
    BY <1>4 DEF StreamOpens, Calling, Goto, IndInv, CallTyped, routeVars, Seated, InFlight
  <2>3. Still
    BY <1>4 DEF StreamOpens, Calling, Goto, routeVars, IndInv, CallTyped, Still, Seated, InFlight
  <2> QED BY <2>1, <2>2, <2>3, StillInv
<1>5. CASE StreamEnds(c)
  <2>1. /\ pc[c] \in InFlight /\ Finish(c, "ok") /\ UNCHANGED <<freeze, probeVars>>
        /\ Count(c) \/ UNCHANGED counted
    BY <1>5 DEF StreamEnds, InFlight
  <2>2. SideTyped'
    BY <1>0, <2>1, CountTyped DEF SideTyped, probeVars
  <2> QED BY <1>0, <2>1, <2>2, FinishInv
<1>6. ASSUME NEW e \in Errors, ChatFails(c, e) \/ StreamRefused(c, e) PROVE IndInv'
  <2>1. pc[c] \in InFlight /\ Finish(c, "error") /\ Report(sel[c], e) /\ Count(c)
    BY <1>6 DEF ChatFails, StreamRefused, Calling, InFlight
  <2>2. sel[c] \in Providers
    BY <2>1 DEF IndInv, CallTyped, Seated
  <2>3. SideTyped'
    BY <1>0, <2>1, <2>2, CountTyped, ReportTyped
  <2> QED BY <1>0, <2>1, <2>3, FinishInv
<1>7. ASSUME NEW e \in Errors, StreamItemFails(c, e) PROVE IndInv'
  <2>1. pc[c] \in InFlight /\ Report(sel[c], e) /\ Count(c) /\ UNCHANGED <<poolVars, pc, routeVars, attempt>>
    BY <1>7 DEF StreamItemFails, InFlight
  <2>2. sel[c] \in Providers
    BY <2>1 DEF IndInv, CallTyped, Seated
  <2>3. SideTyped'
    BY <1>0, <2>1, <2>2, CountTyped, ReportTyped
  <2>4. CallTyped' /\ Still
    BY <2>1 DEF IndInv, CallTyped, Still, routeVars
  <2> QED BY <2>3, <2>4, StillInv
<1> QED BY <1>1, <1>2, <1>3, <1>4, <1>5, <1>6, <1>7 DEF Work

\* Time, the operator and the health checks leave the calls alone.
LEMMA ThawInv ==
    ASSUME IndInv,
           \/ Tick \/ LoopBegins
           \/ \E p \in Providers : OperatorFreezes(p)
           \/ \E q \in Probers : Probing(q)
    PROVE  IndInv'
<1>0. SideTyped
  BY DEF IndInv
<1>1. UNCHANGED <<poolVars, pc, routeVars, attempt, counted>>
  BY DEF Tick, LoopBegins, OperatorFreezes, Probing, SendProbe, ProbeAnswered, ApplyProbe
<1>2. CallTyped' /\ Still
  BY <1>1 DEF IndInv, CallTyped, Still, routeVars
<1>3. CASE Tick
  <2>1. ASSUME NEW p \in Providers, freeze[p].thawIn \notin {0, NoThaw}
        PROVE  FreezeState(freeze[p].frozen, freeze[p].permanent, freeze[p].thawIn - 1, freeze[p].streak)
                 \in FreezeType
    <3>1. freeze[p] \in FreezeType
      BY <1>0 DEF SideTyped
    <3>2. freeze[p].thawIn - 1 \in 0..MaxFreeze
      BY <2>1, <3>1, PoolAssumption DEF FreezeType
    <3> QED BY <3>1, <3>2 DEF FreezeType, FreezeState
  <2>2. freeze' \in [Providers -> FreezeType]
    BY <1>0, <1>3, <2>1 DEF Tick, SideTyped
  <2> QED BY <1>0, <1>1, <1>2, <1>3, <2>2, StillInv DEF Tick, SideTyped, probeVars
<1>4. CASE LoopBegins
  <2>1. SideTyped'
    BY <1>0, <1>1, <1>4 DEF LoopBegins, SideTyped
  <2> QED BY <1>2, <2>1, StillInv
<1>5. ASSUME NEW p \in Providers, OperatorFreezes(p) PROVE IndInv'
  <2>1. Frozen(freeze[p], 0) \in FreezeType
    BY <1>0, FreezeTyped DEF SideTyped
  <2>2. SideTyped'
    BY <1>0, <1>1, <1>5, <2>1 DEF OperatorFreezes, SideTyped, probeVars
  <2> QED BY <1>2, <2>2, StillInv
<1>6. ASSUME NEW q \in Probers, NEW p \in Providers, SendProbe(q, p) PROVE IndInv'
  <2>1. SideTyped'
    BY <1>0, <1>1, <1>6 DEF SendProbe, SideTyped
  <2> QED BY <1>2, <2>1, StillInv
<1>7. ASSUME NEW q \in Probers, NEW a \in {"healthy", "unhealthy"}, ProbeAnswered(q, a) PROVE IndInv'
  <2>1. SideTyped'
    BY <1>0, <1>1, <1>7 DEF ProbeAnswered, SideTyped
  <2> QED BY <1>2, <2>1, StillInv
<1>8. ASSUME NEW q \in Probers, ApplyProbe(q) PROVE IndInv'
  <2> PICK p \in Providers : p = probe[q]
    BY <1>0, <1>8 DEF ApplyProbe, SideTyped
  <2>1. Frozen(freeze[p], 0) \in FreezeType /\ Unfrozen \in FreezeType
    BY <1>0, FreezeTyped DEF SideTyped
  <2>2. freeze' \in [Providers -> FreezeType]
    BY <1>0, <1>8, <2>1 DEF ApplyProbe, SideTyped
  <2>3. SideTyped'
    BY <1>0, <1>1, <1>8, <2>2 DEF ApplyProbe, SideTyped
  <2> QED BY <1>2, <2>3, StillInv
<1> QED BY <1>3, <1>4, <1>5, <1>6, <1>7, <1>8 DEF Probing

\* Every step of the pool keeps the invariant.
LEMMA NextInv == IndInv /\ [Next]_vars => IndInv'
<1> SUFFICES ASSUME IndInv, [Next]_vars PROVE IndInv'
  OBVIOUS
<1>1. CASE UNCHANGED vars
  <2>1. SideTyped'
    BY <1>1 DEF vars, probeVars, IndInv, SideTyped
  <2>2. CallTyped' /\ Still
    BY <1>1 DEF vars, routeVars, IndInv, CallTyped, Still
  <2> QED BY <2>1, <2>2, StillInv
<1>2. ASSUME NEW c \in Calls, (\E r \in CallType : Begin(c, r)) \/ Route(c) PROVE IndInv'
  BY <1>2, RouteInv
<1>3. ASSUME NEW c \in Calls, Acquire(c) PROVE IndInv'
  BY <1>3, JoinGlobalInv, JoinLocalInv DEF Acquire
<1>4. ASSUME NEW c \in Calls, Work(c) \/ Drop(c) PROVE IndInv'
  BY <1>4, WorkInv, DropInv
<1>5. CASE \/ Tick \/ LoopBegins
           \/ \E p \in Providers : OperatorFreezes(p)
           \/ \E q \in Probers : Probing(q)
  BY <1>5, ThawInv
<1> QED BY <1>1, <1>2, <1>3, <1>4, <1>5 DEF Next

-----------------------------------------------------------------------------
(* What a step may do to a freeze.                                         *)

\* A provider's freeze goes from f to g in a way that needs no health check.
Keeps(f, g) ==
    /\ f.frozen /\ ~g.frozen => ~f.permanent /\ f.thawIn = 0
    /\ f.permanent => g.permanent

\* A provider answered a check that is about to be applied.
Vouched(p) == \E q \in Probers : probe[q] = p /\ answer[q] = "healthy"

\* The operations of the FreezeManager other than thaw lift no freeze whose
\* time is not over, whatever the state they meet; a permanent freeze is kept.
LEMMA KeepsFreeze ==
    ASSUME NEW f \in FreezeType
    PROVE  /\ \A d : Keeps(f, Frozen(f, d))
           /\ Keeps(f, FrozenForGood(f))
           /\ Keeps(f, AutoThawed(f))
           /\ Keeps(f, f)
           /\ \A t : Keeps(f, FreezeState(f.frozen, f.permanent, t, f.streak))
BY DEF Keeps, Frozen, FrozenForGood, AutoThawed, FreezeState, FreezeType

\* Each step keeps every freeze, or the provider was vouched for.
LEMMA FreezeSteps ==
    ASSUME IndInv, [Next]_vars, NEW p \in Providers
    PROVE  Keeps(freeze[p], freeze'[p]) \/ (Vouched(p) /\ freeze'[p] = Unfrozen)
<1> DEFINE f == freeze[p]
<1>0. f \in FreezeType /\ freeze \in [Providers -> FreezeType]
  BY DEF IndInv, SideTyped
<1>1. /\ \A d : Keeps(f, Frozen(f, d))
      /\ Keeps(f, FrozenForGood(f)) /\ Keeps(f, AutoThawed(f)) /\ Keeps(f, f)
      /\ \A t : Keeps(f, FreezeState(f.frozen, f.permanent, t, f.streak))
  BY <1>0, KeepsFreeze
<1>2. CASE UNCHANGED freeze
  BY <1>1, <1>2
<1>3. ASSUME NEW o \in Providers, NEW e \in Errors, Report(o, e) PROVE Keeps(f, freeze'[p])
  <2>1. \/ UNCHANGED freeze
        \/ freeze' = [freeze EXCEPT ![o] = FrozenForGood(@)]
        \/ \E d \in Durations : freeze' = [freeze EXCEPT ![o] = Frozen(@, d)]
    BY <1>3 DEF Report
  <2>2. freeze'[p] \in {f, FrozenForGood(f)} \cup {Frozen(f, d) : d \in Durations}
    BY <1>0, <2>1
  <2> QED BY <1>1, <2>2
<1>4. ASSUME NEW c \in Calls, TryAutoThaw(c) PROVE Keeps(f, freeze'[p])
  <2>1. freeze'[p] \in {f, AutoThawed(f)}
    BY <1>0, <1>4 DEF TryAutoThaw
  <2> QED BY <1>1, <2>1
<1>5. CASE Tick
  <2> DEFINE g == FreezeState(f.frozen, f.permanent, f.thawIn - 1, f.streak)
  <2>1. freeze'[p] = f \/ freeze'[p] = g
    BY <1>5 DEF Tick
  <2>2. Keeps(f, g)
    BY <1>1, Zenon
  <2> HIDE DEF g
  <2>3. Keeps(f, f)
    BY <1>1
  <2> QED BY <2>1, <2>2, <2>3
<1>6. ASSUME NEW o \in Providers, OperatorFreezes(o) PROVE Keeps(f, freeze'[p])
  <2>1. freeze'[p] \in {f, Frozen(f, 0)}
    BY <1>0, <1>6 DEF OperatorFreezes
  <2> QED BY <1>1, <2>1
<1>7. ASSUME NEW q \in Probers, ApplyProbe(q)
      PROVE  Keeps(f, freeze'[p]) \/ (Vouched(p) /\ freeze'[p] = Unfrozen)
  <2>1. \/ freeze'[p] \in {f, Frozen(f, 0)}
        \/ probe[q] = p /\ answer[q] = "healthy" /\ freeze'[p] = Unfrozen
    BY <1>0, <1>7 DEF ApplyProbe
  <2> QED BY <1>1, <2>1 DEF Vouched
<1>8. ASSUME NEW c \in Calls, Work(c) PROVE Keeps(f, freeze'[p])
  <2>1. CASE ChatSucceeds(c) \/ ChatRetries(c) \/ Retry(c) \/ StreamOpens(c) \/ StreamEnds(c)
    BY <1>2, <2>1, <1>1 DEF ChatSucceeds, ChatRetries, Retry, StreamOpens, StreamEnds
  <2>2. ASSUME NEW e \in Errors, ChatFails(c, e) \/ StreamRefused(c, e) \/ StreamItemFails(c, e)
        PROVE  Keeps(f, freeze'[p])
    <3>1. Report(sel[c], e) /\ sel[c] \in Providers
      BY <2>2 DEF ChatFails, StreamRefused, StreamItemFails, Calling, IndInv, CallTyped, Seated, InFlight
    <3> QED BY <1>3, <3>1
  <2> QED BY <1>8, <2>1, <2>2 DEF Work
<1>9. ASSUME NEW c \in Calls, (\E r \in CallType : Begin(c, r)) \/ Route(c) \/ Acquire(c) \/ Drop(c)
      PROVE  Keeps(f, freeze'[p])
  <2>1. CASE TryAutoThaw(c)
    BY <1>4, <2>1
  <2>2. CASE ~TryAutoThaw(c)
    <3>1. UNCHANGED freeze
      BY <1>9, <2>2 DEF Route, Acquire, Begin, Scan, Weigh, Choose, JoinGlobal, JoinLocal, Drop
    <3> QED BY <1>1, <3>1
  <2> QED BY <2>1, <2>2
<1>10. CASE LoopBegins
  BY <1>2, <1>10 DEF LoopBegins
<1>11. ASSUME NEW q \in Probers, Probing(q)
       PROVE  Keeps(f, freeze'[p]) \/ (Vouched(p) /\ freeze'[p] = Unfrozen)
  BY <1>2, <1>7, <1>11 DEF Probing, SendProbe, ProbeAnswered
<1>12. CASE UNCHANGED vars
  BY <1>2, <1>12 DEF vars
<1> QED BY <1>5, <1>6, <1>8, <1>9, <1>10, <1>11, <1>12 DEF Next

-----------------------------------------------------------------------------
(* How often a call is counted.                                            *)

\* Calls a semaphore serves were waiting, and so have not been counted.
LEMMA ServedUncounted ==
    ASSUME IndInv, CountedOnce, NEW p \in Providers
    PROVE  \A x \in First(waiting[p]) \cup First(globalWait) : counted[x] = 0
<1>1. waiting[p] \in Seq(Calls) /\ globalWait \in Seq(Calls)
  BY IndInvTyped DEF TypeOK
<1>2. ASSUME NEW x \in First(waiting[p]) PROVE counted[x] = 0
  <2>1. 1 \in DOMAIN waiting[p] /\ x = waiting[p][1] /\ x \in Calls
    BY <1>1, <1>2 DEF First
  <2>2. pc[x] = "local"
    BY <2>1 DEF IndInv, PermitsBalance, Queues, InQueue
  <2> QED BY <2>1, <2>2 DEF CountedOnce
<1>3. ASSUME NEW x \in First(globalWait) PROVE counted[x] = 0
  <2>1. 1 \in DOMAIN globalWait /\ x = globalWait[1] /\ x \in Calls
    BY <1>1, <1>3 DEF First
  <2>2. pc[x] = "global"
    BY <2>1 DEF IndInv, PermitsBalance, Queues, InQueue
  <2> QED BY <2>1, <2>2 DEF CountedOnce
<1> QED BY <1>2, <1>3

\* A call that leaves counted as it should, and whom it wakes, are counted
\* rightly (release_concurrency and the request metrics).
LEMMA LeaveCounted ==
    ASSUME IndInv, CountedOnce, NEW c \in Calls, NEW how \in Ended \ {"refused"},
           NEW local, NEW global, Leave(c, how, local, global),
           \A x \in local \cup global : counted[x] = 0,
           \A x \in Calls \ {c} : counted'[x] = counted[x],
           counted'[c] \in {0, 1},
           how \in {"ok", "error"} => counted'[c] = 1
    PROVE  CountedOnce'
<1>1. \A x \in Calls : pc'[x] = IF x = c THEN how
                                 ELSE IF x \in local THEN "calling"
                                 ELSE IF x \in global THEN "admitted"
                                 ELSE pc[x]
  BY DEF Leave
<1>2. how \in {"ok", "error", "dropped"}
  BY DEF Ended
<1> QED BY <1>1, <1>2 DEF CountedOnce, Scanning

\* A finished call is counted once: it had not been counted, or its stream had
\* reported an error.
LEMMA FinishCounted ==
    ASSUME IndInv, CountedOnce, NEW c \in Calls, NEW how \in Ended \ {"refused"}, Finish(c, how),
           pc[c] \in InFlight,
           \A x \in Calls \ {c} : counted'[x] = counted[x],
           counted'[c] \in {0, 1},
           how \in {"ok", "error"} => counted'[c] = 1
    PROVE  CountedOnce'
<1>1. sel[c] \in Providers
  BY DEF IndInv, CallTyped, Seated
<1>2. \A x \in First(waiting[sel[c]]) \cup First(globalWait) : counted[x] = 0
  BY <1>1, ServedUncounted
<1> QED BY <1>2, LeaveCounted DEF Finish

\* Calls in flight are counted once.
LEMMA WorkCounted ==
    ASSUME IndInv, CountedOnce, NEW c \in Calls, Work(c) PROVE CountedOnce'
<1>0. /\ pc \in [Calls -> Scanning \cup InFlight \cup Ended \cup
                          {"idle", "chosen", "global", "admitted", "local"}]
      /\ counted \in [Calls -> Nat]
      /\ counted[c] \in {0, 1}
  BY IndInvTyped DEF TypeOK, CountedOnce
<1>1. ASSUME NEW how \in {"ok", "error"}, Calling(c, "chat") \/ Calling(c, "stream"), Count(c),
             Finish(c, how)
      PROVE  CountedOnce'
  <2>1. pc[c] = "calling" /\ counted[c] = 0
    BY <1>1 DEF Calling, CountedOnce
  <2>2. counted'[c] = 1 /\ \A x \in Calls \ {c} : counted'[x] = counted[x]
    BY <1>0, <1>1, <2>1 DEF Count
  <2> QED BY <1>1, <2>1, <2>2, FinishCounted DEF Ended, InFlight
<1>2. CASE ChatSucceeds(c) \/ \E e \in Errors : ChatFails(c, e) \/ StreamRefused(c, e)
  BY <1>1, <1>2 DEF ChatSucceeds, ChatFails, StreamRefused
<1>3. CASE ChatRetries(c) \/ Retry(c) \/ StreamOpens(c)
  BY <1>0, <1>3 DEF ChatRetries, Retry, StreamOpens, Goto, Calling, CountedOnce, Scanning
<1>4. CASE StreamEnds(c)
  <2>1. counted'[c] = 1 /\ \A x \in Calls \ {c} : counted'[x] = counted[x]
    BY <1>0, <1>4 DEF StreamEnds, Count
  <2>2. pc[c] \in InFlight /\ Finish(c, "ok")
    BY <1>4 DEF StreamEnds, InFlight
  <2> QED BY <2>1, <2>2, FinishCounted DEF Ended
<1>5. ASSUME NEW e \in Errors, StreamItemFails(c, e) PROVE CountedOnce'
  BY <1>0, <1>5 DEF StreamItemFails, Count, CountedOnce, Scanning
<1> QED BY <1>2, <1>3, <1>4, <1>5, <1>0 DEF Work

\* A dropped call is not counted, and whoever gets its permits has not been.
LEMMA DropCounted ==
    ASSUME IndInv, CountedOnce, NEW c \in Calls, Drop(c) PROVE CountedOnce'
<1>0. counted' = counted /\ counted[c] \in {0, 1} /\ "dropped" \in Ended \ {"refused"}
  BY IndInvTyped DEF TypeOK, CountedOnce, Drop, Ended
<1>1. CASE pc[c] = "global"
  <2>1. Leave(c, "dropped", {}, {})
    BY <1>1 DEF Drop, InFlight
  <2> QED BY <1>0, <2>1, LeaveCounted
<1>2. CASE pc[c] \in {"admitted", "local"}
  <2>1. Leave(c, "dropped", {}, First(globalWait))
    BY <1>2 DEF Drop, InFlight
  <2>2. \A x \in First(globalWait) : counted[x] = 0
    BY ServedUncounted, PoolAssumption DEF Providers
  <2> QED BY <1>0, <2>1, <2>2, LeaveCounted
<1>3. CASE pc[c] \in InFlight /\ Finish(c, "dropped")
  BY <1>0, <1>3, FinishCounted
<1> QED BY <1>1, <1>2, <1>3 DEF Drop

\* Every step counts a call at most once.
LEMMA NextCounted == IndInv /\ CountedOnce /\ [Next]_vars => CountedOnce'
<1> SUFFICES ASSUME IndInv, CountedOnce, [Next]_vars PROVE CountedOnce'
  OBVIOUS
<1>0. /\ pc \in [Calls -> Scanning \cup InFlight \cup Ended \cup
                          {"idle", "chosen", "global", "admitted", "local"}]
      /\ counted \in [Calls -> Nat]
  BY IndInvTyped DEF TypeOK
<1>1. CASE UNCHANGED <<pc, counted>>
  BY <1>1 DEF CountedOnce
<1>2. ASSUME NEW c \in Calls, NEW r \in CallType, Begin(c, r) PROVE CountedOnce'
  <2>1. pc' \in {[pc EXCEPT ![c] = l] : l \in {"scan", "chosen", "refused"}}
    BY <1>2 DEF Begin, Goto
  <2> QED BY <1>0, <1>2, <2>1 DEF Begin, CountedOnce, Scanning
<1>3. ASSUME NEW c \in Calls, Route(c) PROVE CountedOnce'
  <2>1. pc[c] \in Scanning /\ counted' = counted
    BY <1>3 DEF Route, Scan, TryAutoThaw, Weigh, Choose, Scanning
  <2>2. pc' \in {pc} \cup {[pc EXCEPT ![c] = l] : l \in Scanning \cup {"chosen", "refused"}}
    BY <1>3 DEF Route, Scan, TryAutoThaw, Weigh, Choose, Scanning, Goto
  <2> QED BY <1>0, <2>1, <2>2 DEF CountedOnce, Scanning
<1>4. ASSUME NEW c \in Calls, Acquire(c) PROVE CountedOnce'
  <2>1. pc[c] \in {"chosen", "admitted"} /\ counted' = counted
    BY <1>4 DEF Acquire, JoinGlobal, JoinLocal
  <2>2. pc' \in {[pc EXCEPT ![c] = l] : l \in {"admitted", "global", "calling", "local"}}
    BY <1>4 DEF Acquire, JoinGlobal, JoinLocal, Goto
  <2> QED BY <1>0, <2>1, <2>2 DEF CountedOnce, Scanning
<1>5. CASE \/ Tick \/ LoopBegins
           \/ \E p \in Providers : OperatorFreezes(p)
           \/ \E q \in Probers : Probing(q)
           \/ UNCHANGED vars
  BY <1>1, <1>5 DEF Tick, LoopBegins, OperatorFreezes, Probing, SendProbe, ProbeAnswered,
     ApplyProbe, vars
<1> QED BY <1>2, <1>3, <1>4, <1>5, WorkCounted, DropCounted DEF Next

-----------------------------------------------------------------------------
(* The results.                                                            *)

\* The pool's state is always well typed: whatever a provider asks for, no
\* freeze outlasts the configured maximum and no semaphore is overdrawn.
THEOREM TypeCorrectness == Spec => []TypeOK
BY InitInv, NextInv, IndInvTyped, PTL DEF Spec

\* For any providers, callers and limits, no permit is lost or made by
\* retries, streams, errors or dropped calls, and the queues hold exactly the
\* calls that wait.
THEOREM PermitsConserved == Spec => []PermitsBalance
<1>1. IndInv => PermitsBalance
  BY DEF IndInv
<1> QED BY <1>1, InitInv, NextInv, PTL DEF Spec

\* For any interleaving of routers, failures, operators and health checks, a
\* freeze is lifted only by its time or by a health check that was answered.
THEOREM FreezeLifting == Spec => FreezeLiftedRightly
<1>1. ASSUME IndInv, [Next]_vars
      PROVE  [\A p \in Providers :
                /\ freeze[p].frozen /\ ~freeze'[p].frozen
                     => \/ ~freeze[p].permanent /\ freeze[p].thawIn = 0
                        \/ \E q \in Probers : probe[q] = p /\ answer[q] = "healthy"
                /\ freeze[p].permanent /\ ~freeze'[p].permanent
                     => \E q \in Probers : probe[q] = p /\ answer[q] = "healthy"]_vars
  BY <1>1, FreezeSteps DEF Keeps, Vouched
<1> QED BY <1>1, InitInv, NextInv, PTL DEF Spec, FreezeLiftedRightly

\* record_success_with_cost and record_error together count every call that
\* came to an end exactly once, streams with late errors and calls woken by
\* others included; a call that never reached its provider counts as none.
THEOREM RequestsAreCountedOnce == Spec => []CountedOnce
<1>1. Init => CountedOnce
  BY DEF Init, CountedOnce, Scanning
<1> QED BY <1>1, InitInv, NextInv, NextCounted, PTL DEF Spec
=============================================================================
