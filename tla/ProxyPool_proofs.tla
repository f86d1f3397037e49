-------------------------- MODULE ProxyPool_proofs --------------------------
(***************************************************************************)
(* Proofs about ProxyPool, for every list of proxies, any number of users  *)
(* and every maxFails: the healthy count is exact, and a proxy is asleep   *)
(* only after maxFails failures in a row without an answer.                *)
(***************************************************************************)
EXTENDS ProxyPool, FiniteSetTheorems, FunctionTheorems, TLAPS

\* The types both properties rest on.
PoolType ==
    /\ items \in Pools
    /\ sleeping \subseteq Pool
    /\ using \in [Users -> Pool \cup {Nobody}]
    /\ fails \in [Pool -> Nat] /\ streak \in [Pool -> 0 .. MaxFails]

\* A proxy's failures in a row are at least what the pool has counted since it last
\* put the proxy to sleep.
PoolInv ==
    /\ PoolType
    /\ HealthyExact
    /\ \A p \in Pool : fails[p] < MaxFails /\ fails[p] <= streak[p]
    /\ QuarantineEarned

LEMMA PoolFinite ==
  ASSUME items \in Pools
  PROVE  /\ IsFiniteSet(Pool)
         /\ \A S \in SUBSET Pool : IsFiniteSet(S) /\ Cardinality(S) \in Nat
<1>1. items \in Seq(Proxies)
  BY ProxyPoolAssumption
<1>2. IsFiniteSet(DOMAIN items) /\ DOMAIN items = 1 .. Len(items) /\ Len(items) \in Nat
  BY <1>1, FS_Interval
<1>3. IsFiniteSet(Pool)
  <2> DEFINE f == [i \in DOMAIN items |-> items[i]]
  <2>1. f \in [DOMAIN items -> Pool] /\ \A p \in Pool : \E i \in DOMAIN items : f[i] = p
    BY DEF Pool
  <2>2. f \in Surjection(DOMAIN items, Pool)
    BY <2>1, Fun_IsSurj
  <2> QED BY <1>2, <2>2, FS_Surjection
<1> QED BY <1>3, FS_Subset, FS_CardinalityType

\* The number of proxies awake when one wakes, and when one falls asleep.
LEMMA AwakeCount ==
  ASSUME items \in Pools, sleeping \subseteq Pool, NEW p \in Pool
  PROVE  /\ Cardinality(Pool \ sleeping) \in Nat
         /\ p \in sleeping => Cardinality(Pool \ (sleeping \ {p}))
                              = Cardinality(Pool \ sleeping) + 1
         /\ p \notin sleeping => /\ Cardinality(Pool \ sleeping) > 0
                                 /\ Cardinality(Pool \ (sleeping \cup {p}))
                                    = Cardinality(Pool \ sleeping) - 1
<1>1. IsFiniteSet(Pool \ sleeping) /\ Cardinality(Pool \ sleeping) \in Nat
  BY PoolFinite
<1>2. ASSUME p \in sleeping
      PROVE  Cardinality(Pool \ (sleeping \ {p})) = Cardinality(Pool \ sleeping) + 1
  <2>1. Pool \ (sleeping \ {p}) = (Pool \ sleeping) \cup {p} /\ p \notin Pool \ sleeping
    BY <1>2
  <2> QED BY <1>1, <2>1, FS_AddElement
<1>3. ASSUME p \notin sleeping
      PROVE  /\ Cardinality(Pool \ sleeping) > 0
             /\ Cardinality(Pool \ (sleeping \cup {p})) = Cardinality(Pool \ sleeping) - 1
  <2>1. Pool \ (sleeping \cup {p}) = (Pool \ sleeping) \ {p} /\ p \in Pool \ sleeping
    BY <1>3
  <2>2. Cardinality((Pool \ sleeping) \ {p}) = Cardinality(Pool \ sleeping) - 1
    BY <1>1, <2>1, FS_RemoveElement
  <2>3. Cardinality(Pool \ sleeping) # 0
    BY <1>1, <2>1, FS_EmptySet
  <2> QED BY <1>1, <2>1, <2>2, <2>3
<1> QED BY <1>1, <1>2, <1>3

\* The list repeats no proxy: there are as many as it has entries.
LEMMA PoolSize ==
  ASSUME items \in Pools
  PROVE  N \in Nat /\ N > 0 /\ Cardinality(Pool) = N /\ DOMAIN items = 1 .. N
<1>1. items \in Seq(Proxies) /\ items # <<>>
      /\ \A i, j \in DOMAIN items : items[i] = items[j] => i = j
  BY ProxyPoolAssumption
<1>2. N \in Nat /\ DOMAIN items = 1 .. N /\ N > 0
  BY <1>1 DEF N
<1>3. IsFiniteSet(1 .. N) /\ Cardinality(1 .. N) = N
  <2>1. Cardinality(1 .. N) = IF 1 > N THEN 0 ELSE N - 1 + 1
    BY <1>2, FS_Interval
  <2>2. IsFiniteSet(1 .. N)
    BY <1>2, FS_Interval
  <2> QED BY <1>2, <2>1, <2>2
<1> DEFINE f == [i \in 1 .. N |-> items[i]]
<1>4. /\ f \in [1 .. N -> Pool]
      /\ \A i, j \in 1 .. N : f[i] = f[j] => i = j
      /\ \A p \in Pool : \E i \in 1 .. N : f[i] = p
  BY <1>1, <1>2 DEF Pool
<1>5. f \in Bijection(1 .. N, Pool)
  BY <1>4, Fun_IsBij
<1>6. ExistsBijection(1 .. N, Pool)
  BY <1>5, Fun_ExistsBij
<1> QED BY <1>2, <1>3, <1>6, FS_Bijection

LEMMA PoolInit == Init => PoolInv
<1> SUFFICES ASSUME Init PROVE PoolInv
  OBVIOUS
<1>1. items \in Pools
  BY DEF Init
<1>2. Cardinality(Pool) = Len(items)
  BY <1>1, PoolSize DEF N
<1>3. Pool \ sleeping = Pool /\ healthyN = Len(items)
  BY DEF Init, N
<1>4. PoolType
  BY ProxyPoolAssumption DEF Init, PoolType
<1>5. \A p \in Pool : fails[p] = 0 /\ streak[p] = 0
  BY DEF Init
<1>6. HealthyExact /\ QuarantineEarned
  BY <1>2, <1>3 DEF HealthyExact, QuarantineEarned, Init
<1> QED BY <1>4, <1>5, <1>6, ProxyPoolAssumption DEF PoolInv

\* refreshLocked: proxies wake up, and the count follows.
LEMMA SweepKeeps ==
  ASSUME PoolInv, NEW due \in BOOLEAN, NEW asleep \in Sweeps(due),
         sleeping' = asleep, healthyN' = HealthyNow(due, asleep),
         UNCHANGED <<items, fails, streak>>,
         using' \in [Users -> Pool \cup {Nobody}]
  PROVE  PoolInv'
<1>1. Pool' = Pool
  BY DEF Pool
<1>2. asleep \subseteq sleeping /\ (~due => asleep = sleeping)
  BY DEF Sweeps
<1>3. healthyN' = Cardinality(Pool \ asleep)
  BY <1>2 DEF HealthyNow, PoolInv, HealthyExact
<1>4. PoolType' /\ HealthyExact'
  BY <1>1, <1>2, <1>3 DEF PoolInv, PoolType, HealthyExact
<1>5. QuarantineEarned'
  BY <1>2 DEF PoolInv, QuarantineEarned
<1> QED BY <1>1, <1>4, <1>5 DEF PoolInv

LEMMA MarkOKKeeps ==
  ASSUME PoolInv, NEW p \in Pool, NEW sample, MarkOK(p, sample),
         streak' = [streak EXCEPT ![p] = 0], using' \in [Users -> Pool \cup {Nobody}]
  PROVE  PoolInv'
<1>1. Pool' = Pool /\ items' = items
  BY DEF MarkOK, Pool
<1>2. /\ fails' = [fails EXCEPT ![p] = 0] /\ sleeping' = sleeping \ {p}
      /\ healthyN' = IF p \in sleeping THEN healthyN + 1 ELSE healthyN
  BY DEF MarkOK
<1>3. PoolType'
  BY <1>1, <1>2, ProxyPoolAssumption DEF PoolInv, PoolType
<1>4. HealthyExact'
  <2>1. CASE p \in sleeping
    BY <1>1, <1>2, <2>1, AwakeCount DEF PoolInv, PoolType, HealthyExact
  <2>2. CASE p \notin sleeping
    <3>1. sleeping' = sleeping
      BY <1>2, <2>2
    <3> QED BY <1>1, <1>2, <2>2, <3>1 DEF PoolInv, HealthyExact
  <2> QED BY <2>1, <2>2
<1>5. \A q \in Pool : fails'[q] < MaxFails /\ fails'[q] <= streak'[q]
  BY <1>2, ProxyPoolAssumption DEF PoolInv, PoolType
<1>6. QuarantineEarned'
  BY <1>2 DEF PoolInv, PoolType, QuarantineEarned
<1> QED BY <1>1, <1>3, <1>4, <1>5, <1>6 DEF PoolInv

LEMMA MarkFailKeeps ==
  ASSUME PoolInv, NEW p \in Pool, MarkFail(p),
         streak' = [streak EXCEPT ![p] = IF @ < MaxFails THEN @ + 1 ELSE @],
         using' \in [Users -> Pool \cup {Nobody}]
  PROVE  PoolInv'
<1>1. Pool' = Pool /\ items' = items
  BY DEF MarkFail, Pool
<1>2. /\ streak' \in [Pool -> 0 .. MaxFails]
      /\ \A q \in Pool : q # p => streak'[q] = streak[q]
      /\ streak'[p] = IF streak[p] < MaxFails THEN streak[p] + 1 ELSE streak[p]
  BY ProxyPoolAssumption DEF PoolInv, PoolType
<1>3. fails[p] \in Nat /\ streak[p] \in 0 .. MaxFails /\ fails[p] <= streak[p]
      /\ fails[p] < MaxFails /\ MaxFails \in Nat
  BY ProxyPoolAssumption DEF PoolInv, PoolType
<1>4. CASE fails[p] + 1 < MaxFails
  <2>1. fails' = [fails EXCEPT ![p] = fails[p] + 1] /\ UNCHANGED <<sleeping, healthyN>>
    BY <1>4 DEF MarkFail
  <2>2. PoolType'
    BY <1>1, <1>2, <2>1 DEF PoolInv, PoolType
  <2>3. HealthyExact'
    BY <1>1, <2>1 DEF PoolInv, HealthyExact
  <2>4. \A q \in Pool : fails'[q] < MaxFails /\ fails'[q] <= streak'[q]
    BY <1>2, <1>3, <1>4, <2>1 DEF PoolInv, PoolType
  <2>5. QuarantineEarned'
    BY <1>2, <1>3, <2>1 DEF PoolInv, PoolType, QuarantineEarned
  <2> QED BY <1>1, <2>2, <2>3, <2>4, <2>5 DEF PoolInv
<1>5. CASE ~(fails[p] + 1 < MaxFails)
  <2>1. /\ fails' = [fails EXCEPT ![p] = 0] /\ sleeping' = sleeping \cup {p}
        /\ healthyN' = IF p \notin sleeping /\ healthyN > 0 THEN healthyN - 1 ELSE healthyN
    BY <1>5 DEF MarkFail
  <2>2. PoolType'
    BY <1>1, <1>2, <2>1 DEF PoolInv, PoolType
  <2>3. HealthyExact'
    <3>1. CASE p \notin sleeping
      BY <1>1, <2>1, <3>1, AwakeCount DEF PoolInv, PoolType, HealthyExact
    <3>2. CASE p \in sleeping
      <4>1. sleeping' = sleeping
        BY <2>1, <3>2
      <4> QED BY <1>1, <2>1, <3>2, <4>1 DEF PoolInv, HealthyExact
    <3> QED BY <3>1, <3>2
  <2>4. \A q \in Pool : fails'[q] < MaxFails /\ fails'[q] <= streak'[q]
    BY <1>2, <1>3, <2>1 DEF PoolInv, PoolType
  <2>5. streak'[p] = MaxFails
    BY <1>2, <1>3, <1>5
  <2>6. QuarantineEarned'
    BY <1>2, <2>1, <2>5 DEF PoolInv, PoolType, QuarantineEarned
  <2> QED BY <1>1, <2>2, <2>3, <2>4, <2>6 DEF PoolInv
<1> QED BY <1>4, <1>5

LEMMA PoolNext == PoolInv /\ [Next]_vars => PoolInv'
<1> SUFFICES ASSUME PoolInv, [Next]_vars PROVE PoolInv'
  OBVIOUS
<1>1. ASSUME NEW u \in Users, Pick(u) PROVE PoolInv'
  <2>1. PICK p \in Pool : NextExcluding(avoiding[u], p) /\ using' = [using EXCEPT ![u] = p]
    BY <1>1 DEF Pick
  <2>2. using' \in [Users -> Pool \cup {Nobody}]
    BY <2>1 DEF PoolInv, PoolType
  <2>3. PICK due \in BOOLEAN : \E asleep \in Sweeps(due) :
            sleeping' = asleep /\ healthyN' = HealthyNow(due, asleep)
    BY <2>1 DEF NextExcluding
  <2>4. UNCHANGED <<items, fails, streak>>
    BY <1>1, <2>1 DEF Pick, NextExcluding
  <2> QED BY <2>2, <2>3, <2>4, SweepKeeps
<1>2. ASSUME NEW u \in Users, Definite(u) \/ Inconclusive(u) \/ Dropped(u) \/ Abandoned(u)
      PROVE  PoolInv'
  <2>1. using[u] \in Pool /\ using' \in [Users -> Pool \cup {Nobody}]
    BY <1>2 DEF Definite, Inconclusive, Dropped, Abandoned, Ends, PoolInv, PoolType
  <2>2. CASE Definite(u) \/ Inconclusive(u)
    BY <2>1, <2>2, MarkOKKeeps DEF Definite, Inconclusive
  <2>3. CASE Dropped(u)
    BY <2>1, <2>3, MarkFailKeeps DEF Dropped
  <2>4. CASE Abandoned(u)
    BY <2>1, <2>4 DEF Abandoned, poolVars, PoolInv, PoolType, Pool, HealthyExact,
                      QuarantineEarned
  <2> QED BY <1>2, <2>2, <2>3, <2>4
<1>3. CASE Healthy
  <2>1. PICK due \in BOOLEAN : \E asleep \in Sweeps(due) :
            sleeping' = asleep /\ healthyN' = HealthyNow(due, asleep)
    BY <1>3 DEF Healthy
  <2>2. UNCHANGED <<items, fails, streak, using>>
    BY <1>3 DEF Healthy
  <2> QED BY <2>1, <2>2, SweepKeeps DEF PoolInv, PoolType
<1>4. CASE UNCHANGED vars
  BY <1>4 DEF vars, poolVars, PoolInv, PoolType, Pool, HealthyExact, QuarantineEarned
<1> QED BY <1>1, <1>2, <1>3, <1>4 DEF Next

\* The healthy count is exact (proxy.go, refreshLocked, markOK and markFail).
THEOREM HealthyExactHolds == Spec => []HealthyExact
<1>1. PoolInv => HealthyExact
  BY DEF PoolInv
<1> QED BY PoolInit, PoolNext, <1>1, PTL DEF Spec

\* A proxy is asleep only after maxFails failures in a row without an answer
\* (proxy.go, markFail; main.go, attemptOnce).
THEOREM QuarantineEarnedHolds == Spec => []QuarantineEarned
<1>1. PoolInv => QuarantineEarned
  BY DEF PoolInv
<1> QED BY PoolInit, PoolNext, <1>1, PTL DEF Spec
-----------------------------------------------------------------------------
\* What PoolInv does not say of the types.
Rest ==
    /\ idx \in 0 .. N - 1 /\ N \in Nat /\ N > 0 /\ Cardinality(Pool) = N
    /\ latency \in [Pool -> {"none", "fast", "slow"}]
    /\ skips \in [Pool -> 0 .. SlowProbeInterval - 1]
    /\ best \in {"none", "fast", "slow"}
    /\ avoiding \in [Users -> Pool \cup {Nobody}]

LEMMA RestInit == Init => Rest
<1> SUFFICES ASSUME Init PROVE Rest
  OBVIOUS
<1>1. N \in Nat /\ N > 0 /\ Cardinality(Pool) = N
  BY PoolSize DEF Init
<1> QED BY <1>1, ProxyPoolAssumption DEF Init, Rest

\* The index wraps around; a skipped turn is counted below the interval only.
LEMMA NextExcludingRest ==
  ASSUME PoolType, Rest, NEW avoid, NEW p \in Pool, NextExcluding(avoid, p)
  PROVE  /\ idx' \in 0 .. N - 1 /\ best' \in {"none", "fast", "slow"}
         /\ skips' \in [Pool -> 0 .. SlowProbeInterval - 1]
<1>1. \A i \in Nat : i % N \in 0 .. N - 1
  BY DEF Rest
<1>2. \A S \in SUBSET (0 .. N - 1) : \A asleep, ref :
          SkippedIn(S, asleep, ref, avoid) \in [Pool -> 0 .. SlowProbeInterval - 1]
  <2> SUFFICES ASSUME NEW S \in SUBSET (0 .. N - 1), NEW asleep, NEW ref, NEW q \in Pool
               PROVE  (IF \E t \in S : Cand(t) = q /\ PassedOver(t, asleep, ref, avoid)
                       THEN skips[q] + 1 ELSE skips[q]) \in 0 .. SlowProbeInterval - 1
    BY DEF SkippedIn
  <2>1. CASE \E t \in S : Cand(t) = q /\ PassedOver(t, asleep, ref, avoid)
    <3>1. skips[q] + 1 < SlowProbeInterval
      BY <2>1 DEF PassedOver
    <3> QED BY <2>1, <3>1, ProxyPoolAssumption DEF Rest
  <2> QED BY <2>1, ProxyPoolAssumption DEF Rest
<1>3. PICK due \in BOOLEAN, asleep \in SUBSET sleeping :
          /\ best' = BestNow(due, asleep)
          /\ \/ idx' = (idx + 1) % N /\ UNCHANGED skips
             \/ \E t \in 0 .. N - 1 :
                    /\ idx' = (idx + t + 1) % N
                    /\ skips' = [SkippedIn(0 .. t - 1, asleep, best', avoid) EXCEPT ![p] = 0]
             \/ /\ skips' = SkippedIn(0 .. N - 1, asleep, best', avoid)
                /\ UNCHANGED idx \/ idx' = (idx + 1) % N
  <2>1. \A due \in BOOLEAN : Sweeps(due) \subseteq SUBSET sleeping
    BY DEF Sweeps
  <2> QED BY <2>1 DEF NextExcluding
<1>4. best' \in {"none", "fast", "slow"}
  BY <1>3 DEF BestNow, FastestOf, Rest
<1>5. idx' \in 0 .. N - 1
  <2>1. idx \in Nat /\ idx \in 0 .. N - 1 /\ \A t \in 0 .. N - 1 : t \in Nat
    BY DEF Rest
  <2>2. idx + 1 \in Nat /\ \A t \in 0 .. N - 1 : idx + t + 1 \in Nat
    BY <2>1
  <2> QED BY <1>1, <1>3, <2>1, <2>2
<1>6. skips' \in [Pool -> 0 .. SlowProbeInterval - 1]
  <2>1. CASE UNCHANGED skips
    BY <2>1 DEF Rest
  <2>2. ASSUME NEW t \in 0 .. N - 1,
               skips' = [SkippedIn(0 .. t - 1, asleep, best', avoid) EXCEPT ![p] = 0]
        PROVE  skips' \in [Pool -> 0 .. SlowProbeInterval - 1]
    <3>1. 0 .. t - 1 \in SUBSET (0 .. N - 1)
      BY DEF Rest
    <3>2. SkippedIn(0 .. t - 1, asleep, best', avoid) \in [Pool -> 0 .. SlowProbeInterval - 1]
      BY <1>2, <3>1
    <3>3. 0 \in 0 .. SlowProbeInterval - 1
      BY ProxyPoolAssumption
    <3> QED BY <2>2, <3>2, <3>3
  <2>3. CASE skips' = SkippedIn(0 .. N - 1, asleep, best', avoid)
    BY <1>2, <2>3
  <2> QED BY <1>3, <2>1, <2>2, <2>3
<1> QED BY <1>4, <1>5, <1>6

LEMMA RestNext == PoolInv /\ Rest /\ [Next]_vars => Rest'
<1> SUFFICES ASSUME PoolInv, Rest, [Next]_vars PROVE Rest'
  OBVIOUS
<1>1. items' = items
  BY DEF Next, Pick, NextExcluding, Definite, Inconclusive, Dropped, Abandoned, MarkOK, MarkFail,
         Healthy, vars, poolVars
<1>2. N' = N /\ Pool' = Pool
  BY <1>1 DEF N, Pool
<1>3. ASSUME NEW u \in Users, Pick(u) PROVE Rest'
  <2>1. PICK p \in Pool : NextExcluding(avoiding[u], p)
    BY <1>3 DEF Pick
  <2>2. UNCHANGED <<latency, avoiding>>
    BY <1>3, <2>1 DEF Pick, NextExcluding
  <2> QED BY <1>2, <2>1, <2>2, NextExcludingRest DEF PoolInv, Rest
<1>4. ASSUME NEW u \in Users, Definite(u) \/ Inconclusive(u) \/ Dropped(u) \/ Abandoned(u)
      PROVE  Rest'
  <2>1. avoiding' \in [Users -> Pool \cup {Nobody}] /\ using[u] \in Pool
    BY <1>4 DEF Definite, Inconclusive, Dropped, Abandoned, Ends, PoolInv, PoolType, Rest
  <2>2. UNCHANGED <<idx, skips, best>>
    BY <1>4 DEF Definite, Inconclusive, Dropped, Abandoned, MarkOK, MarkFail, poolVars
  <2>3. latency' \in [Pool -> {"none", "fast", "slow"}]
    <3>1. CASE Definite(u)
      <4>1. PICK sample \in {"fast", "slow"} : MarkOK(using[u], sample)
        BY <3>1 DEF Definite
      <4> QED BY <2>1, <4>1 DEF MarkOK, Folded, Rest
    <3>2. CASE ~Definite(u)
      BY <1>4, <3>2 DEF Inconclusive, Dropped, Abandoned, MarkOK, MarkFail, poolVars, Rest
    <3> QED BY <3>1, <3>2
  <2> QED BY <1>2, <2>1, <2>2, <2>3 DEF Rest
<1>5. CASE Healthy
  <2>1. UNCHANGED <<idx, latency, skips, avoiding>> /\ best' \in {"none", "fast", "slow"}
    BY <1>5 DEF Healthy, BestNow, FastestOf, Rest
  <2> QED BY <1>2, <2>1 DEF Rest
<1>6. CASE UNCHANGED vars
  BY <1>2, <1>6 DEF vars, poolVars, Rest
<1> QED BY <1>3, <1>4, <1>5, <1>6 DEF Next

\* Every variable keeps its type: the index stays inside the list, no turn is skipped
\* past the interval, and the healthy count is at most the pool (proxy.go).
THEOREM TypeCorrect == Spec => []TypeOK
<1>1. PoolInv /\ Rest => TypeOK
  <2> SUFFICES ASSUME PoolInv, Rest PROVE TypeOK
    OBVIOUS
  <2>1. healthyN \in 0 .. N
    <3>1. IsFiniteSet(Pool) /\ Cardinality(Pool \ sleeping) \in Nat
      BY PoolFinite DEF PoolInv, PoolType
    <3>2. Cardinality(Pool \ sleeping) <= Cardinality(Pool)
      BY <3>1, FS_Subset
    <3> QED BY <3>1, <3>2 DEF PoolInv, HealthyExact, Rest
  <2>2. fails \in [Pool -> 0 .. MaxFails - 1]
    BY ProxyPoolAssumption DEF PoolInv, PoolType
  <2> QED BY <2>1, <2>2 DEF PoolInv, PoolType, Rest, TypeOK
<1> QED BY PoolInit, PoolNext, RestInit, RestNext, <1>1, PTL DEF Spec
=============================================================================
