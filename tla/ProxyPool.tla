----------------------------- MODULE ProxyPool -----------------------------
(***************************************************************************)
(* The proxy pool (proxy.go): rotation, quarantine after failures in a     *)
(* row, and stepping over slow proxies, under any mix of attempts.  An     *)
(* attempt (main.go, attemptOnce) takes a proxy and later marks it; its    *)
(* users are the workers, the contract guard, the resolver, the id watch.  *)
(*                                                                         *)
(* Time is abstracted: whether refreshEvery has passed and which           *)
(* quarantines have expired is chosen anew at every refresh.  A latency is *)
(* "fast", or "slow" when it is more than slowLatencyFactor times that.    *)
(***************************************************************************)
EXTENDS Naturals, Sequences, FiniteSets

CONSTANTS
    Proxies,            \* proxy keys
    Pools,              \* the non-empty lists loadProxies may return
    Users,              \* the goroutines that make attempts
    MaxFails,           \* maxFails
    SlowProbeInterval   \* slowProbeInterval

\* loadProxies removes duplicates.
ASSUME ProxyPoolAssumption ==
    /\ Pools \subseteq {s \in Seq(Proxies) \ {<<>>} : \A i, j \in DOMAIN s : s[i] = s[j] => i = j}
    /\ MaxFails \in Nat \ {0}
    /\ SlowProbeInterval \in Nat \ {0}

VARIABLES
    items,      \* p.items
    idx,        \* p.idx, modulo the number of proxies
    fails,      \* p.fails
    sleeping,   \* the keys of p.sleeping
    latency,    \* p.latency: "none", "fast" or "slow"
    skips,      \* p.skips
    best,       \* p.best, as of the last refresh
    healthyN,   \* p.healthyN
    using,      \* the proxy each user's attempt goes through, or Nobody
    avoiding,   \* the proxy each user asks not to be given: its last, or Nobody
    streak      \* history: a proxy's failures since it last answered

poolVars == <<items, idx, fails, sleeping, latency, skips, best, healthyN>>
vars == <<poolVars, using, avoiding, streak>>

\* No proxy; as what to avoid, the empty string.
Nobody == <<>>

N == Len(items)
Pool == {items[i] : i \in DOMAIN items}

Init ==
    /\ items \in Pools
    /\ idx = 0
    /\ fails = [p \in Pool |-> 0] /\ skips = [p \in Pool |-> 0]
    /\ sleeping = {}
    /\ latency = [p \in Pool |-> "none"] /\ best = "none"
    /\ healthyN = N
    /\ using = [u \in Users |-> Nobody] /\ avoiding = [u \in Users |-> Nobody]
    /\ streak = [p \in Pool |-> 0]
-----------------------------------------------------------------------------
\* refreshLocked's best: the fastest latency of a proxy that is not asleep.
FastestOf(asleep) ==
    CASE \E p \in Pool \ asleep : latency[p] = "fast" -> "fast"
      [] \A p \in Pool \ asleep : latency[p] = "none" -> "none"
      [] OTHER -> "slow"

\* refreshLocked does nothing when it ran lately; when it is due it sweeps the
\* quarantines that have expired, then recomputes best and healthyN.
Sweeps(due) == IF due THEN {sleeping \ expired : expired \in SUBSET sleeping} ELSE {sleeping}
BestNow(due, asleep) == IF due THEN FastestOf(asleep) ELSE best
\* Mutant of HealthyNow: the proxies swept out of quarantine are not counted again.
HealthyUncounted(due, asleep) == healthyN
HealthyNow(due, asleep) == IF due THEN Cardinality(Pool \ asleep) ELSE healthyN

\* The proxy nextExcluding looks at on its t-th try, from 0.
Cand(t) == items[((idx + t) % N) + 1]

\* Does the scan pass over its t-th candidate for slowness?  Every slow candidate
\* before it was passed over, or the scan would have ended there.
SlowTry(t, asleep, ref, avoid) ==
    /\ Cand(t) \notin asleep /\ Cand(t) # avoid
    /\ ref = "fast" /\ latency[Cand(t)] = "slow"
PassedOver(t, asleep, ref, avoid) ==
    /\ SlowTry(t, asleep, ref, avoid)
    /\ Cardinality({u \in 0 .. t - 1 : SlowTry(u, asleep, ref, avoid)}) < N \div 2
    /\ skips[Cand(t)] + 1 < SlowProbeInterval

Accepted(t, asleep, ref, avoid) ==
    /\ Cand(t) \notin asleep /\ Cand(t) # avoid
    /\ ~PassedOver(t, asleep, ref, avoid)

\* Mutant of SkippedIn: a skipped turn is not counted.
SkippedUncounted(tries, asleep, ref, avoid) == skips
\* The skipped turns after passing over these tries.
SkippedIn(tries, asleep, ref, avoid) ==
    [p \in Pool |-> IF \E t \in tries : Cand(t) = p /\ PassedOver(t, asleep, ref, avoid)
                    THEN skips[p] + 1 ELSE skips[p]]

\* nextExcluding returns p, which is avoid only if the scan accepted nothing.
NextExcluding(avoid, p) ==
    \E due \in BOOLEAN : \E asleep \in Sweeps(due) :
        LET ref == BestNow(due, asleep)
            count == HealthyNow(due, asleep)
            tries == 0 .. N - 1
            accepted == {t \in tries : Accepted(t, asleep, ref, avoid)}
        IN
        /\ sleeping' = asleep /\ best' = ref /\ healthyN' = count
        /\ \/ /\ count = 0
              /\ p = Cand(0) /\ idx' = (idx + 1) % N
              /\ UNCHANGED skips
           \/ /\ count # 0 /\ accepted # {}
              /\ \E t \in accepted :
                    /\ \A u \in accepted : t <= u
                    /\ p = Cand(t) /\ idx' = (idx + t + 1) % N
                    /\ skips' = [SkippedIn(0 .. t - 1, asleep, ref, avoid) EXCEPT ![p] = 0]
           \/ /\ count # 0 /\ accepted = {}
              /\ skips' = SkippedIn(tries, asleep, ref, avoid)
              /\ IF avoid \in Pool \ asleep
                 THEN p = avoid /\ UNCHANGED idx
                 ELSE p = Cand(N) /\ idx' = (idx + 1) % N
        /\ UNCHANGED <<items, fails, latency>>

\* The average after folding one sample in: a sample of the other class may or may
\* not be enough to move it.
Folded(old, sample) == IF old = "none" THEN {sample} ELSE {old, sample}

\* markOK with a round trip to fold in, or "none".
MarkOK(p, sample) ==
    /\ fails' = [fails EXCEPT ![p] = 0]
    /\ sleeping' = sleeping \ {p}
    /\ healthyN' = IF p \in sleeping THEN healthyN + 1 ELSE healthyN
    /\ IF sample = "none" THEN UNCHANGED latency
       ELSE \E l \in Folded(latency[p], sample) : latency' = [latency EXCEPT ![p] = l]
    /\ UNCHANGED <<items, idx, skips, best>>

\* markFail: the failure that makes maxFails in a row puts the proxy to sleep.
MarkFail(p) ==
    /\ IF fails[p] + 1 < MaxFails
       THEN fails' = [fails EXCEPT ![p] = @ + 1] /\ UNCHANGED <<sleeping, healthyN>>
       ELSE /\ fails' = [fails EXCEPT ![p] = 0]
            /\ sleeping' = sleeping \cup {p}
            /\ healthyN' = IF p \notin sleeping /\ healthyN > 0
                           THEN healthyN - 1 ELSE healthyN
    /\ UNCHANGED <<items, idx, latency, skips, best>>
-----------------------------------------------------------------------------
\* The start of an attempt.
Pick(u) ==
    /\ using[u] = Nobody
    /\ \E p \in Pool : NextExcluding(avoiding[u], p) /\ using' = [using EXCEPT ![u] = p]
    /\ UNCHANGED <<avoiding, streak>>

\* Its end.  A retry and a confirmation avoid the proxy just used, the next name
\* avoids none.
Ends(u) ==
    /\ using[u] # Nobody
    /\ using' = [using EXCEPT ![u] = Nobody]
    /\ \E avoid \in {using[u], Nobody} : avoiding' = [avoiding EXCEPT ![u] = avoid]

\* An answer shows that the proxy is alive, whatever it says; only a definite one
\* is also a measurement.
Definite(u) ==
    /\ Ends(u)
    /\ \E sample \in {"fast", "slow"} : MarkOK(using[u], sample)
    /\ streak' = [streak EXCEPT ![using[u]] = 0]

\* Mutant of Inconclusive: it counts against the proxy.
InconclusiveBlamed(u) ==
    /\ Ends(u)
    /\ MarkFail(using[u])
    /\ streak' = [streak EXCEPT ![using[u]] = 0]
Inconclusive(u) ==
    /\ Ends(u)
    /\ MarkOK(using[u], "none")
    /\ streak' = [streak EXCEPT ![using[u]] = 0]

\* A transport error.
Dropped(u) ==
    /\ Ends(u)
    /\ MarkFail(using[u])
    /\ streak' = [streak EXCEPT ![using[u]] = IF @ < MaxFails THEN @ + 1 ELSE @]

\* The cancellation ended the attempt before its request: nothing is marked.
Abandoned(u) == Ends(u) /\ UNCHANGED <<poolVars, streak>>

\* healthy, from the writer's refresh.
Healthy ==
    /\ \E due \in BOOLEAN : \E asleep \in Sweeps(due) :
          /\ sleeping' = asleep
          /\ best' = BestNow(due, asleep) /\ healthyN' = HealthyNow(due, asleep)
    /\ UNCHANGED <<items, idx, fails, latency, skips, using, avoiding, streak>>

Next ==
    \/ \E u \in Users : Pick(u) \/ Definite(u) \/ Inconclusive(u) \/ Dropped(u) \/ Abandoned(u)
    \/ Healthy

Spec == Init /\ [][Next]_vars

\* The users go on making attempts, and attempts end.
FairSpec ==
    /\ Spec
    /\ \A u \in Users : /\ WF_vars(Pick(u))
                        /\ WF_vars(Definite(u) \/ Inconclusive(u) \/ Dropped(u) \/ Abandoned(u))
-----------------------------------------------------------------------------
TypeOK ==
    /\ items \in Pools
    /\ idx \in 0 .. N - 1
    /\ fails \in [Pool -> 0 .. MaxFails - 1]
    /\ sleeping \subseteq Pool
    /\ latency \in [Pool -> {"none", "fast", "slow"}]
    /\ skips \in [Pool -> 0 .. SlowProbeInterval - 1]
    /\ best \in {"none", "fast", "slow"}
    /\ healthyN \in 0 .. N
    /\ using \in [Users -> Pool \cup {Nobody}]
    /\ avoiding \in [Users -> Pool \cup {Nobody}]
    /\ streak \in [Pool -> 0 .. MaxFails]

\* The healthy count that sizes the limiter's ceiling, shows on the status line and
\* lets nextExcluding skip its scan is exact after every mix of failures, answers
\* and sweeps: it is adjusted in two places and recomputed in a third (proxy.go).
HealthyExact == healthyN = Cardinality(Pool \ sleeping)

\* A proxy is asleep only if it dropped maxFails connections in a row and has not
\* answered since, however the attempts overlap (proxy.go, markFail and markOK;
\* main.go, attemptOnce).
QuarantineEarned == \A p \in sleeping : streak[p] = MaxFails

\* No proxy is stepped over for slowness for ever: each is used again and again,
\* unless it is asleep (proxy.go, slowProbeInterval).
NoProxyExiled ==
    \A p \in Proxies : []<>(p \notin Pool \ sleeping \/ \E u \in Users : using[u] = p)
=============================================================================
