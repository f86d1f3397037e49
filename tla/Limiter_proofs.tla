--------------------------- MODULE Limiter_proofs ---------------------------
(***************************************************************************)
(* Proofs about Limiter, for any number of threads, any floor and cap, any *)
(* ceilings and any intervals: the cap stays in its range, and the slots   *)
(* handed out are the checks that hold one and never more than the cap.    *)
(***************************************************************************)
EXTENDS Limiter, FiniteSetTheorems, TLAPS

\* What setCeiling is called with is a number of slots, so the ceiling in units is
\* a natural number.
LEMMA CeilingType ==
  ASSUME NEW n \in Ceilings
  PROVE  n * Slot \in Nat
BY LimiterAssumption

\* The types CapInRange and InflightExact need.
CapType ==
    /\ limit \in Nat /\ ceiling \in Nat /\ ssthresh \in Nat
    /\ sinceCut \in Nat /\ sinceGrow \in Nat /\ cleanSinceCut \in Nat

CapInv == CapType /\ CapInRange

\* headroom lies between the lower of the floor and the ceiling, and the maximum.
LEMMA HeadroomRange ==
  ASSUME ceiling \in Nat
  PROVE  Headroom \in Nat /\ Headroom <= MaxLimit /\ (ceiling > 0 => Headroom <= ceiling)
BY LimiterAssumption DEF Headroom

LEMMA CapInit == Init => CapInv
BY LimiterAssumption DEF Init, CapInv, CapType, CapInRange, Most

\* growLocked keeps the cap in range.
LEMMA GrowKeeps ==
  ASSUME CapInv, NEW places, Grow(places)
  PROVE  /\ limit' \in Nat /\ sinceGrow' \in Nat
         /\ limit <= limit' /\ limit' <= MaxLimit
         /\ limit' = limit \/ limit' <= Headroom
<1>1. Headroom \in Nat /\ Headroom <= MaxLimit
  BY HeadroomRange DEF CapInv, CapType
<1>2. CASE limit >= Headroom
  BY <1>1, <1>2 DEF Grow, CapInv, CapType, CapInRange
<1>3. CASE ~(limit >= Headroom)
  <2>1. limit' = Least(Headroom, limit + GrowStep) /\ sinceGrow' = 0
    BY <1>3 DEF Grow
  <2>2. GrowStep \in Nat
    BY LimiterAssumption DEF GrowStep, Least, CapInv, CapType
  <2> QED BY <1>1, <1>3, <2>1, <2>2, LimiterAssumption DEF Least, CapInv, CapType
<1> QED BY <1>2, <1>3

\* A growth that leaves everything else alone keeps CapInv.
LEMMA GrowPreserves ==
  ASSUME CapInv, NEW places, Grow(places), cleanSinceCut' \in Nat,
         UNCHANGED <<ceiling, ssthresh, edgeKnown, sinceCut>>
  PROVE  CapInv'
<1>1. Headroom \in Nat /\ (ceiling > 0 => Headroom <= ceiling)
  BY HeadroomRange DEF CapInv, CapType
<1>2. limit' \in Nat /\ sinceGrow' \in Nat /\ limit <= limit' /\ limit' <= MaxLimit
      /\ (limit' = limit \/ limit' <= Headroom)
  BY GrowKeeps
<1> QED BY <1>1, <1>2, LimiterAssumption DEF CapInv, CapType, CapInRange, Most

\* onThrottle's cut.
LEMMA ThrottlePreserves ==
  ASSUME CapInv, NEW w \in Threads, OnThrottle(w)
  PROVE  CapInv'
<1>1. UNCHANGED <<ceiling, sinceGrow>>
  BY DEF OnThrottle
<1>2. CASE sinceCut < CutCooldown
  BY <1>1, <1>2 DEF OnThrottle, CapInv, CapType, CapInRange
<1>3. CASE ~(sinceCut < CutCooldown)
  <2>1. CutTo \in Nat /\ MinLimit <= CutTo /\ CutTo <= MaxLimit
    BY LimiterAssumption DEF CutTo, Most, CapInv, CapType, CapInRange
  <2>2. limit' = Least(CutTo, limit) /\ sinceCut' = 0 /\ cleanSinceCut' = 0
    BY <1>3 DEF OnThrottle
  <2>3. limit' \in Nat /\ MinLimit <= limit' /\ limit' <= limit
    BY <2>1, <2>2, LimiterAssumption DEF Least, CapInv, CapType, CapInRange
  <2>4. ssthresh' \in Nat /\ MinLimit <= ssthresh' /\ ssthresh' <= MaxLimit
    <3>1. CASE ~edgeKnown \/ CutTo > ssthresh
      BY <1>3, <2>1, <3>1 DEF OnThrottle
    <3>2. CASE ~(~edgeKnown \/ CutTo > ssthresh)
      <4>1. ssthresh' = (19 * ssthresh + CutTo) \div 20
        BY <1>3, <3>2 DEF OnThrottle
      <4>2. ssthresh \in Nat /\ CutTo <= ssthresh /\ ssthresh <= MaxLimit
        BY <2>1, <3>2 DEF CapInv, CapType, CapInRange
      <4> QED BY <2>1, <4>1, <4>2, LimiterAssumption
    <3> QED BY <3>1, <3>2
  <2> QED BY <1>1, <2>2, <2>3, <2>4, LimiterAssumption
          DEF CapInv, CapType, CapInRange, Most
<1> QED BY <1>2, <1>3

LEMMA CapNext == CapInv /\ [Next]_vars => CapInv'
<1> SUFFICES ASSUME CapInv, [Next]_vars PROVE CapInv'
  OBVIOUS
<1>1. CASE UNCHANGED capVars
  BY <1>1 DEF capVars, CapInv, CapType, CapInRange
<1>2. ASSUME NEW w \in Threads, OnClean(w) PROVE CapInv'
  <2>1. UNCHANGED <<ceiling, ssthresh, edgeKnown, sinceCut>>
    BY <1>2 DEF OnClean
  <2>2. CASE cleanSinceCut + 1 < GrowStreak
    BY <1>2, <2>1, <2>2 DEF OnClean, CapInv, CapType, CapInRange
  <2>3. CASE ~(cleanSinceCut + 1 < GrowStreak)
    BY <1>2, <2>1, <2>3, GrowPreserves DEF OnClean
  <2> QED BY <2>2, <2>3
<1>3. ASSUME NEW w \in Threads, OnThrottle(w) PROVE CapInv'
  BY <1>3, ThrottlePreserves
<1>4. CASE Probe
  <2>1. UNCHANGED <<ceiling, ssthresh, edgeKnown, sinceCut, cleanSinceCut>> /\ Grow(at)
    BY <1>4 DEF Probe
  <2> QED BY <2>1, GrowPreserves DEF CapInv, CapType
<1>5. ASSUME NEW n \in Ceilings, SetCeiling(n) PROVE CapInv'
  <2>1. n * Slot \in Nat /\ n \in Nat /\ (n * Slot > 0 => n > 0)
    BY CeilingType, LimiterAssumption
  <2>2. UNCHANGED <<ssthresh, edgeKnown, cleanSinceCut, sinceCut, sinceGrow>>
        /\ ceiling' = n * Slot
        /\ limit' = IF n > 0 /\ limit > n * Slot THEN Most(MinLimit, n * Slot) ELSE limit
    BY <1>5 DEF SetCeiling
  <2> QED BY <2>1, <2>2, LimiterAssumption DEF CapInv, CapType, CapInRange, Most
<1>6. CASE Tick
  BY <1>6, LimiterAssumption DEF Tick, CapInv, CapType, CapInRange, Least
<1> QED
  BY <1>1, <1>2, <1>3, <1>4, <1>5, <1>6
  DEF Next, vars, Admit, GiveUp, Park, Release, Signal, Leave, OnOther, PokeTurn,
      PokeBroadcast, Cancel

\* The cap stays between the floor and what -t asked for, under any lowered ceiling
\* except at the floor, and so does the remembered edge (tuning.go, onThrottle,
\* growLocked and setCeiling).
THEOREM CapInRangeHolds == Spec => []CapInRange
<1>1. CapInv => CapInRange
  BY DEF CapInv
<1> QED BY CapInit, CapNext, <1>1, PTL DEF Spec
-----------------------------------------------------------------------------
\* Slots and holders.  A step moves one thread, or wakes parked ones.
SlotInv ==
    /\ at \in [Threads -> Places]
    /\ InflightExact
    /\ inflight \in Nat

LEMMA HoldingFinite == Holding \subseteq Threads /\ IsFiniteSet(Holding)
<1>1. Holding \subseteq Threads
  BY DEF Holding
<1> QED BY <1>1, LimiterAssumption, FS_Subset

\* Waking parked threads neither hands out a slot nor takes one back.
LEMMA BroadcastKeeps ==
  ASSUME NEW places \in [Threads -> Places]
  PROVE  /\ Broadcast(places) \in [Threads -> Places]
         /\ \A w \in Threads : Broadcast(places)[w] \in {"inside", "judged"}
                               <=> places[w] \in {"inside", "judged"}
<1>1. /\ Broadcast(places) \in [Threads -> Places]
      /\ \A w \in Threads : Broadcast(places)[w] = IF places[w] = "parked" THEN "woken"
                                                   ELSE places[w]
  BY DEF Broadcast, Places
<1> QED BY <1>1

LEMMA SlotInit == Init => SlotInv
<1> SUFFICES ASSUME Init PROVE SlotInv
  OBVIOUS
<1>1. Holding = {}
  BY DEF Init, Holding
<1>2. inflight = 0 /\ at \in [Threads -> Places]
  BY DEF Init, Places
<1>3. Cardinality(Holding) = 0
  BY <1>1, FS_EmptySet
<1> QED BY <1>2, <1>3, LimiterAssumption DEF SlotInv, InflightExact

\* A step that leaves the holders and the count alone.
LEMMA SlotSame ==
  ASSUME SlotInv, inflight' = inflight, at' \in [Threads -> Places],
         \A w \in Threads : at'[w] \in {"inside", "judged"} <=> at[w] \in {"inside", "judged"}
  PROVE  SlotInv'
<1>1. Holding' = Holding
  BY DEF Holding
<1> QED BY <1>1 DEF SlotInv, InflightExact

LEMMA SlotAdmit ==
  ASSUME SlotInv, CapInv, NEW w \in Threads, Admit(w)
  PROVE  SlotInv'
<1>1. at[w] \in {"out", "woken"} /\ at' = [at EXCEPT ![w] = "inside"]
      /\ inflight' = inflight + 1 /\ SlotFree
  BY DEF Admit, Arriving
<1>2. w \notin Holding /\ Holding' = Holding \cup {w} /\ at' \in [Threads -> Places]
  BY <1>1 DEF Holding, SlotInv, Places
<1>3. Cardinality(Holding') = Cardinality(Holding) + 1
  BY <1>2, HoldingFinite, FS_AddElement
<1>4. Headroom \in Nat /\ Headroom <= MaxLimit
  BY HeadroomRange DEF CapInv, CapType
<1>5. inflight * Slot < MaxLimit
  BY <1>1, <1>4, LimiterAssumption DEF SlotFree, Least, SlotInv, CapInv, CapType, CapInRange
<1>6. (inflight + 1) * Slot = inflight * Slot + Slot /\ inflight * Slot \in Nat
  BY LimiterAssumption DEF SlotInv
<1> QED BY <1>1, <1>2, <1>3, <1>5, <1>6, LimiterAssumption DEF SlotInv, InflightExact

LEMMA SlotRelease ==
  ASSUME SlotInv, NEW w \in Threads, Release(w)
  PROVE  SlotInv'
<1>1. at[w] = "judged" /\ at' = [at EXCEPT ![w] = "signalling"]
      /\ inflight' = IF inflight > 0 THEN inflight - 1 ELSE 0
  BY DEF Release
<1>2. w \in Holding /\ Holding' = Holding \ {w} /\ at' \in [Threads -> Places]
  BY <1>1 DEF Holding, SlotInv, Places
<1>3. Cardinality(Holding') = Cardinality(Holding) - 1 /\ Cardinality(Holding) \in Nat
      /\ Cardinality(Holding') \in Nat
  BY <1>2, HoldingFinite, FS_RemoveElement, FS_CardinalityType
<1>4. inflight > 0 /\ inflight' = inflight - 1
  BY <1>1, <1>3 DEF SlotInv, InflightExact
<1>5. (inflight - 1) * Slot = inflight * Slot - Slot /\ inflight * Slot \in Nat
  BY <1>4, LimiterAssumption DEF SlotInv
<1> QED BY <1>2, <1>3, <1>4, <1>5, LimiterAssumption DEF SlotInv, InflightExact

LEMMA SlotNext == SlotInv /\ CapInv /\ [Next]_vars => SlotInv'
<1> SUFFICES ASSUME SlotInv, CapInv, [Next]_vars PROVE SlotInv'
  OBVIOUS
<1> DEFINE Kept == /\ inflight' = inflight /\ at' \in [Threads -> Places]
                   /\ \A v \in Threads : at'[v] \in {"inside", "judged"}
                                         <=> at[v] \in {"inside", "judged"}
<1>1. ASSUME NEW w \in Threads, Admit(w) PROVE SlotInv'
  BY <1>1, SlotAdmit
<1>2. ASSUME NEW w \in Threads, Release(w) PROVE SlotInv'
  BY <1>2, SlotRelease
<1>3. ASSUME NEW w \in Threads, GiveUp(w) \/ Park(w) \/ Leave(w) \/ Signal(w) PROVE Kept
  BY <1>3 DEF GiveUp, Park, Leave, Signal, Arriving, SlotInv, Places, slotVars
<1>4. ASSUME NEW w \in Threads, OnClean(w) \/ OnThrottle(w) \/ OnOther(w) PROVE Kept
  <2> DEFINE judged == [at EXCEPT ![w] = "judged"]
  <2>2. at[w] = "inside" /\ inflight' = inflight /\ (at' = judged \/ at' = Broadcast(judged))
    BY <1>4 DEF OnClean, OnThrottle, OnOther, Grow, slotVars
  <2>3. judged \in [Threads -> Places]
        /\ \A v \in Threads : judged[v] \in {"inside", "judged"}
                              <=> at[v] \in {"inside", "judged"}
    BY <2>2 DEF SlotInv, Places
  <2> HIDE DEF judged
  <2> QED BY <2>2, <2>3, BroadcastKeeps
<1>5. CASE Probe \/ PokeBroadcast
  <2>1. inflight' = inflight /\ (at' = at \/ at' = Broadcast(at))
    BY <1>5 DEF Probe, PokeBroadcast, Grow, slotVars
  <2> QED BY <2>1, BroadcastKeeps, SlotSame DEF SlotInv
<1>6. CASE UNCHANGED <<at, inflight>>
  BY <1>6, SlotSame DEF SlotInv
<1>7. ASSUME NEW n \in Ceilings, SetCeiling(n) PROVE UNCHANGED <<at, inflight>>
  BY <1>7 DEF SetCeiling, slotVars
<1>8. Kept => SlotInv'
  BY SlotSame
<1> QED
  BY <1>1, <1>2, <1>3, <1>4, <1>5, <1>6, <1>7, <1>8
  DEF Next, vars, slotVars, PokeTurn, Tick, Cancel

\* The slots handed out are exactly the checks that hold one, and never more than
\* -t rounded up (tuning.go, acquire and release).
THEOREM InflightExactHolds == Spec => []InflightExact
<1>1. CapInv /\ SlotInv => InflightExact
  BY DEF SlotInv
<1> QED BY CapInit, CapNext, SlotInit, SlotNext, <1>1, PTL DEF Spec
-----------------------------------------------------------------------------
\* Waiters and the poke.
PokeOK ==
    /\ waiters \in Nat
    /\ poking \in BOOLEAN /\ poker \in {"none", "asleep", "broadcasting"}
    /\ poking <=> poker # "none"
    /\ waiters > 0 => poking

WaitInv ==
    /\ at \in [Threads -> Places]
    /\ waiters = Cardinality(Waiting)
    /\ PokeOK

LEMMA WaitingFinite == IsFiniteSet(Waiting) /\ Cardinality(Waiting) \in Nat
<1>1. Waiting \subseteq Threads
  BY DEF Waiting
<1> QED BY <1>1, LimiterAssumption, FS_Subset, FS_CardinalityType

\* Waking parked threads leaves them among the waiting.
LEMMA BroadcastWaits ==
  ASSUME NEW places \in [Threads -> Places]
  PROVE  \A w \in Threads : Broadcast(places)[w] \in {"parked", "woken"}
                            <=> places[w] \in {"parked", "woken"}
BY DEF Broadcast

LEMMA WaitInit == Init => WaitInv
<1> SUFFICES ASSUME Init PROVE WaitInv
  OBVIOUS
<1>1. Waiting = {}
  BY DEF Init, Waiting
<1>2. Cardinality(Waiting) = 0
  BY <1>1, FS_EmptySet
<1>3. at \in [Threads -> Places] /\ waiters = 0
  BY DEF Init, Places
<1>4. PokeOK
  <2>1. waiters = 0 /\ poking = FALSE /\ poker = "none"
    BY DEF Init
  <2>2. waiters \in Nat /\ ~(waiters > 0)
    BY <2>1
  <2> QED BY <2>1, <2>2, Zenon DEF PokeOK
<1> QED BY <1>2, <1>3, <1>4 DEF WaitInv

\* A step that leaves the same threads waiting.
LEMMA WaitSame ==
  ASSUME WaitInv, at' \in [Threads -> Places], PokeOK', waiters' = waiters,
         \A w \in Threads : at'[w] \in {"parked", "woken"} <=> at[w] \in {"parked", "woken"}
  PROVE  WaitInv'
<1>1. Waiting' = Waiting
  BY DEF Waiting
<1> QED BY <1>1 DEF WaitInv

\* acquire returns, with a slot or without: a woken thread stops waiting.
LEMMA WaitReturn ==
  ASSUME WaitInv, NEW w \in Threads, Admit(w) \/ GiveUp(w)
  PROVE  WaitInv'
<1>1. at[w] \in {"out", "woken"} /\ waiters' = WaitersLess(w) /\ UNCHANGED <<poking, poker>>
      /\ at' \in [Threads -> Places] /\ at'[w] \in {"inside", "gone"}
      /\ \A v \in Threads \ {w} : at'[v] = at[v]
  BY DEF Admit, GiveUp, Arriving, WaitInv, Places
<1>2. CASE at[w] = "out"
  BY <1>1, <1>2, WaitSame DEF WaitersLess, WaitInv, PokeOK
<1>3. CASE at[w] = "woken"
  <2>1. w \in Waiting /\ Waiting' = Waiting \ {w}
    BY <1>1, <1>3 DEF Waiting
  <2>2. Cardinality(Waiting') = Cardinality(Waiting) - 1 /\ Cardinality(Waiting') \in Nat
    BY <2>1, WaitingFinite, FS_RemoveElement, FS_CardinalityType
  <2>3. waiters' = waiters - 1
    BY <1>1, <1>3 DEF WaitersLess
  <2> QED BY <1>1, <2>2, <2>3 DEF WaitInv, PokeOK
<1> QED BY <1>1, <1>2, <1>3

\* The wait: a newcomer joins the waiting, a woken thread stays one, and the poke runs.
LEMMA WaitPark ==
  ASSUME WaitInv, NEW w \in Threads, Park(w)
  PROVE  WaitInv'
<1>1. /\ at[w] \in {"out", "woken"} /\ waiters' = WaitersLess(w) + 1
      /\ at' \in [Threads -> Places] /\ at'[w] = "parked"
      /\ \A v \in Threads \ {w} : at'[v] = at[v]
  BY DEF Park, Arriving, WaitInv, Places
<1>2. /\ poking' /\ poking' \in BOOLEAN
      /\ poker' \in {"asleep", "broadcasting"}
  BY DEF Park, WaitInv, PokeOK
<1>3. CASE at[w] = "woken"
  <2>1. waiters' = waiters
    BY <1>1, <1>3 DEF WaitersLess, WaitInv, PokeOK
  <2> QED BY <1>1, <1>2, <1>3, <2>1, WaitSame DEF WaitInv, PokeOK
<1>4. CASE at[w] = "out"
  <2>1. w \notin Waiting /\ Waiting' = Waiting \cup {w}
    BY <1>1, <1>4 DEF Waiting
  <2>2. Cardinality(Waiting') = Cardinality(Waiting) + 1
    BY <2>1, WaitingFinite, FS_AddElement
  <2>3. waiters' = waiters + 1
    BY <1>1, <1>4 DEF WaitersLess, WaitInv, PokeOK
  <2> QED BY <1>1, <1>2, <2>2, <2>3, WaitingFinite DEF WaitInv, PokeOK
<1> QED BY <1>1, <1>3, <1>4

\* The poke goes only when nobody waits, and says so.
LEMMA WaitPoke ==
  ASSUME WaitInv, PokeTurn \/ PokeBroadcast
  PROVE  WaitInv'
<1>1. CASE PokeTurn
  <2>1. UNCHANGED <<at, waiters>> /\ waiters \in Nat /\ (waiters > 0 <=> waiters # 0)
    BY <1>1 DEF PokeTurn, WaitInv, PokeOK
  <2>2. PokeOK'
    BY <1>1, <2>1, Zenon DEF PokeTurn, PokeOK
  <2> QED BY <2>1, <2>2, WaitSame DEF WaitInv
<1>2. CASE PokeBroadcast
  <2>1. PokeOK' /\ at' = Broadcast(at) /\ waiters' = waiters
    BY <1>2 DEF PokeBroadcast, WaitInv, PokeOK
  <2> QED BY <2>1, BroadcastKeeps, BroadcastWaits, WaitSame DEF WaitInv
<1> QED BY <1>1, <1>2

LEMMA WaitNext == WaitInv /\ [Next]_vars => WaitInv'
<1> SUFFICES ASSUME WaitInv, [Next]_vars PROVE WaitInv'
  OBVIOUS
<1> DEFINE Kept == /\ UNCHANGED <<waiters, poking, poker>> /\ at' \in [Threads -> Places]
                   /\ \A v \in Threads : at'[v] \in {"parked", "woken"}
                                         <=> at[v] \in {"parked", "woken"}
<1>1. ASSUME NEW w \in Threads, Admit(w) \/ GiveUp(w) PROVE WaitInv'
  BY <1>1, WaitReturn
<1>2. ASSUME NEW w \in Threads, Park(w) PROVE WaitInv'
  BY <1>2, WaitPark
<1>3. ASSUME NEW w \in Threads, Release(w) \/ Leave(w) \/ Signal(w) PROVE Kept
  BY <1>3 DEF Release, Leave, Signal, WaitInv, Places, slotVars
<1>4. ASSUME NEW w \in Threads, OnClean(w) \/ OnThrottle(w) \/ OnOther(w) PROVE Kept
  <2> DEFINE judged == [at EXCEPT ![w] = "judged"]
  <2>1. at[w] = "inside" /\ UNCHANGED slotVars /\ (at' = judged \/ at' = Broadcast(judged))
    BY <1>4 DEF OnClean, OnThrottle, OnOther, Grow
  <2>2. judged \in [Threads -> Places]
        /\ \A v \in Threads : judged[v] \in {"parked", "woken"}
                              <=> at[v] \in {"parked", "woken"}
    BY <2>1 DEF WaitInv, Places
  <2> HIDE DEF judged
  <2> QED BY <2>1, <2>2, BroadcastKeeps, BroadcastWaits DEF slotVars
<1>5. CASE Probe
  <2>1. UNCHANGED slotVars /\ (at' = at \/ at' = Broadcast(at))
    BY <1>5 DEF Probe, Grow
  <2> QED BY <2>1, BroadcastKeeps, BroadcastWaits, WaitSame DEF WaitInv, PokeOK, slotVars
<1>6. CASE PokeTurn \/ PokeBroadcast
  BY <1>6, WaitPoke
<1>7. CASE UNCHANGED <<at, slotVars>>
  BY <1>7, WaitSame DEF WaitInv, PokeOK, slotVars
<1>8. ASSUME NEW n \in Ceilings, SetCeiling(n) PROVE UNCHANGED <<at, slotVars>>
  BY <1>8 DEF SetCeiling
<1>9. Kept => WaitInv'
  BY WaitSame DEF WaitInv, PokeOK
<1> QED
  BY <1>1, <1>2, <1>3, <1>4, <1>5, <1>6, <1>7, <1>8, <1>9
  DEF Next, vars, Tick, Cancel

\* As long as anybody waits for a slot, the one poke goroutine is alive, and the
\* count it goes by is the number that waits (tuning.go, acquire and poke).
THEOREM WaitersCoveredHolds == Spec => []WaitersCovered
<1>1. WaitInv => WaitersCovered
  BY DEF WaitInv, PokeOK, WaitersCovered
<1> QED BY WaitInit, WaitNext, <1>1, PTL DEF Spec
-----------------------------------------------------------------------------
\* What CapInv, SlotInv and WaitInv do not say of the types.
Ranges ==
    /\ edgeKnown \in BOOLEAN /\ cancelled \in BOOLEAN
    /\ cleanSinceCut \in 0 .. GrowStreak - 1
    /\ sinceCut \in 0 .. ProbeInterval /\ sinceGrow \in 0 .. ProbeInterval

LEMMA RangesInit == Init => Ranges
<1> SUFFICES ASSUME Init PROVE Ranges
  OBVIOUS
<1>1. edgeKnown \in BOOLEAN /\ cancelled \in BOOLEAN
  BY DEF Init
<1>2. cleanSinceCut = 0 /\ sinceCut = ProbeInterval /\ sinceGrow = ProbeInterval
  BY DEF Init
<1> QED BY <1>1, <1>2, LimiterAssumption DEF Ranges

LEMMA RangesNext == Ranges /\ [Next]_vars => Ranges'
<1> SUFFICES ASSUME Ranges, [Next]_vars PROVE Ranges'
  OBVIOUS
<1> USE LimiterAssumption DEF Ranges
<1>1. CASE UNCHANGED <<edgeKnown, cleanSinceCut, sinceCut, sinceGrow>> /\ cancelled' \in BOOLEAN
  BY <1>1
<1>2. ASSUME NEW w \in Threads, OnClean(w) PROVE Ranges'
  BY <1>2 DEF OnClean, Grow
<1>3. ASSUME NEW w \in Threads, OnThrottle(w) PROVE Ranges'
  <2>1. edgeKnown' \in BOOLEAN /\ cancelled' = cancelled
    BY <1>3, Zenon DEF OnThrottle
  <2>2. /\ sinceGrow' = sinceGrow
        /\ sinceCut' = sinceCut \/ sinceCut' = 0
        /\ cleanSinceCut' = cleanSinceCut \/ cleanSinceCut' = 0
    BY <1>3 DEF OnThrottle
  <2> QED BY <2>1, <2>2
<1>4. CASE Probe
  BY <1>4 DEF Probe, Grow
<1>5. CASE Tick
  BY <1>5 DEF Tick, Least
<1>6. ASSUME NEW n \in Ceilings, SetCeiling(n) PROVE Ranges'
  BY <1>6 DEF SetCeiling
<1> QED
  BY <1>1, <1>2, <1>3, <1>4, <1>5, <1>6
  DEF Next, vars, capVars, Admit, GiveUp, Park, Release, Signal, Leave, OnOther, PokeTurn,
      PokeBroadcast, Cancel

\* Every variable keeps its type (tuning.go, adaptiveLimiter).
THEOREM TypeCorrect == Spec => []TypeOK
<1>1. CapInv /\ SlotInv /\ WaitInv /\ Ranges => TypeOK
  BY DEF CapInv, CapType, SlotInv, WaitInv, PokeOK, Ranges, TypeOK
<1> QED
  BY CapInit, CapNext, SlotInit, SlotNext, WaitInit, WaitNext, RangesInit, RangesNext, <1>1, PTL
  DEF Spec
=============================================================================
