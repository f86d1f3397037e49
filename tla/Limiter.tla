------------------------------ MODULE Limiter ------------------------------
(***************************************************************************)
(* The adaptive concurrency limiter (tuning.go): every check takes a slot  *)
(* in acquire and gives it back in release, the answers widen and cut the  *)
(* cap (AIMD), the writer's refresh moves the proxy ceiling and probes,    *)
(* and one poke goroutine stands behind the condition variable.            *)
(*                                                                         *)
(* The float64 cap is fixed-point: Slot units make one slot, and 0.7, 0.5  *)
(* and 0.95 are taken on units, rounded down.  Times are ages in ticks,    *)
(* which stop counting at ProbeInterval.                                   *)
(***************************************************************************)
EXTENDS Naturals, FiniteSets

CONSTANTS
    Threads,        \* the goroutines that check names
    Slot,           \* units per slot
    MinLimit,       \* min, in units
    MaxLimit,       \* max, in units: what -t asked for
    Ceilings,       \* what setCeiling is called with, in slots; 0 lifts the ceiling
    GrowStreak,     \* cleanStreakForGrowth
    CutCooldown, ProbeInterval   \* in ticks

ASSUME LimiterAssumption ==
    /\ IsFiniteSet(Threads) /\ Threads # {}
    /\ Slot \in Nat /\ Slot >= 2
    /\ MinLimit \in Nat /\ MaxLimit \in Nat
    /\ Slot <= MinLimit /\ MinLimit <= MaxLimit
    /\ Ceilings \subseteq Nat
    /\ GrowStreak \in Nat \ {0}
    /\ CutCooldown \in Nat /\ ProbeInterval \in Nat /\ CutCooldown <= ProbeInterval

VARIABLES
    limit,      \* l.limit, in units
    ceiling,    \* l.ceiling, in units
    ssthresh, edgeKnown,
    cleanSinceCut,
    sinceCut, sinceGrow,    \* the ages of lastCut and lastGrow
    inflight, waiters, poking,
    poker,      \* the poke goroutine: "none", "asleep" or "broadcasting"
    at,         \* where each thread is
    cancelled   \* the run's context is done

capVars == <<limit, ceiling, ssthresh, edgeKnown, cleanSinceCut, sinceCut, sinceGrow>>
slotVars == <<inflight, waiters, poking, poker>>
vars == <<capVars, slotVars, at, cancelled>>

\* "out": between two checks.  "parked": in cond.Wait.  "woken": signalled, to
\* take the mutex again.  "inside": its request is on the wire.  "judged": its
\* answer has been fed back.  "signalling": released, before cond.Signal.
Places == {"out", "parked", "woken", "inside", "judged", "signalling", "gone"}
Waiting == {w \in Threads : at[w] \in {"parked", "woken"}}
Holding == {w \in Threads : at[w] \in {"inside", "judged"}}

Least(x, y) == IF x <= y THEN x ELSE y
Most(x, y) == IF x >= y THEN x ELSE y

\* headroom.
Headroom == IF ceiling > 0 /\ ceiling < MaxLimit THEN ceiling ELSE MaxLimit
\* acquire's test: is a slot free?
SlotFree == inflight * Slot < Least(limit, Headroom)

Init ==
    /\ limit = MaxLimit /\ ceiling = 0
    /\ ssthresh = MaxLimit /\ edgeKnown = FALSE
    /\ cleanSinceCut = 0
    /\ sinceCut = ProbeInterval /\ sinceGrow = ProbeInterval
    /\ inflight = 0 /\ waiters = 0 /\ poking = FALSE /\ poker = "none"
    /\ at = [w \in Threads |-> "out"]
    /\ cancelled = FALSE

\* cond.Broadcast.
Broadcast(places) == [w \in Threads |-> IF places[w] = "parked" THEN "woken" ELSE places[w]]
-----------------------------------------------------------------------------
\* acquire, from its first test or from the one after cond.Wait.
Arriving(w) == at[w] \in {"out", "woken"}
WaitersLess(w) == IF at[w] = "woken" THEN waiters - 1 ELSE waiters

\* Mutant of Admit: the test is not made again after Wait.
AdmitOnceWoken(w) ==
    /\ Arriving(w) /\ (SlotFree \/ at[w] = "woken")
    /\ inflight' = inflight + 1
    /\ waiters' = WaitersLess(w)
    /\ at' = [at EXCEPT ![w] = "inside"]
    /\ UNCHANGED <<capVars, poking, poker, cancelled>>

Admit(w) ==
    /\ Arriving(w) /\ SlotFree
    /\ inflight' = inflight + 1
    /\ waiters' = WaitersLess(w)
    /\ at' = [at EXCEPT ![w] = "inside"]
    /\ UNCHANGED <<capVars, poking, poker, cancelled>>

\* acquire returns false, and the caller gives the check up.
GiveUp(w) ==
    /\ Arriving(w) /\ ~SlotFree /\ cancelled
    /\ waiters' = WaitersLess(w)
    /\ at' = [at EXCEPT ![w] = "gone"]
    /\ UNCHANGED <<capVars, inflight, poking, poker, cancelled>>

\* The wait itself, and the poke goroutine for whoever waits first.
Park(w) ==
    /\ Arriving(w) /\ ~SlotFree /\ ~cancelled
    /\ waiters' = WaitersLess(w) + 1
    /\ at' = [at EXCEPT ![w] = "parked"]
    /\ IF poking THEN UNCHANGED <<poking, poker>> ELSE poking' = TRUE /\ poker' = "asleep"
    /\ UNCHANGED <<capVars, inflight, cancelled>>

\* release, up to the unlock.
Release(w) ==
    /\ at[w] = "judged"
    /\ inflight' = IF inflight > 0 THEN inflight - 1 ELSE 0
    /\ at' = [at EXCEPT ![w] = "signalling"]
    /\ UNCHANGED <<capVars, waiters, poking, poker, cancelled>>

\* release's Signal wakes one waiter, if there is one.
Signal(w) ==
    /\ at[w] = "signalling"
    /\ \/ \E v \in Threads : at[v] = "parked" /\ at' = [at EXCEPT ![w] = "out", ![v] = "woken"]
       \/ (\A v \in Threads : at[v] # "parked") /\ at' = [at EXCEPT ![w] = "out"]
    /\ UNCHANGED <<capVars, slotVars, cancelled>>

\* The worker loop ends for a thread between two checks.
Leave(w) ==
    /\ at[w] = "out" /\ cancelled
    /\ at' = [at EXCEPT ![w] = "gone"]
    /\ UNCHANGED <<capVars, slotVars, cancelled>>
-----------------------------------------------------------------------------
\* poke's turn: leave when nobody waits, otherwise broadcast after the unlock.
\* Mutant of PokeTurn: it leaves without saying so.
PokeTurnSilent ==
    /\ poker = "asleep"
    /\ poker' = IF waiters = 0 THEN "none" ELSE "broadcasting"
    /\ UNCHANGED <<capVars, inflight, waiters, poking, at, cancelled>>
PokeTurn ==
    /\ poker = "asleep"
    /\ poker' = IF waiters = 0 THEN "none" ELSE "broadcasting"
    /\ poking' = (waiters # 0)
    /\ UNCHANGED <<capVars, inflight, waiters, at, cancelled>>

\* Mutant of PokeBroadcast: the poke does not wake anybody.
PokeSilent ==
    /\ poker = "broadcasting"
    /\ poker' = "asleep"
    /\ UNCHANGED <<capVars, inflight, waiters, poking, at, cancelled>>
PokeBroadcast ==
    /\ poker = "broadcasting"
    /\ poker' = "asleep"
    /\ at' = Broadcast(at)
    /\ UNCHANGED <<capVars, inflight, waiters, poking, cancelled>>
-----------------------------------------------------------------------------
\* growLocked's step: half as much again below the known edge, never past it, and
\* one slot at a time from there.
GrowStep == IF limit < ssthresh THEN Least(limit \div 2, ssthresh - limit) ELSE Slot

\* Mutant of Grow: nobody waiting is told, and at the edge nothing is added.
GrowToEdge(places) ==
    IF limit >= Least(Headroom, ssthresh)
    THEN UNCHANGED <<limit, sinceGrow>> /\ at' = places
    ELSE /\ limit' = Least(Headroom, limit + GrowStep)
         /\ sinceGrow' = 0
         /\ at' = Broadcast(places)
\* growLocked.
Grow(places) ==
    IF limit >= Headroom
    THEN UNCHANGED <<limit, sinceGrow>> /\ at' = places
    ELSE /\ limit' = Least(Headroom, limit + GrowStep)
         /\ sinceGrow' = 0
         /\ at' = Broadcast(places)

\* onClean: a definite answer.
OnClean(w) ==
    /\ at[w] = "inside"
    /\ LET judged == [at EXCEPT ![w] = "judged"] IN
          IF cleanSinceCut + 1 < GrowStreak
          THEN /\ cleanSinceCut' = cleanSinceCut + 1
               /\ at' = judged
               /\ UNCHANGED <<limit, sinceGrow>>
          ELSE cleanSinceCut' = 0 /\ Grow(judged)
    /\ UNCHANGED <<ceiling, ssthresh, edgeKnown, sinceCut, slotVars, cancelled>>

\* onThrottle's new cap.
\* Mutant of CutTo: the floor is forgotten.
CutToNothing == (limit * 7) \div 10
CutTo == Most((limit * 7) \div 10, MinLimit)

\* onThrottle: a 429 or 5xx.  Within the cooldown of the last cut it is part of the
\* same congestion.
OnThrottle(w) ==
    /\ at[w] = "inside"
    /\ at' = [at EXCEPT ![w] = "judged"]
    /\ IF sinceCut < CutCooldown
       THEN UNCHANGED <<limit, ssthresh, edgeKnown, cleanSinceCut, sinceCut>>
       ELSE /\ sinceCut' = 0 /\ cleanSinceCut' = 0
            /\ ssthresh' = IF ~edgeKnown \/ CutTo > ssthresh THEN CutTo
                           ELSE (19 * ssthresh + CutTo) \div 20
            /\ edgeKnown' = TRUE
            /\ limit' = Least(CutTo, limit)
    /\ UNCHANGED <<ceiling, sinceGrow, slotVars, cancelled>>

\* A transport error, or an answer that is neither definite nor a throttle.
OnOther(w) ==
    /\ at[w] = "inside"
    /\ at' = [at EXCEPT ![w] = "judged"]
    /\ UNCHANGED <<capVars, slotVars, cancelled>>

\* probe, from the writer's refresh.
Probe ==
    /\ limit < Headroom
    /\ sinceCut >= ProbeInterval /\ sinceGrow >= ProbeInterval
    /\ Grow(at)
    /\ UNCHANGED <<ceiling, ssthresh, edgeKnown, cleanSinceCut, sinceCut, slotVars, cancelled>>

\* setCeiling, from the writer's refresh.  It wakes nobody.
SetCeiling(n) ==
    /\ ceiling' = n * Slot
    /\ limit' = IF n > 0 /\ limit > n * Slot THEN Most(MinLimit, n * Slot) ELSE limit
    /\ UNCHANGED <<ssthresh, edgeKnown, cleanSinceCut, sinceCut, sinceGrow,
                   slotVars, at, cancelled>>
-----------------------------------------------------------------------------
Tick ==
    /\ sinceCut < ProbeInterval \/ sinceGrow < ProbeInterval
    /\ sinceCut' = Least(sinceCut + 1, ProbeInterval)
    /\ sinceGrow' = Least(sinceGrow + 1, ProbeInterval)
    /\ UNCHANGED <<limit, ceiling, ssthresh, edgeKnown, cleanSinceCut, slotVars,
                   at, cancelled>>

Cancel ==
    /\ ~cancelled
    /\ cancelled' = TRUE
    /\ UNCHANGED <<capVars, slotVars, at>>

Next ==
    \/ \E w \in Threads :
          \/ Admit(w) \/ GiveUp(w) \/ Park(w) \/ Release(w) \/ Signal(w) \/ Leave(w)
          \/ OnClean(w) \/ OnThrottle(w) \/ OnOther(w)
    \/ PokeTurn \/ PokeBroadcast
    \/ Probe \/ \E n \in Ceilings : SetCeiling(n)
    \/ Tick \/ Cancel

Spec == Init /\ [][Next]_vars

\* Goroutines that can run do, time passes and the writer's refresh probes.  A
\* request need never be answered, and nobody needs to start one.
Fairness ==
    /\ \A w \in Threads :
          /\ WF_vars(at[w] = "woken" /\ (Admit(w) \/ GiveUp(w) \/ Park(w)))
          /\ WF_vars(Release(w) \/ Signal(w))
    /\ WF_vars(PokeTurn \/ PokeBroadcast)
    /\ WF_vars(Probe) /\ WF_vars(Tick)

FairSpec == Spec /\ Fairness
-----------------------------------------------------------------------------
TypeOK ==
    /\ limit \in Nat /\ ceiling \in Nat /\ ssthresh \in Nat
    /\ edgeKnown \in BOOLEAN /\ poking \in BOOLEAN /\ cancelled \in BOOLEAN
    /\ cleanSinceCut \in 0 .. GrowStreak - 1
    /\ sinceCut \in 0 .. ProbeInterval /\ sinceGrow \in 0 .. ProbeInterval
    /\ inflight \in Nat /\ waiters \in Nat
    /\ poker \in {"none", "asleep", "broadcasting"}
    /\ at \in [Threads -> Places]

\* Whatever mix of answers and ceilings arrives, the cap stays between the floor
\* and what -t asked for, does not stay above a lowered ceiling except at the floor,
\* and the remembered edge lies in the same range (tuning.go, onThrottle, setCeiling).
CapInRange ==
    /\ MinLimit <= limit /\ limit <= MaxLimit
    /\ ceiling > 0 => limit <= Most(MinLimit, ceiling)
    /\ MinLimit <= ssthresh /\ ssthresh <= MaxLimit

\* The slots handed out are the checks that hold one, and never more than -t
\* rounded up, although woken waiters, newcomers and a moving cap race for the
\* slot a release frees (tuning.go, acquire and release).
InflightExact ==
    /\ inflight = Cardinality(Holding)
    /\ inflight * Slot < MaxLimit + Slot

\* As long as anybody waits, the poke goroutine is alive, and it is the only one
\* that was started (tuning.go, acquire and poke).
WaitersCovered ==
    /\ waiters = Cardinality(Waiting)
    /\ poking <=> poker # "none"
    /\ waiters > 0 => poking


\* After a cancellation nobody stays parked, though the requests on the wire may
\* never be answered (tuning.go, poke).
CancelFreesWaiters == cancelled ~> Waiting = {}

\* Nobody stays parked beside a free slot for ever, whichever signals were spent on
\* a waiter that could not use them (tuning.go, release and poke).
FreeSlotIsTaken ==
    []<>(~SlotFree \/ \A w \in Threads : at[w] # "parked")

\* When the throttling ends, the cap climbs back to all the headroom there is, with
\* or without definite answers (tuning.go, probe).
CapRecovers ==
    <>[](sinceCut = ProbeInterval) => []<>(limit >= Headroom)
=============================================================================
