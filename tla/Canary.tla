------------------------------- MODULE Canary -------------------------------
(***************************************************************************)
(* The contract guard (canary.go): names that surely exist and names that  *)
(* surely do not are checked like any other, before the run and again and  *)
(* again during it, and an existing name that comes back available stops   *)
(* everything.  One canary at a time goes through Checker's check, here    *)
(* over an endpoint whose meaning may drift and routes of which at most    *)
(* one answers wrongly on its own account.  With -no-self-test there is no *)
(* guard, and the names checked are the run's own, over routes that may    *)
(* answer anything.                                                        *)
(***************************************************************************)
EXTENDS Checker

CONSTANTS
    TakenCanaries,  \* len(takenCanaries)
    FreeCanaries    \* len(freeCanaryLens)

ASSUME CanaryAssumption ==
    TakenCanaries \in Nat \ {0} /\ FreeCanaries \in Nat \ {0}

VARIABLES
    run,        \* "starting", "running", "refused" or "halted"
    guard,      \* "asking", "between" two canaries, "waiting" for the ticker, "gone",
                \* or "off": -no-self-test
    asked,      \* the canaries of this verify whose result is counted
    takenSeen, takenWrong, freeSeen, freeWrong,     \* verify's counters
    endpoint,   \* "sound", or drifted: "open" calls every name free, "shut" taken
    lying,      \* the routes that may say anything
    alone,      \* history: an existing name came back available unconfirmed
    openFrom    \* history: the endpoint was open when this verify began

counters == <<asked, takenSeen, takenWrong, freeSeen, freeWrong>>
worldVars == <<endpoint, lying>>
guardVars == <<run, guard, counters, worldVars, alone, openFrom>>
allVars == <<vars, guardVars>>

\* Mutant of ProbeNoConfirm: the canary inherits the run's setting.
ProbeAsRun(configured) == configured
\* ask: confirmation is on for the canary whatever the run says.
ProbeNoConfirm(configured) == FALSE

GuardInit ==
    /\ pool \in Pools /\ Start /\ cancelled = FALSE
    /\ \E configured \in BOOLEAN :
          \/ noConfirm = ProbeNoConfirm(configured) /\ run = "starting" /\ guard = "asking"
          \/ noConfirm = configured /\ run = "running" /\ guard = "off"
    /\ asked = 0
    /\ takenSeen = 0 /\ takenWrong = 0 /\ freeSeen = 0 /\ freeWrong = 0
    /\ endpoint = "sound"
    /\ lying \in SUBSET pool /\ \A r, s \in lying : r = s
    /\ guard = "off" => lying = {}
    /\ alone = FALSE /\ openFrom = FALSE
-----------------------------------------------------------------------------
\* The run's own names, one after the other.
RunChecks == guard = "off" /\ (Moves \/ Again) /\ UNCHANGED guardVars

AsksTaken == asked < TakenCanaries

\* What a route may answer about the canary under way, besides nothing definite.
Truth ==
    CASE endpoint = "sound" -> IF AsksTaken THEN "taken" ELSE "available"
      [] endpoint = "open"  -> "available"
      [] endpoint = "shut"  -> "taken"
MaySay(answer) == spec \in lying \/ answer = Truth

\* The check of the canary under way.
GuardChecks ==
    /\ guard = "asking"
    /\ \/ Ask \/ Exhausted \/ Confirm
       \/ AskDropped \/ AskUnknown \/ ConfirmDropped \/ ConfirmUnknown
       \/ MaySay("taken") /\ (AskTaken \/ ConfirmDenies)
       \/ MaySay("available") /\ (AskAvailable \/ ConfirmAgrees)
    /\ UNCHANGED guardVars

\* verify counts the definite results; it does not look at the unconfirmed mark.
ReadAvailable == outcome \in {"available", "unconfirmed"}
Count(counter, yes) == counter' = IF yes THEN counter + 1 ELSE counter
GuardCounts ==
    /\ guard = "asking" /\ at = "decided"
    /\ Count(takenSeen, AsksTaken /\ outcome = "taken")
    /\ Count(takenWrong, AsksTaken /\ ReadAvailable)
    /\ Count(freeSeen, ~AsksTaken /\ ReadAvailable)
    /\ Count(freeWrong, ~AsksTaken /\ outcome = "taken")
    /\ asked' = asked + 1
    /\ guard' = "between"
    /\ alone' = (alone \/ (AsksTaken /\ outcome = "unconfirmed"))
    /\ UNCHANGED <<vars, run, worldVars, openFrom>>

\* verify's verdicts.  With every existing name asked about, one that came back
\* available is fatal; the rest is asked unless the context is done.
Condemns == ~AsksTaken /\ takenWrong > 0
AllAsked == asked = TakenCanaries + FreeCanaries
Concluded == Condemns \/ AllAsked \/ cancelled
\* Mutant of Proven: names that exist need not be seen taken.
ProvenByAny == freeSeen > 0 \/ freeWrong = 0
Proven == (freeSeen > 0 \/ freeWrong = 0) /\ takenSeen > 0
Passes == ~Condemns /\ (AllAsked => Proven)

GuardAsks ==
    /\ guard = "between" /\ ~Concluded
    /\ guard' = "asking" /\ Restart
    /\ UNCHANGED <<Given, run, counters, worldVars, alone, openFrom>>

\* main: a fatal verdict refuses to run, any other lets the run begin.
StartupConcludes ==
    /\ run = "starting" /\ guard = "between" /\ Concluded
    /\ IF Condemns THEN run' = "refused" /\ guard' = "gone"
                   ELSE run' = "running" /\ guard' = "waiting"
    /\ UNCHANGED <<vars, counters, worldVars, alone, openFrom>>

\* Mutant of WatchCondemns: it logs and carries on.
WatchCarriesOn ==
    /\ run = "running" /\ guard = "between" /\ Condemns /\ ~cancelled
    /\ guard' = "waiting"
    /\ UNCHANGED <<vars, run, counters, worldVars, alone, openFrom>>
\* watch: a fatal verdict closes the worklist and cancels the run, once.
WatchCondemns ==
    /\ run = "running" /\ guard = "between" /\ Condemns /\ ~cancelled
    /\ run' = "halted" /\ cancelled' = TRUE /\ guard' = "gone"
    /\ UNCHANGED <<pool, noConfirm, localVars, counters, worldVars, alone, openFrom>>

\* watch: anything else is at most logged; so is a fatal verdict on a run that is
\* over.
WatchGoesOn ==
    /\ run = "running" /\ guard = "between" /\ Concluded /\ ~(Condemns /\ ~cancelled)
    /\ guard' = "waiting"
    /\ UNCHANGED <<vars, run, counters, worldVars, alone, openFrom>>

\* watch's ticker: the next verify begins.
WatchTick ==
    /\ run = "running" /\ guard = "waiting"
    /\ guard' = "between"
    /\ asked' = 0
    /\ takenSeen' = 0 /\ takenWrong' = 0 /\ freeSeen' = 0 /\ freeWrong' = 0
    /\ alone' = FALSE /\ openFrom' = (endpoint = "open")
    /\ UNCHANGED <<vars, run, worldVars>>

WatchReturns ==
    /\ guard = "waiting" /\ cancelled
    /\ guard' = "gone"
    /\ UNCHANGED <<vars, run, counters, worldVars, alone, openFrom>>

\* Ctrl-C, or the pipeline is through and main cancels what belongs to it.
Stop == Cancel /\ UNCHANGED guardVars

\* Meta changes what the endpoint's answers mean.
Drift ==
    /\ guard # "off"
    /\ endpoint = "sound" /\ endpoint' \in {"open", "shut"}
    /\ UNCHANGED <<vars, run, guard, counters, lying, alone, openFrom>>

GuardMoves ==
    \/ RunChecks \/ GuardChecks \/ GuardCounts \/ GuardAsks
    \/ StartupConcludes \/ WatchCondemns \/ WatchGoesOn
    \/ WatchTick \/ WatchReturns

GuardNext == GuardMoves \/ Stop \/ Drift

GuardSpec == GuardInit /\ [][GuardNext]_allVars

\* The goroutine that checks keeps going: attempts end and the ticker fires.
GuardFairSpec == GuardSpec /\ WF_allVars(GuardMoves)
-----------------------------------------------------------------------------
GuardTypeOK ==
    /\ TypeOK
    /\ run \in {"starting", "running", "refused", "halted"}
    /\ guard \in {"asking", "between", "waiting", "gone", "off"}
    /\ asked \in 0 .. TakenCanaries + FreeCanaries
    /\ takenSeen \in Nat /\ takenWrong \in Nat /\ takenSeen + takenWrong <= TakenCanaries
    /\ freeSeen \in Nat /\ freeWrong \in Nat /\ freeSeen + freeWrong <= FreeCanaries
    /\ endpoint \in {"sound", "open", "shut"}
    /\ lying \subseteq pool
    /\ alone \in BOOLEAN /\ openFrom \in BOOLEAN

\* One lying route cannot have the run refused or halted over an endpoint that is
\* not open, whatever -no-confirm says, unless it was the only route the check got
\* (canary.go, ask and verify; main.go, checkWithRetries).
SoundNotCondemned == run \in {"refused", "halted"} => endpoint = "open" \/ alone

\* An endpoint that calls everything available never passes a verify that began
\* after it drifted, however many of the answers are inconclusive, when no route
\* lies for it (canary.go, verify).
OpenNeverPasses ==
    guard = "between" /\ Concluded /\ ~cancelled /\ openFrom /\ lying = {} => ~Passes

\* An existing name read as available is acted on: the run is refused, or halted,
\* unless it is over anyway (canary.go, verify and watch; main.go).
CaughtIsStopped == takenWrong > 0 ~> run \in {"refused", "halted"} \/ cancelled
=============================================================================
