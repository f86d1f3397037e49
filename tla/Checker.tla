------------------------------ MODULE Checker ------------------------------
(***************************************************************************)
(* One name's check (main.go, checkWithRetries): ask through a route, ask  *)
(* elsewhere what was inconclusive or dropped, within two budgets, and     *)
(* confirm a free name through a second route.  The endpoint and the       *)
(* proxies may answer anything.  Of the pool only this matters here: it    *)
(* hands out one of its proxies, which need not respect the one to avoid   *)
(* (ProxyPool.tla), or a direct connection when it has none.               *)
(***************************************************************************)
EXTENDS Naturals, FiniteSets

CONSTANTS
    Routes,             \* proxies, and the direct connection
    Pools,              \* the sets of routes a run may have
    Attempts,           \* max(2, -retries)
    TransportRetries    \* transportRetries

ASSUME CheckerAssumption ==
    /\ Pools \subseteq (SUBSET Routes) \ {{}}
    /\ Attempts \in Nat /\ Attempts >= 2
    /\ TransportRetries \in Nat

VARIABLES
    pool,       \* the routes there are
    noConfirm,  \* cfg.noConfirm
    cancelled,  \* the context is done
    at,         \* the position in checkWithRetries
    try,        \* try
    answers,    \* answers
    avoid,      \* the route of the last attempt of the loop
    spec,       \* the route of the attempt under way or just made
    said,       \* history: what each route answered about this name
    outcome     \* the result, "unconfirmed" being an available one so marked

localVars == <<at, try, answers, avoid, spec, said, outcome>>
vars == <<pool, noConfirm, cancelled, localVars>>

\* "ready": at the loop test.  "asking": attemptOnce is out.  "free": it answered
\* available.  "confirming": the second attemptOnce is out.  "decided": returned.
Places == {"ready", "asking", "free", "confirming", "decided"}

\* What the readers of the result see of a check.
Promised == INSTANCE Verdict WITH Routes <- Routes,
    noConfirm <- noConfirm, said <- said, outcome <- outcome

\* The loop's variables; avoid and spec are written before they are read.
Start ==
    /\ at = "ready" /\ try = 0 /\ answers = 0
    /\ avoid \in pool /\ spec = avoid
    /\ said = {} /\ outcome = "pending"

Init ==
    /\ pool \in Pools
    /\ noConfirm \in BOOLEAN /\ cancelled = FALSE
    /\ Start

\* The check of the next name.
Restart ==
    /\ at' = "ready" /\ try' = 0 /\ answers' = 0
    /\ said' = {} /\ outcome' = "pending"
    /\ UNCHANGED <<avoid, spec>>

Given == <<pool, noConfirm, cancelled>>

Hears(answer) == said' = said \cup {<<spec, answer>>}
Returns(result) == at' = "decided" /\ outcome' = result
GoesOn(place) == at' = place /\ UNCHANGED outcome
-----------------------------------------------------------------------------
\* Mutant of LoopsOn: dropped connections use up the answers.
LoopsOnOneBudget ==
    /\ try < Attempts /\ answers < Attempts
    /\ ~cancelled
\* The loop's condition.
LoopsOn ==
    /\ try < Attempts + TransportRetries /\ answers < Attempts
    /\ ~cancelled

\* The next attempt.
Ask ==
    /\ at = "ready" /\ LoopsOn
    /\ spec' \in pool /\ avoid' = spec'
    /\ GoesOn("asking")
    /\ UNCHANGED <<Given, try, answers, said>>

\* A budget is spent or the run cancelled: unknown if anything answered.
Exhausted ==
    /\ at = "ready" /\ ~LoopsOn
    /\ Returns(IF answers > 0 THEN "unknown" ELSE "error")
    /\ UNCHANGED <<Given, try, answers, avoid, spec, said>>

\* Mutant of AskDropped: a dropped connection is not counted as a try.
AskDroppedUncounted ==
    /\ at = "asking"
    /\ GoesOn("ready")
    /\ UNCHANGED <<Given, try, answers, avoid, spec, said>>
\* A connection that never completed uses up a try, not an answer.
AskDropped ==
    /\ at = "asking"
    /\ GoesOn("ready") /\ try' = try + 1
    /\ UNCHANGED <<Given, answers, avoid, spec, said>>

AskUnknown ==
    /\ at = "asking" /\ Hears("unknown")
    /\ GoesOn("ready") /\ try' = try + 1 /\ answers' = answers + 1
    /\ UNCHANGED <<Given, avoid, spec>>

AskTaken ==
    /\ at = "asking" /\ Hears("taken")
    /\ Returns("taken") /\ answers' = answers + 1
    /\ UNCHANGED <<Given, try, avoid, spec>>

AskAvailable ==
    /\ at = "asking" /\ Hears("available")
    /\ IF noConfirm THEN Returns("available") ELSE GoesOn("free")
    /\ answers' = answers + 1
    /\ UNCHANGED <<Given, try, avoid, spec>>

\* The second opinion, on a route other than the first if the pool obliges.
Confirm ==
    /\ at = "free"
    /\ spec' \in pool
    /\ GoesOn("confirming")
    /\ UNCHANGED <<Given, try, answers, avoid, said>>

\* Mutant of SameRoute: it is not noticed.
SameRouteUnseen == FALSE
\* sameProxy or noProxies: there was no second vantage point.
SameRoute == spec = avoid

ConfirmAgrees ==
    /\ at = "confirming" /\ Hears("available")
    /\ Returns(IF SameRoute THEN "unconfirmed" ELSE "available")
    /\ UNCHANGED <<Given, try, answers, avoid, spec>>

\* "Trust the negative."
ConfirmDenies ==
    /\ at = "confirming" /\ Hears("taken")
    /\ Returns("taken")
    /\ UNCHANGED <<Given, try, answers, avoid, spec>>

\* Could not confirm: the first answer counts as unknown and the loop goes on.
ConfirmUnknown ==
    /\ at = "confirming" /\ Hears("unknown")
    /\ GoesOn("ready") /\ try' = try + 1
    /\ UNCHANGED <<Given, answers, avoid, spec>>
ConfirmDropped ==
    /\ at = "confirming"
    /\ GoesOn("ready") /\ try' = try + 1
    /\ UNCHANGED <<Given, answers, avoid, spec, said>>

Again == at = "decided" /\ ~cancelled /\ Restart /\ UNCHANGED Given

Cancel == ~cancelled /\ cancelled' = TRUE /\ UNCHANGED <<pool, noConfirm, localVars>>

\* An attempt is answered or dropped.
Asked == AskDropped \/ AskUnknown \/ AskTaken \/ AskAvailable
Confirmed == ConfirmAgrees \/ ConfirmDenies \/ ConfirmUnknown \/ ConfirmDropped
Moves == Ask \/ Exhausted \/ Asked \/ Confirm \/ Confirmed

Next == Moves \/ Again \/ Cancel

Spec == Init /\ [][Next]_vars

\* The worker keeps going, and the deadline of a request ends it (-timeout).
FairSpec == Spec /\ WF_vars(Moves)
-----------------------------------------------------------------------------
TypeOK ==
    /\ pool \in Pools
    /\ noConfirm \in BOOLEAN /\ cancelled \in BOOLEAN
    /\ at \in Places
    /\ try \in 0 .. Attempts + TransportRetries /\ answers \in 0 .. Attempts
    /\ avoid \in pool /\ spec \in pool
    /\ said \subseteq pool \X Promised!Answers
    /\ outcome \in Promised!Outcomes \cup {"pending"}

\* A check keeps its promise: a name is available only on the word of two routes,
\* or marked; one taken decides; unknown and error never hide a definite no
\* (main.go, checkWithRetries).
KeepsPromise == Promised!Spec

\* A rough patch on the pool does not cost the name its answers: an undecided check
\* that dropped no more connections than allowed has had every answer it may have
\* (main.go, checkWithRetries: the two budgets).
FullHearing ==
    outcome \in {"unknown", "error"} /\ ~cancelled /\ try <= answers + TransportRetries
        => answers = Attempts

\* Every check returns, whatever mix of answers and dropped connections it meets
\* (main.go, checkWithRetries).
CheckEnds == at # "decided" ~> at = "decided"
=============================================================================
