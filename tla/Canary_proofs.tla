--------------------------- MODULE Canary_proofs ---------------------------
(***************************************************************************)
(* Proofs about Checker and Canary, for every pool, budget, mix of answers *)
(* and number of canaries: the check implements Verdict, and a rough patch *)
(* costs it no answers; a canary is checked like any other name, and one   *)
(* lying route cannot condemn an endpoint that is sound.                   *)
(***************************************************************************)
EXTENDS Canary, TLAPS

\* The types the proofs rest on, and the two budgets: a check that asks has an
\* answer left, one that gave up has spent a budget.
Budgets ==
    /\ try \in Nat /\ answers \in Nat /\ answers <= Attempts
    /\ at = "asking" => answers < Attempts
    /\ outcome \in {"unknown", "error"} /\ ~cancelled
           => try >= Attempts + TransportRetries \/ answers = Attempts

\* What has been heard so far: an undecided check heard no taken, and one that waits
\* for a second opinion has the first.
Hearing ==
    /\ pool \subseteq Routes /\ spec \in pool /\ avoid \in pool
    /\ noConfirm \in BOOLEAN /\ cancelled \in BOOLEAN
    /\ at \in Places
    /\ at # "decided" <=> outcome = "pending"
    /\ at # "decided" => ~Promised!SaidTaken(said) /\ (answers > 0 <=> said # {})
    /\ at \in {"asking", "free"} => spec = avoid
    /\ at \in {"free", "confirming"} => <<avoid, "available">> \in said /\ ~noConfirm

CheckerInv == Hearing /\ Budgets

LEMMA CheckerInit == Init => CheckerInv
<1> SUFFICES ASSUME Init PROVE CheckerInv
  OBVIOUS
<1>1. pool \subseteq Routes
  BY CheckerAssumption DEF Init
<1>2. ~Promised!SaidTaken(said)
  BY DEF Init, Start, Promised!SaidTaken, Promised!Says
<1>3. answers = 0 /\ said = {} /\ spec = avoid /\ at = "ready" /\ outcome = "pending"
  BY DEF Init, Start
<1>4. pool \subseteq Routes /\ spec \in pool /\ avoid \in pool
  BY <1>1 DEF Init, Start
<1>5. noConfirm \in BOOLEAN /\ cancelled \in BOOLEAN
  BY DEF Init
<1>6. Hearing
  BY <1>2, <1>3, <1>4, <1>5 DEF Hearing, Places
<1>7. Budgets
  BY CheckerAssumption DEF Init, Start, Budgets
<1> QED BY <1>6, <1>7 DEF CheckerInv

LEMMA CheckerNext == CheckerInv /\ [Next]_vars => CheckerInv'
<1> SUFFICES ASSUME CheckerInv, [Next]_vars PROVE CheckerInv'
  OBVIOUS
<1> USE CheckerAssumption DEF CheckerInv, Hearing, Budgets, Places, Given, GoesOn, Returns,
        Promised!SaidTaken, Promised!Says
<1>1. CASE Ask
  BY <1>1 DEF Ask, LoopsOn
<1>2. CASE Exhausted
  BY <1>2 DEF Exhausted, LoopsOn
<1>3. CASE AskDropped
  BY <1>3 DEF AskDropped
<1>4. CASE AskUnknown
  <2>1. ~Promised!SaidTaken(said') /\ said' # {}
    BY <1>4 DEF AskUnknown, Hears
  <2>2. Hearing'
    BY <1>4, <2>1 DEF AskUnknown
  <2>3. Budgets'
    BY <1>4 DEF AskUnknown
  <2> QED BY <2>2, <2>3
<1>5. CASE AskTaken
  BY <1>5 DEF AskTaken, Hears
<1>6. CASE AskAvailable
  <2>1. ~Promised!SaidTaken(said') /\ said' # {} /\ <<avoid, "available">> \in said'
    BY <1>6 DEF AskAvailable, Hears
  <2>2. Hearing'
    BY <1>6, <2>1 DEF AskAvailable
  <2>3. Budgets'
    BY <1>6 DEF AskAvailable
  <2> QED BY <2>2, <2>3
<1>7. CASE Confirm
  BY <1>7 DEF Confirm
<1>8. CASE ConfirmAgrees
  BY <1>8 DEF ConfirmAgrees, Hears, SameRoute
<1>9. CASE ConfirmDenies
  BY <1>9 DEF ConfirmDenies, Hears
<1>10. CASE ConfirmUnknown
  BY <1>10 DEF ConfirmUnknown, Hears
<1>11. CASE ConfirmDropped
  BY <1>11 DEF ConfirmDropped
<1>12. CASE Again
  BY <1>12 DEF Again, Restart
<1>13. CASE Cancel
  BY <1>13 DEF Cancel, localVars
<1>14. CASE UNCHANGED vars
  BY <1>14 DEF vars, localVars
<1> QED
  BY <1>1, <1>2, <1>3, <1>4, <1>5, <1>6, <1>7, <1>8, <1>9, <1>10, <1>11, <1>12, <1>13, <1>14
  DEF Next, Moves, Asked, Confirmed

\* Every step of a check is a step Verdict allows, or none of its business.
LEMMA StepKeepsPromise ==
  ASSUME CheckerInv, [Next]_vars
  PROVE  [Promised!Next]_Promised!vars
<1> USE DEF CheckerInv, Hearing, Given, GoesOn, Returns, Promised!SaidTaken, Promised!Says,
        Promised!Justified, Promised!Answers
<1>1. CASE Ask \/ AskDropped \/ Confirm \/ ConfirmDropped \/ Cancel \/ UNCHANGED vars
  <2>1. UNCHANGED <<noConfirm, said, outcome>>
    BY <1>1 DEF Ask, AskDropped, Confirm, ConfirmDropped, Cancel, vars, localVars
  <2> QED BY <2>1 DEF Promised!vars
<1>2. CASE Exhausted
  <2>1. Promised!GiveUp /\ UNCHANGED noConfirm
    BY <1>2 DEF Exhausted, Promised!GiveUp, Budgets
  <2> QED BY <2>1 DEF Promised!Next
<1>3. CASE AskUnknown \/ AskTaken \/ AskAvailable \/ ConfirmAgrees \/ ConfirmDenies
           \/ ConfirmUnknown
  <2>1. outcome = "pending" /\ spec \in Routes /\ UNCHANGED noConfirm
    BY <1>3 DEF AskUnknown, AskTaken, AskAvailable, ConfirmAgrees, ConfirmDenies,
                ConfirmUnknown
  <2>2. \E answer \in Promised!Answers : said' = said \cup {<<spec, answer>>}
    BY <1>3 DEF AskUnknown, AskTaken, AskAvailable, ConfirmAgrees, ConfirmDenies,
                ConfirmUnknown, Hears
  <2>3. outcome' = "pending" \/ Promised!Justified(outcome', said')
    <3>1. CASE AskUnknown \/ ConfirmUnknown
      BY <3>1 DEF AskUnknown, ConfirmUnknown
    <3>2. CASE AskTaken \/ ConfirmDenies
      BY <2>1, <3>2 DEF AskTaken, ConfirmDenies, Hears
    <3>3. CASE AskAvailable
      BY <2>1, <3>3 DEF AskAvailable, Hears, Promised!Corroborated
    <3>4. CASE ConfirmAgrees
      BY <2>1, <3>4 DEF ConfirmAgrees, Hears, SameRoute, Promised!Corroborated
    <3> QED BY <1>3, <3>1, <3>2, <3>3, <3>4
  <2>4. Promised!Hear
    BY <2>1, <2>2, <2>3 DEF Promised!Hear
  <2> QED BY <2>1, <2>4 DEF Promised!Next
<1>4. CASE Again
  <2>1. Promised!NextName /\ UNCHANGED noConfirm
    BY <1>4 DEF Again, Restart, Promised!NextName
  <2> QED BY <2>1 DEF Promised!Next
<1> QED BY <1>1, <1>2, <1>3, <1>4 DEF Next, Moves, Asked, Confirmed

\* A check implements Verdict: what it returns is justified by what it heard
\* (main.go, checkWithRetries).
THEOREM KeepsPromiseHolds == Spec => KeepsPromise
<1>1. Init => Promised!Init
  BY DEF Init, Start, Promised!Init
<1> QED BY CheckerInit, CheckerNext, StepKeepsPromise, <1>1, PTL
        DEF Spec, KeepsPromise, Promised!Spec

\* Dropped connections within their allowance cost the name none of its answers
\* (main.go, checkWithRetries: the two budgets).
THEOREM FullHearingHolds == Spec => []FullHearing
<1>1. CheckerInv => FullHearing
  BY CheckerAssumption DEF CheckerInv, Budgets, FullHearing
<1> QED BY CheckerInit, CheckerNext, <1>1, PTL DEF Spec
-----------------------------------------------------------------------------
\* Confirmation is on, one route lies at most, and a canary whose result is counted
\* is decided.
World ==
    /\ guard # "off" => noConfirm = FALSE
    /\ \A r, s \in lying : r = s
    /\ endpoint \in {"sound", "open", "shut"}
    /\ guard \notin {"asking", "off"} => at = "decided"

\* Until the endpoint is open, whoever calls an existing name free lies; an available
\* result has two such witnesses, and so has none.
Witnesses ==
    /\ guard = "asking" /\ AsksTaken /\ endpoint # "open"
           => \A r \in Routes : <<r, "available">> \in said => r \in lying
    /\ guard # "off" /\ outcome = "available"
           => \E r, s \in Routes : r # s /\ <<r, "available">> \in said
                                         /\ <<s, "available">> \in said

\* What a verify holds against the endpoint.
Evidence ==
    /\ takenWrong \in Nat
    /\ takenWrong > 0 => endpoint = "open" \/ alone

GuardInv == CheckerInv /\ World /\ Witnesses /\ Evidence /\ SoundNotCondemned

LEMMA GuardStart == GuardInit => GuardInv /\ Init
<1> SUFFICES ASSUME GuardInit PROVE GuardInv /\ Init
  OBVIOUS
<1>1. noConfirm \in BOOLEAN /\ (guard # "off" => noConfirm = FALSE)
  BY DEF GuardInit, ProbeNoConfirm
<1>2. Init
  BY <1>1 DEF GuardInit, Init
<1>3. CheckerInv
  BY <1>2, CheckerInit
<1>4. World
  BY <1>1 DEF GuardInit, World
<1>5. Witnesses
  BY DEF GuardInit, Start, Witnesses
<1>6. Evidence /\ SoundNotCondemned
  BY DEF GuardInit, Evidence, SoundNotCondemned
<1> QED BY <1>2, <1>3, <1>4, <1>5, <1>6 DEF GuardInv

\* Whatever the guard does, a check only makes the steps Checker allows.
LEMMA GuardStepIsChecked ==
  ASSUME World, [GuardNext]_allVars
  PROVE  [Next]_vars
<1>1. CASE GuardChecks
  BY <1>1 DEF GuardChecks, Next, Moves, Asked, Confirmed
<1>2. CASE GuardAsks
  <2>1. at = "decided" /\ ~cancelled
    BY <1>2 DEF GuardAsks, Concluded, World
  <2> QED BY <1>2, <2>1 DEF GuardAsks, Next, Again
<1>3. CASE WatchCondemns
  BY <1>3 DEF WatchCondemns, Next, Cancel
<1>4. CASE Stop
  BY <1>4 DEF Stop, Next
<1>5. CASE GuardCounts \/ StartupConcludes \/ WatchGoesOn \/ WatchTick \/ WatchReturns
           \/ Drift \/ UNCHANGED allVars
  BY <1>5 DEF GuardCounts, StartupConcludes, WatchGoesOn, WatchTick, WatchReturns, Drift,
              allVars
<1>6. CASE RunChecks
  BY <1>6 DEF RunChecks, Next
<1> QED BY <1>1, <1>2, <1>3, <1>4, <1>5, <1>6 DEF GuardNext, GuardMoves

LEMMA WorldNext == World /\ [GuardNext]_allVars => World'
<1> SUFFICES ASSUME World, [GuardNext]_allVars PROVE World'
  OBVIOUS
<1> USE DEF World, Given
<1>1. CASE GuardChecks
  <2>1. UNCHANGED <<noConfirm, lying, endpoint, guard>> /\ guard = "asking"
    BY <1>1 DEF GuardChecks, guardVars, worldVars, Ask, Exhausted, Confirm, AskDropped,
                AskUnknown, ConfirmDropped, ConfirmUnknown, AskTaken, ConfirmDenies,
                AskAvailable, ConfirmAgrees
  <2> QED BY <2>1
<1>2. CASE GuardCounts
  BY <1>2 DEF GuardCounts, vars, localVars, worldVars
<1>3. CASE GuardAsks
  BY <1>3 DEF GuardAsks, worldVars
<1>4. CASE StartupConcludes \/ WatchCondemns \/ WatchGoesOn
  BY <1>4 DEF StartupConcludes, WatchCondemns, WatchGoesOn, vars, localVars, worldVars
<1>5. CASE WatchTick \/ WatchReturns
  BY <1>5 DEF WatchTick, WatchReturns, vars, localVars, worldVars
<1>6. CASE Stop \/ Drift \/ UNCHANGED allVars
  BY <1>6 DEF Stop, Cancel, Drift, allVars, vars, localVars, guardVars, worldVars
<1>7. CASE RunChecks
  BY <1>7 DEF RunChecks, guardVars, worldVars
<1> QED BY <1>1, <1>2, <1>3, <1>4, <1>5, <1>6, <1>7 DEF GuardNext, GuardMoves

\* Only an answer, and only an available one that a liar or an open endpoint gives,
\* adds a witness.
LEMMA WitnessesNext ==
  ASSUME CheckerInv, World, Witnesses, [GuardNext]_allVars
  PROVE  Witnesses'
<1> USE DEF Witnesses
<1>1. CASE GuardChecks
  <2>1. UNCHANGED <<guard, asked, endpoint, lying, AsksTaken>> /\ guard = "asking"
    BY <1>1 DEF GuardChecks, guardVars, counters, worldVars, AsksTaken
  <2>2. CASE MaySay("available") /\ (AskAvailable \/ ConfirmAgrees)
    <3>1. said' = said \cup {<<spec, "available">>}
      BY <2>2 DEF AskAvailable, ConfirmAgrees, Hears
    <3>2. AsksTaken /\ endpoint # "open" => spec \in lying
      BY <2>2 DEF MaySay, Truth, World
    <3>3. outcome' = "available"
             => \E r, s \in Routes : r # s /\ <<r, "available">> \in said'
                                           /\ <<s, "available">> \in said'
      <4>1. CASE AskAvailable
        BY <2>1, <4>1 DEF AskAvailable, GoesOn, World, CheckerInv, Hearing
      <4>2. CASE ConfirmAgrees
        BY <4>2, <3>1 DEF ConfirmAgrees, Returns, SameRoute, CheckerInv, Hearing
      <4> QED BY <2>2, <4>1, <4>2
    <3> QED BY <2>1, <3>1, <3>2, <3>3
  <2>3. CASE Ask \/ Exhausted \/ Confirm \/ AskDropped \/ ConfirmDropped
    BY <2>1, <2>3 DEF Ask, Exhausted, Confirm, AskDropped, ConfirmDropped, GoesOn, Returns
  <2>4. CASE AskUnknown \/ ConfirmUnknown \/ AskTaken \/ ConfirmDenies
    <3>1. \A r : <<r, "available">> \in said' <=> <<r, "available">> \in said
      <4>1. said' = said \cup {<<spec, "unknown">>} \/ said' = said \cup {<<spec, "taken">>}
        BY <2>4 DEF AskUnknown, ConfirmUnknown, AskTaken, ConfirmDenies, Hears
      <4>2. \A r : <<r, "available">> # <<spec, "unknown">>
                     /\ <<r, "available">> # <<spec, "taken">>
        OBVIOUS
      <4> SUFFICES ASSUME NEW r
                   PROVE  <<r, "available">> \in said' <=> <<r, "available">> \in said
        OBVIOUS
      <4> HIDE DEF Witnesses
      <4> QED BY <4>1, <4>2
    <3>2. outcome' = outcome \/ outcome' = "taken"
      BY <2>4 DEF AskUnknown, ConfirmUnknown, AskTaken, ConfirmDenies, GoesOn, Returns
    <3> QED BY <2>1, <3>1, <3>2
  <2> QED BY <1>1, <2>2, <2>3, <2>4 DEF GuardChecks
<1>2. CASE GuardCounts
  BY <1>2 DEF GuardCounts, vars, localVars
<1>3. CASE GuardAsks
  BY <1>3 DEF GuardAsks, Restart
<1>4. CASE StartupConcludes \/ WatchCondemns \/ WatchGoesOn
  BY <1>4 DEF StartupConcludes, WatchCondemns, WatchGoesOn, vars, localVars
<1>5. CASE WatchTick \/ WatchReturns
  BY <1>5 DEF WatchTick, WatchReturns, vars, localVars
<1>6. CASE Stop \/ UNCHANGED allVars
  BY <1>6 DEF Stop, Cancel, allVars, vars, localVars, guardVars, counters, worldVars, AsksTaken
<1>7. CASE Drift
  BY <1>7 DEF Drift, vars, localVars, counters, AsksTaken
<1>8. CASE RunChecks
  BY <1>8 DEF RunChecks, guardVars
<1> QED BY <1>1, <1>2, <1>3, <1>4, <1>5, <1>6, <1>7, <1>8 DEF GuardNext, GuardMoves

LEMMA EvidenceNext ==
  ASSUME World, Witnesses, Evidence, [GuardNext]_allVars
  PROVE  Evidence'
<1> USE DEF Evidence
<1>1. CASE GuardCounts
  <2>1. Count(takenWrong, AsksTaken /\ ReadAvailable) /\ endpoint' = endpoint
          /\ alone' = (alone \/ (AsksTaken /\ outcome = "unconfirmed"))
    BY <1>1 DEF GuardCounts, worldVars
  <2>2. AsksTaken /\ outcome = "available" => endpoint = "open"
    BY <1>1 DEF GuardCounts, Witnesses, World
  <2>3. CASE AsksTaken /\ ReadAvailable
    <3>1. takenWrong' = takenWrong + 1
      BY <2>1, <2>3 DEF Count
    <3>2. endpoint' = "open" \/ alone'
      BY <2>1, <2>2, <2>3 DEF ReadAvailable
    <3> QED BY <3>1, <3>2
  <2>4. CASE ~(AsksTaken /\ ReadAvailable)
    BY <2>1, <2>4 DEF Count
  <2> QED BY <2>3, <2>4
<1>2. CASE WatchTick
  BY <1>2 DEF WatchTick
<1>3. CASE Drift
  BY <1>3 DEF Drift, counters
<1>4. CASE RunChecks \/ GuardChecks \/ GuardAsks \/ StartupConcludes \/ WatchCondemns
           \/ WatchGoesOn \/ WatchReturns \/ Stop \/ UNCHANGED allVars
  BY <1>4 DEF RunChecks, GuardChecks, GuardAsks, StartupConcludes, WatchCondemns, WatchGoesOn,
              WatchReturns, Stop, allVars, guardVars, counters, worldVars
<1> QED BY <1>1, <1>2, <1>3, <1>4 DEF GuardNext, GuardMoves

LEMMA CondemnedNext ==
  ASSUME Evidence, SoundNotCondemned, [GuardNext]_allVars
  PROVE  SoundNotCondemned'
<1> USE DEF SoundNotCondemned
<1>1. CASE StartupConcludes \/ WatchCondemns
  <2>1. UNCHANGED <<endpoint, alone>>
    BY <1>1 DEF StartupConcludes, WatchCondemns, worldVars
  <2>2. run' \in {"refused", "halted"} => takenWrong > 0
    BY <1>1 DEF StartupConcludes, WatchCondemns, Condemns
  <2> QED BY <2>1, <2>2 DEF Evidence
<1>2. CASE GuardCounts
  BY <1>2 DEF GuardCounts, worldVars
<1>3. CASE WatchTick
  BY <1>3 DEF WatchTick
<1>4. CASE Drift
  BY <1>4 DEF Drift
<1>5. CASE RunChecks \/ GuardChecks \/ GuardAsks \/ WatchGoesOn \/ WatchReturns \/ Stop
           \/ UNCHANGED allVars
  BY <1>5 DEF RunChecks, GuardChecks, GuardAsks, WatchGoesOn, WatchReturns, Stop, allVars, guardVars,
              worldVars
<1> QED BY <1>1, <1>2, <1>3, <1>4, <1>5 DEF GuardNext, GuardMoves

LEMMA GuardInvNext == GuardInv /\ [GuardNext]_allVars => GuardInv'
BY CheckerNext, GuardStepIsChecked, WorldNext, WitnessesNext, EvidenceNext, CondemnedNext
DEF GuardInv

\* The guard only runs checks the way workers do: what Checker promises of a name it
\* promises of a canary (canary.go, ask; main.go, checkWithRetries).
THEOREM CanaryIsChecked == GuardSpec => Spec
<1>1. GuardInv /\ [GuardNext]_allVars => [Next]_vars
  BY GuardStepIsChecked DEF GuardInv
<1> QED BY GuardStart, GuardInvNext, <1>1, PTL DEF GuardSpec, Spec

\* One lying route cannot have the run refused or halted over an endpoint that is not
\* open, unless it was the only route (canary.go, ask and verify).
THEOREM SoundNotCondemnedHolds == GuardSpec => []SoundNotCondemned
<1>1. GuardInv => SoundNotCondemned
  BY DEF GuardInv
<1> QED BY GuardStart, GuardInvNext, <1>1, PTL DEF GuardSpec

\* Once the endpoint is open, no existing name is seen taken unless a route lies.
NobodySaysTaken ==
    /\ openFrom \in BOOLEAN /\ (openFrom => endpoint = "open")
    /\ openFrom /\ lying = {} => takenSeen = 0 /\ (guard = "asking" => outcome # "taken")

LEMMA NobodySaysTakenNext ==
  ASSUME NobodySaysTaken, [GuardNext]_allVars
  PROVE  NobodySaysTaken'
<1> USE DEF NobodySaysTaken
<1>1. CASE GuardChecks
  <2>1. UNCHANGED <<endpoint, lying, openFrom, takenSeen, guard>> /\ guard = "asking"
    BY <1>1 DEF GuardChecks, guardVars, counters, worldVars
  <2>2. CASE MaySay("taken") /\ (AskTaken \/ ConfirmDenies)
    BY <2>1, <2>2 DEF MaySay, Truth
  <2>3. CASE Ask \/ Exhausted \/ Confirm \/ AskDropped \/ AskUnknown \/ ConfirmDropped
             \/ ConfirmUnknown \/ AskAvailable \/ ConfirmAgrees
    <3>1. outcome' = outcome \/ outcome' # "taken"
      BY <2>3 DEF Ask, Exhausted, Confirm, AskDropped, AskUnknown, ConfirmDropped,
                  ConfirmUnknown, AskAvailable, ConfirmAgrees, GoesOn, Returns
    <3> QED BY <2>1, <3>1
  <2> QED BY <1>1, <2>2, <2>3 DEF GuardChecks
<1>2. CASE GuardCounts
  BY <1>2 DEF GuardCounts, Count, worldVars
<1>3. CASE GuardAsks
  BY <1>3 DEF GuardAsks, Restart, counters, worldVars
<1>4. CASE StartupConcludes \/ WatchCondemns \/ WatchGoesOn \/ WatchReturns
  BY <1>4 DEF StartupConcludes, WatchCondemns, WatchGoesOn, WatchReturns, counters, worldVars
<1>5. CASE WatchTick
  BY <1>5 DEF WatchTick, worldVars
<1>6. CASE RunChecks
  BY <1>6 DEF RunChecks, guardVars, counters, worldVars
<1>7. CASE Drift
  BY <1>7 DEF Drift, counters, vars, localVars
<1>8. CASE Stop \/ UNCHANGED allVars
  BY <1>8 DEF Stop, Cancel, allVars, vars, localVars, guardVars, counters, worldVars
<1> QED BY <1>1, <1>2, <1>3, <1>4, <1>5, <1>6, <1>7, <1>8 DEF GuardNext, GuardMoves

\* An endpoint that calls everything available passes no verify that began after it
\* drifted, however many answers are inconclusive (canary.go, verify).
THEOREM OpenNeverPassesHolds == GuardSpec => []OpenNeverPasses
<1>1. GuardInit => NobodySaysTaken
  BY DEF GuardInit, NobodySaysTaken
<1>2. NobodySaysTaken => OpenNeverPasses
  BY DEF NobodySaysTaken, OpenNeverPasses, Passes, Proven, Concluded
<1> QED BY <1>1, <1>2, NobodySaysTakenNext, PTL DEF GuardSpec
-----------------------------------------------------------------------------
\* What CheckerInv does not say of the types of a check: the loop's test bounds try.
CheckTypes ==
    /\ pool \in Pools
    /\ try \in 0 .. Attempts + TransportRetries
    /\ at \in {"asking", "free", "confirming"} => try < Attempts + TransportRetries
    /\ said \subseteq pool \X Promised!Answers
    /\ outcome \in Promised!Outcomes \cup {"pending"}

LEMMA CheckTypesNext == CheckerInv /\ CheckTypes /\ [Next]_vars => CheckTypes'
<1> SUFFICES ASSUME CheckerInv, CheckTypes, [Next]_vars PROVE CheckTypes'
  OBVIOUS
<1> USE CheckerAssumption DEF CheckTypes, Given, GoesOn, Returns, Promised!Answers,
        Promised!Outcomes
<1>1. spec \in pool
  BY DEF CheckerInv, Hearing
<1>2. CASE Ask \/ Exhausted \/ AskDropped \/ Confirm \/ ConfirmDropped
  BY <1>2 DEF Ask, Exhausted, AskDropped, Confirm, ConfirmDropped, LoopsOn
<1>3. CASE AskUnknown \/ AskTaken \/ AskAvailable
  BY <1>1, <1>3 DEF AskUnknown, AskTaken, AskAvailable, Hears
<1>4. CASE ConfirmAgrees \/ ConfirmDenies \/ ConfirmUnknown
  BY <1>1, <1>4 DEF ConfirmAgrees, ConfirmDenies, ConfirmUnknown, Hears
<1>5. CASE Again
  BY <1>5 DEF Again, Restart
<1>6. CASE Cancel \/ UNCHANGED vars
  BY <1>6 DEF Cancel, vars, localVars
<1> QED BY <1>2, <1>3, <1>4, <1>5, <1>6 DEF Next, Moves, Asked, Confirmed

\* The counters never run ahead of what was asked.
CountersOK ==
    /\ asked \in 0 .. TakenCanaries + FreeCanaries
    /\ guard = "asking" => asked < TakenCanaries + FreeCanaries
    /\ takenSeen \in Nat /\ takenWrong \in Nat /\ freeSeen \in Nat /\ freeWrong \in Nat
    /\ takenSeen + takenWrong <= asked /\ takenSeen + takenWrong <= TakenCanaries
    /\ freeSeen + freeWrong = 0 \/ freeSeen + freeWrong <= asked - TakenCanaries

LEMMA CountersNext == CountersOK /\ [GuardNext]_allVars => CountersOK'
<1> SUFFICES ASSUME CountersOK, [GuardNext]_allVars PROVE CountersOK'
  OBVIOUS
<1> USE CanaryAssumption DEF CountersOK
<1>1. CASE GuardCounts
  <2>1. asked' = asked + 1 /\ guard' = "between" /\ asked < TakenCanaries + FreeCanaries
    BY <1>1 DEF GuardCounts
  <2>2. CASE AsksTaken
    <3>1. /\ freeSeen' = freeSeen /\ freeWrong' = freeWrong
          /\ \/ takenSeen' = takenSeen /\ takenWrong' = takenWrong
             \/ takenSeen' = takenSeen + 1 /\ takenWrong' = takenWrong
             \/ takenSeen' = takenSeen /\ takenWrong' = takenWrong + 1
      BY <1>1, <2>2 DEF GuardCounts, Count, ReadAvailable
    <3> QED BY <2>1, <2>2, <3>1 DEF AsksTaken
  <2>3. CASE ~AsksTaken
    <3>1. /\ takenSeen' = takenSeen /\ takenWrong' = takenWrong
          /\ \/ freeSeen' = freeSeen /\ freeWrong' = freeWrong
             \/ freeSeen' = freeSeen + 1 /\ freeWrong' = freeWrong
             \/ freeSeen' = freeSeen /\ freeWrong' = freeWrong + 1
      BY <1>1, <2>3 DEF GuardCounts, Count, ReadAvailable
    <3> QED BY <2>1, <2>3, <3>1 DEF AsksTaken
  <2> QED BY <2>2, <2>3
<1>2. CASE WatchTick
  BY <1>2 DEF WatchTick
<1>3. CASE GuardAsks
  BY <1>3 DEF GuardAsks, Concluded, AllAsked, counters
<1>4. CASE StartupConcludes \/ WatchCondemns \/ WatchGoesOn \/ WatchReturns
  BY <1>4 DEF StartupConcludes, WatchCondemns, WatchGoesOn, WatchReturns, counters
<1>5. CASE RunChecks \/ GuardChecks \/ Stop \/ Drift \/ UNCHANGED allVars
  BY <1>5 DEF RunChecks, GuardChecks, Stop, Drift, allVars, guardVars, counters
<1> QED BY <1>1, <1>2, <1>3, <1>4, <1>5 DEF GuardNext, GuardMoves

\* The guard's other variables.
GuardPlaces ==
    /\ run \in {"starting", "running", "refused", "halted"}
    /\ guard \in {"asking", "between", "waiting", "gone", "off"}
    /\ lying \subseteq pool
    /\ alone \in BOOLEAN /\ openFrom \in BOOLEAN

LEMMA GuardPlacesNext == World /\ GuardPlaces /\ [GuardNext]_allVars => GuardPlaces'
<1> SUFFICES ASSUME World, GuardPlaces, [GuardNext]_allVars PROVE GuardPlaces'
  OBVIOUS
<1>1. pool' = pool /\ lying' = lying
  <2>1. pool' = pool
    BY GuardStepIsChecked
    DEF Next, Moves, Asked, Confirmed, Ask, Exhausted, AskDropped, AskUnknown, AskTaken,
        AskAvailable, Confirm, ConfirmAgrees, ConfirmDenies, ConfirmUnknown, ConfirmDropped,
        Again, Cancel, Given, vars
  <2>2. lying' = lying
    BY DEF GuardNext, GuardMoves, RunChecks, GuardChecks, GuardCounts, GuardAsks,
           StartupConcludes, WatchCondemns, WatchGoesOn, WatchTick, WatchReturns, Stop, Drift,
           allVars, guardVars, worldVars
  <2> QED BY <2>1, <2>2
<1>2. /\ run' \in {"starting", "running", "refused", "halted"}
      /\ guard' \in {"asking", "between", "waiting", "gone", "off"}
  BY DEF GuardPlaces, GuardNext, GuardMoves, RunChecks, GuardChecks, GuardCounts, GuardAsks,
         StartupConcludes, WatchCondemns, WatchGoesOn, WatchTick, WatchReturns, Stop, Drift,
         allVars, guardVars
<1>3. alone' \in BOOLEAN /\ openFrom' \in BOOLEAN
  BY DEF GuardPlaces, GuardNext, GuardMoves, RunChecks, GuardChecks, GuardCounts, GuardAsks,
         StartupConcludes, WatchCondemns, WatchGoesOn, WatchTick, WatchReturns, Stop, Drift,
         allVars, guardVars
<1> QED BY <1>1, <1>2, <1>3 DEF GuardPlaces

\* Every variable of the guard and of its check keeps its type; no more canaries are
\* counted than there are (canary.go, verify).
THEOREM GuardTypeCorrect == GuardSpec => []GuardTypeOK
<1> DEFINE Inv == GuardInv /\ CheckTypes /\ CountersOK /\ GuardPlaces
<1>1. GuardInit => Inv
  <2> SUFFICES ASSUME GuardInit PROVE Inv
    OBVIOUS
  <2>1. CheckTypes
    BY CheckerAssumption DEF GuardInit, Start, CheckTypes
  <2>2. CountersOK
    BY CanaryAssumption DEF GuardInit, CountersOK
  <2>3. GuardPlaces
    BY DEF GuardInit, GuardPlaces
  <2> QED BY <2>1, <2>2, <2>3, GuardStart
<1>2. Inv /\ [GuardNext]_allVars => Inv'
  BY GuardInvNext, GuardStepIsChecked, CheckTypesNext, CountersNext, GuardPlacesNext
  DEF GuardInv
<1>3. Inv => GuardTypeOK
  <2> SUFFICES ASSUME Inv PROVE GuardTypeOK
    OBVIOUS
  <2>1. TypeOK
    BY DEF GuardInv, CheckerInv, Hearing, Budgets, CheckTypes, TypeOK
  <2>2. freeSeen + freeWrong <= FreeCanaries
    BY CanaryAssumption DEF CountersOK
  <2> QED BY <2>1, <2>2 DEF GuardInv, World, CountersOK, GuardPlaces, GuardTypeOK
<1> QED BY <1>1, <1>2, <1>3, PTL DEF GuardSpec
=============================================================================
