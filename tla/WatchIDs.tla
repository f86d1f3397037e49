------------------------------ MODULE WatchIDs ------------------------------
(***************************************************************************)
(* -watch-ids with the built-in claimer (watchid.go, runWatchIDs): rounds  *)
(* look every target up by the id of its account, a target whose account   *)
(* is renamed or gone leaves the watch and fires a claim, and the process  *)
(* ends, on Ctrl-C or with -watch-once, only after the claims have.  It    *)
(* may be killed, and is started again.                                    *)
(***************************************************************************)
EXTENDS Claimer

CONSTANT MaxRuns    \* bounds the processes started

ASSUME WatchIDsAssumption == MaxRuns \in Nat \ {0}

VARIABLES
    proc,       \* "watching", "stopping" (in hook.stop), "gone" or "killed"
    round,      \* is a round under way?
    active,     \* active
    look,       \* each entry in the round: "out", "due", "asking", "still", "freed"
    cancelled,  \* the run's context is done
    watchOnce,  \* cfg.watchOnce
    runs        \* processes started

watchVars == <<proc, round, active, look, cancelled, watchOnce, runs>>
vars == <<list, claimerVars, watchVars>>

Over == proc \in {"gone", "killed"}

Init ==
    /\ list \in Lists
    /\ holder = [n \in Names |-> "target"]
    /\ claimed = {} /\ caught = {} /\ lapse = FALSE /\ faulted = FALSE
    /\ NoClaims
    /\ used = {} /\ inUse = {} /\ warm \in MayWarm({})
    /\ proc = "watching" /\ round = FALSE /\ active = Entries
    /\ look = [e \in Entries |-> "out"]
    /\ cancelled = FALSE /\ watchOnce \in BOOLEAN /\ runs = 1
-----------------------------------------------------------------------------
\* The loop, at the next round.
RoundBegin ==
    /\ proc = "watching" /\ ~round /\ ~cancelled
    /\ look' = [e \in Entries |-> IF e \in active THEN "due" ELSE "out"]
    /\ round' = TRUE
    /\ UNCHANGED <<claimerVars, proc, active, cancelled, watchOnce, runs>>

LookTurns(e, from, to) ==
    /\ look[e] = from
    /\ look' = [look EXCEPT ![e] = to]
    /\ UNCHANGED <<proc, round, active, cancelled, watchOnce, runs>>

\* A round starts a goroutine for one target after the other, until Ctrl-C; their order
\* is not modelled.
Launch(e) == ~cancelled /\ LookTurns(e, "due", "asking") /\ UNCHANGED claimerVars

Looked(e, result) == LookTurns(e, "asking", result)

\* Mutant of LookupFails: the target is not put back.
LookupForgets(e) == Looked(e, "freed") /\ UNCHANGED claimerVars
\* The tries of watchLookup failed, or it was cancelled.
LookupFails(e) == Looked(e, "still") /\ UNCHANGED claimerVars

LookupHeld(e) ==
    /\ holder[list[e]] = "target"
    /\ Looked(e, "still") /\ UNCHANGED claimerVars

\* The account has another name, or is gone: handleFreed.
LookupFreed(e) ==
    /\ holder[list[e]] # "target"
    /\ Looked(e, "freed") /\ Fire(e)

\* The round is through: its targets that were looked up and not freed stay.
RoundEnd ==
    /\ proc = "watching" /\ round
    /\ \A e \in Entries : look[e] # "asking" /\ (look[e] = "due" => cancelled)
    /\ active' = {e \in active : look[e] = "still"}
    /\ round' = FALSE /\ look' = [e \in Entries |-> "out"]
    /\ proc' = IF active' = {} /\ watchOnce THEN "stopping" ELSE proc
    /\ UNCHANGED <<claimerVars, cancelled, watchOnce, runs>>

\* The loop's test, at the next round.
Stops ==
    /\ proc = "watching" /\ ~round /\ cancelled
    /\ proc' = "stopping"
    /\ UNCHANGED <<claimerVars, round, active, look, cancelled, watchOnce, runs>>

\* What a process leaves behind when it ends: nothing in memory.
Leaves(how) ==
    /\ proc' = how
    /\ ForgetsClaims /\ used' = {} /\ inUse' = {} /\ warm' = {}
    /\ round' = FALSE /\ active' = {} /\ look' = [e \in Entries |-> "out"]
    /\ cancelled' = FALSE
    /\ UNCHANGED <<holder, claimed, caught, faulted, watchOnce, runs>>

Claims(e) == ~Over /\ Works(e) /\ UNCHANGED watchVars
Drops(e) == ~Over /\ cancelled /\ SlotDrop(e) /\ UNCHANGED watchVars

\* Ctrl-C.
Cancel ==
    /\ ~Over /\ ~cancelled
    /\ cancelled' = TRUE
    /\ UNCHANGED <<claimerVars, proc, round, active, look, watchOnce, runs>>

\* Mutant of Waited: the hook's goroutines are not waited for.
WaitedForNone == TRUE
\* hook.stop waits for every claim.
Waited == \A e \in Entries : claim[e] \in Ended \cup {"none"}
Exit == proc = "stopping" /\ Waited /\ Leaves("gone") /\ UNCHANGED lapse

\* The process is killed; a burn may not have reached the disk.
Crash ==
    /\ ~Over /\ Leaves("killed")
    /\ lapse' = (lapse \/ ~(used \subseteq claimed))

\* Mutant of Known: claimed.json is not read.
KnownForgotten == {}
\* newClaimer: the accounts burned in earlier runs, or none when loadUsed cannot read
\* or parse the file.
Known == claimed
Restart ==
    /\ Over /\ runs < MaxRuns
    /\ runs' = runs + 1
    /\ \/ used' = Known /\ UNCHANGED faulted
       \/ claimed # {} /\ used' = {} /\ faulted' = TRUE
    /\ inUse' = {} /\ warm' \in MayWarm(used')
    /\ proc' = "watching" /\ active' = Entries
    /\ UNCHANGED <<round, look, cancelled>>
    /\ UNCHANGED <<holder, claimed, jobVars, caught, lapse, watchOnce>>

\* The server: a target's account lets its name go; somebody else takes a free one.
TargetFrees(n) ==
    /\ holder[n] = "target" /\ holder' = [holder EXCEPT ![n] = Nobody]
    /\ UNCHANGED <<claimed, jobVars, acctVars, caught, lapse, faulted, watchVars>>
OtherTakes(n) ==
    /\ holder[n] = Nobody /\ holder' = [holder EXCEPT ![n] = "other"]
    /\ UNCHANGED <<claimed, jobVars, acctVars, caught, lapse, faulted, watchVars>>

Looks(e) == Launch(e) \/ LookupFails(e) \/ LookupHeld(e) \/ LookupFreed(e)

Steps ==
    \/ RoundBegin \/ RoundEnd \/ Stops \/ Exit \/ Cancel \/ Crash \/ Restart
    \/ \E e \in Entries : ~Over /\ (Looks(e) \/ Claims(e) \/ Drops(e))
    \/ \E n \in Names : TargetFrees(n) \/ OtherTakes(n)

Next == Steps /\ UNCHANGED list

Spec == Init /\ [][Next]_vars

\* The goroutine of a claim keeps going while its process lives: each of its waits has
\* a deadline (hookTimeout).
FairSpec == Spec /\ \A e \in Entries : WF_vars((Claims(e) \/ Drops(e)) /\ UNCHANGED list)
-----------------------------------------------------------------------------
TypeOK ==
    /\ list \in Lists /\ ClaimerTypeOK
    /\ proc \in {"watching", "stopping", "gone", "killed"}
    /\ round \in BOOLEAN /\ cancelled \in BOOLEAN /\ watchOnce \in BOOLEAN
    /\ active \subseteq Entries
    /\ look \in [Entries -> {"out", "due", "asking", "still", "freed"}]
    /\ runs \in 1 .. MaxRuns

\* However many entries hold a name, and however many of their goroutines see it freed
\* at once, one process makes one claim of it (hook.go, fire: the claims would be
\* conflicting writes to an account).
OneClaimPerName ==
    \A e, f \in Entries :
        e # f /\ list[e] = list[f] => claim[e] = "none" \/ claim[f] = "none"

\* A name a claim was told it has stays with the account that caught it, through other
\* claims, failed and unanswered ones, and restarts: no burned account is used again.
\* Four things may break that: a crash before the burn is on disk, two saves at once, a
\* save that failed and a start that could not read claimed.json (claimer.go,
\* takeAccount, burn, saveUsed, loadUsed).
CaughtIsKept == ~lapse /\ ~faulted => \A c \in caught : holder[c[1]] = c[2]

\* Until Ctrl-C a target leaves the watch only when it fired: no failed lookup loses one.
\* On Ctrl-C a round drops the targets it has not started (watchid.go, runWatchIDs).
TargetsKept ==
    ~Over /\ ~cancelled => \A e \in Entries : e \in active \/ list[e] \in fired

\* A claim that was fired is brought to its end, or dropped while it waits for a slot:
\* neither Ctrl-C nor -watch-once cuts it short (hook.go, stop; watchid.go).
ClaimsEnd ==
    \A e \in Entries : claim[e] = "queued" ~> claim[e] \in Ended \/ proc = "killed"

\* What the comment on claimer.mu says of the state file: with every burn saved, and no
\* save or read failed, it names every burned account.
BurnsAreSaved ==
    ~Over /\ ~faulted /\ (\A e \in Entries : claim[e] \notin {"burned", "saving"})
        => used \subseteq claimed
=============================================================================
