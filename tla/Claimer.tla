------------------------------ MODULE Claimer ------------------------------
(***************************************************************************)
(* Claims of freed names (claimer.go), run by the hook (hook.go): a claim  *)
(* waits for one of the hook's slots, takes an account that is warm,       *)
(* unburned and free, renames it, and on success burns it, in memory and   *)
(* then in claimed.json.  A claim is started for an entry of the user's    *)
(* list; two entries may hold one name.  The server decides who holds a    *)
(* name; its answer may be lost.                                           *)
(***************************************************************************)
EXTENDS Naturals, FiniteSets

CONSTANTS
    Names,          \* the names one may wish for
    Entries,        \* the "username:id" entries of the user's list
    Lists,          \* the lists a user may have: the name of each entry
    Accounts,       \* the claiming accounts
    Line,           \* the line of each in sessions.txt
    Slots,          \* hookConcurrency
    Tries,          \* claimRetries + 1
    Nobody          \* holds a name that is free

ASSUME ClaimerAssumption ==
    /\ Lists \subseteq [Entries -> Names]
    /\ Line \in [Accounts -> Nat]
    /\ \A a, b \in Accounts : Line[a] = Line[b] => a = b
    /\ Slots \in Nat \ {0} /\ Tries \in Nat \ {0}
    /\ Accounts \cap {Nobody, "target", "other"} = {}
    /\ Nobody \notin {"target", "other"}

VARIABLES
    list,       \* the list
    holder,     \* the server: who holds each name
    claimed,    \* the disk: the accounts in claimed.json
    fired,      \* hookRunner.fired
    claim,      \* the position of each entry's claim
    acct,       \* the account it holds
    tried,      \* the accounts it has had
    attempt,    \* its attempt with this one
    collected,  \* what saveUsed read under the lock
    warm, inUse, used,  \* the accounts' flags
    caught,     \* history: the names a claim was told are taken, with the account
    lapse,      \* history: two saves overlapped, or a crash lost a burn
    faulted     \* history: claimed.json could not be written, or not be read

jobVars == <<fired, claim, acct, tried, attempt, collected>>
acctVars == <<warm, inUse, used>>
claimerVars == <<holder, claimed, jobVars, acctVars, caught, lapse, faulted>>

\* "queued": waiting for a slot.  "choosing": takeAccount is next.  "posting": in
\* tryRename, or pausing before the next.  "burned": saveUsed is next.  "saving": it
\* has read the flags.
InSlot == {"choosing", "posting", "burned", "saving"}
Ended == {"done", "failed", "dropped"}
Places == {"none", "queued"} \cup InSlot \cup Ended

\* The claims of a process that just started, or is gone.
NoClaims ==
    /\ fired = {}
    /\ claim = [e \in Entries |-> "none"]
    /\ acct = [e \in Entries |-> Nobody]
    /\ tried = [e \in Entries |-> {}]
    /\ attempt = [e \in Entries |-> 0]
    /\ collected = [e \in Entries |-> {}]

ForgetsClaims ==
    /\ fired' = {}
    /\ claim' = [e \in Entries |-> "none"]
    /\ acct' = [e \in Entries |-> Nobody]
    /\ tried' = [e \in Entries |-> {}]
    /\ attempt' = [e \in Entries |-> 0]
    /\ collected' = [e \in Entries |-> {}]

\* warmAll: any of the unburned accounts, as their sessions live; with none warm the
\* program does not start.
MayWarm(burnt) == (SUBSET (Accounts \ burnt)) \ {{}}

At(e, place) == claim' = [claim EXCEPT ![e] = place]

\* A claim returns, and its variables with it.
Returns(e, result) ==
    /\ At(e, result)
    /\ acct' = [acct EXCEPT ![e] = Nobody] /\ tried' = [tried EXCEPT ![e] = {}]
    /\ attempt' = [attempt EXCEPT ![e] = 0] /\ collected' = [collected EXCEPT ![e] = {}]
    /\ UNCHANGED fired
-----------------------------------------------------------------------------
\* Mutant of NotFired: the names are not remembered.
NotFiredUnseen(name) == TRUE
NotFired(name) == name \notin fired

\* hook.fire: once per name.
Fire(e) ==
    LET name == list[e] IN
    IF NotFired(name)
    THEN /\ fired' = fired \cup {name}
         /\ At(e, "queued")
         /\ UNCHANGED <<holder, claimed, acct, tried, attempt, collected, acctVars, caught,
                        lapse, faulted>>
    ELSE UNCHANGED claimerVars

SlotFree == Cardinality({e \in Entries : claim[e] \in InSlot}) < Slots
SlotTake(e) ==
    /\ claim[e] = "queued" /\ SlotFree
    /\ At(e, "choosing")
    /\ UNCHANGED <<holder, claimed, fired, acct, tried, attempt, collected, acctVars,
                   caught, lapse, faulted>>

\* The select also sees the run's context end.
SlotDrop(e) ==
    /\ claim[e] = "queued"
    /\ Returns(e, "dropped")
    /\ UNCHANGED <<holder, claimed, acctVars, caught, lapse, faulted>>

\* takeAccount: the first that is warm, unburned, not in use and not tried yet.
Takeable(e) == ((warm \ used) \ inUse) \ tried[e]
TakeAccount(e) ==
    /\ claim[e] = "choosing"
    /\ \E a \in Takeable(e) :
          /\ \A b \in Takeable(e) : Line[a] <= Line[b]
          /\ acct' = [acct EXCEPT ![e] = a]
          /\ inUse' = inUse \cup {a}
          /\ tried' = [tried EXCEPT ![e] = @ \cup {a}]
    /\ attempt' = [attempt EXCEPT ![e] = 1]
    /\ At(e, "posting")
    /\ UNCHANGED <<holder, claimed, fired, collected, warm, used, caught, lapse, faulted>>

NoAccount(e) ==
    /\ claim[e] = "choosing" /\ Takeable(e) = {}
    /\ Returns(e, "failed")
    /\ UNCHANGED <<holder, claimed, acctVars, caught, lapse, faulted>>

\* The account is given back.
GivesBack(e) == inUse' = inUse \ {acct[e]}

\* clientFor failed, the account was refused, or its attempts are used up.
NextAccount(e) ==
    /\ GivesBack(e) /\ At(e, "choosing")
    /\ acct' = [acct EXCEPT ![e] = Nobody] /\ attempt' = [attempt EXCEPT ![e] = 0]
    /\ UNCHANGED <<claimed, fired, tried, collected, warm, used, caught, lapse, faulted>>
Refused(e) == claim[e] = "posting" /\ NextAccount(e) /\ UNCHANGED holder

\* The hook's deadline passed: at the limiter or in the pause.
GaveUp(e) ==
    /\ claim[e] = "posting"
    /\ GivesBack(e) /\ Returns(e, "failed")
    /\ UNCHANGED <<holder, claimed, warm, used, caught, lapse, faulted>>

\* The server renames an account: it lets go of the name it held.
Rename(a, name) ==
    /\ holder[name] \in {Nobody, a}
    /\ holder' = [n \in Names |-> IF n = name THEN a
                                  ELSE IF holder[n] = a THEN Nobody ELSE holder[n]]

MayRetry(e) == attempt[e] < Tries

\* A failure worth a retry: the name is not available, a rate limit, or no answer,
\* in which case the rename may have happened.
Inconclusive(e) ==
    /\ claim[e] = "posting"
    /\ UNCHANGED holder \/ Rename(acct[e], list[e])
    /\ IF MayRetry(e)
       THEN /\ attempt' = [attempt EXCEPT ![e] = @ + 1]
            /\ UNCHANGED <<claimed, fired, claim, acct, tried, collected, acctVars, caught,
                           lapse, faulted>>
       ELSE NextAccount(e)

\* The rename is confirmed: the account is burned.
Caught(e) ==
    /\ claim[e] = "posting"
    /\ Rename(acct[e], list[e])
    /\ used' = used \cup {acct[e]}
    /\ GivesBack(e) /\ At(e, "burned")
    /\ caught' = caught \cup {<<list[e], acct[e]>>}
    /\ acct' = [acct EXCEPT ![e] = Nobody] /\ tried' = [tried EXCEPT ![e] = {}]
    /\ attempt' = [attempt EXCEPT ![e] = 0]
    /\ UNCHANGED <<claimed, fired, collected, warm, lapse, faulted>>

\* saveUsed reads the flags under the lock ...
SaveCollect(e) ==
    /\ claim[e] = "burned"
    /\ collected' = [collected EXCEPT ![e] = used]
    /\ At(e, "saving")
    /\ lapse' = (lapse \/ \E f \in Entries : claim[f] = "saving")
    /\ UNCHANGED <<holder, claimed, fired, acct, tried, attempt, acctVars, caught,
                   faulted>>

\* ... and replaces the file without it, or fails to and says nothing.  saveCaught and
\* the return follow.
SaveWrite(e) ==
    /\ claim[e] = "saving"
    /\ claimed' \in {collected[e], claimed}
    /\ faulted' = (faulted \/ claimed' # collected[e])
    /\ Returns(e, "done")
    /\ UNCHANGED <<holder, acctVars, caught, lapse>>

\* A claim's own steps; the run's context plays no part in them.
Works(e) ==
    \/ SlotTake(e) \/ TakeAccount(e) \/ NoAccount(e)
    \/ Refused(e) \/ GaveUp(e) \/ Inconclusive(e) \/ Caught(e)
    \/ SaveCollect(e) \/ SaveWrite(e)
-----------------------------------------------------------------------------
ClaimerTypeOK ==
    /\ holder \in [Names -> Accounts \cup {Nobody, "target", "other"}]
    /\ claimed \subseteq Accounts
    /\ fired \subseteq Names
    /\ claim \in [Entries -> Places]
    /\ acct \in [Entries -> Accounts \cup {Nobody}]
    /\ tried \in [Entries -> SUBSET Accounts]
    /\ attempt \in [Entries -> 0 .. Tries]
    /\ collected \in [Entries -> SUBSET Accounts]
    /\ warm \subseteq Accounts /\ inUse \subseteq Accounts /\ used \subseteq Accounts
    /\ caught \subseteq Names \X Accounts
    /\ lapse \in BOOLEAN /\ faulted \in BOOLEAN
=============================================================================
