-------------------------- MODULE WatchIDs_proofs --------------------------
(***************************************************************************)
(* Proof about WatchIDs, for any list, accounts, slots and restarts: a     *)
(* caught name stays with the account that caught it.                      *)
(***************************************************************************)
EXTENDS WatchIDs, TLAPS

Typed ==
    /\ list \in [Entries -> Names]
    /\ holder \in [Names -> Accounts \cup {Nobody, "target", "other"}]
    /\ claim \in [Entries -> Places]
    /\ acct \in [Entries -> Accounts \cup {Nobody}]
    /\ collected \in [Entries -> SUBSET Accounts]
    /\ warm \subseteq Accounts /\ used \subseteq Accounts /\ claimed \subseteq Accounts
    /\ caught \subseteq Names \X Accounts
    /\ lapse \in BOOLEAN /\ faulted \in BOOLEAN

\* The account of a claim is its own while it posts, and not burned.
Exclusive ==
    /\ \A e \in Entries : claim[e] = "posting" => acct[e] \in (Accounts \cap inUse) \ used
    /\ \A e, f \in Entries : claim[e] = "posting" /\ claim[f] = "posting" /\ acct[e] = acct[f]
                                 => e = f

\* What the disk knows is burned, and what is burned is on its way to the disk, unless
\* two saves overlapped, a crash lost a burn, or the file failed.
Saved ==
    /\ Over => \A e \in Entries : claim[e] = "none"
    /\ \A e \in Entries : claim[e] = "saving" => collected[e] \subseteq used
    /\ ~lapse /\ ~faulted =>
          /\ ~Over => claimed \subseteq used
          /\ \A e, f \in Entries : claim[e] = "saving" /\ claim[f] = "saving" => e = f
          /\ \A e \in Entries : claim[e] = "saving" => claimed \subseteq collected[e]
          /\ \A a \in used : \/ a \in claimed
                             \/ \E e \in Entries : claim[e] = "burned"
                             \/ \E e \in Entries : claim[e] = "saving" /\ a \in collected[e]

\* The accounts that caught a name are known as burned.
Remembered == ~lapse /\ ~faulted => \A c \in caught : c[2] \in IF Over THEN claimed ELSE used

\* A claim that began has its name among those that fired.
Begun ==
    /\ \A e \in Entries : claim[e] = "none" \/ list[e] \in fired
    /\ OneClaimPerName

ClaimsInv == Typed /\ Exclusive /\ Saved /\ Remembered /\ CaughtIsKept

LEMMA ClaimsInit == Init => ClaimsInv
<1> SUFFICES ASSUME Init PROVE ClaimsInv
  OBVIOUS
<1> USE DEF Init, NoClaims
<1>1. Typed
  BY ClaimerAssumption DEF Typed, Places, MayWarm
<1>2. Exclusive /\ Saved /\ Remembered /\ CaughtIsKept
  BY DEF Exclusive, Saved, Remembered, CaughtIsKept, Over
<1> QED BY <1>1, <1>2 DEF ClaimsInv

\* The steps that leave the claims alone.
Aside == claimerVars' = claimerVars /\ list' = list /\ Over' = Over

LEMMA AsideKeeps == ClaimsInv /\ Aside => ClaimsInv'
BY DEF ClaimsInv, Aside, claimerVars, jobVars, acctVars, Typed, Exclusive, Saved, Remembered,
       CaughtIsKept, Over

\* The steps of a claim with no account in its hands.
Idles(e) == /\ claim[e] \in {"none", "queued", "choosing"} \cup Ended
            /\ \E place \in Places \ {"posting", "burned", "saving"} : At(e, place)
            /\ \A f \in Entries \ {e} : acct'[f] = acct[f] /\ collected'[f] = collected[f]
            /\ acct' \in [Entries -> Accounts \cup {Nobody}]
            /\ collected' \in [Entries -> SUBSET Accounts]
            /\ UNCHANGED <<list, holder, claimed, acctVars, caught, lapse, faulted, proc>>

LEMMA IdlesKeep ==
  ASSUME ClaimsInv, NEW e \in Entries, Idles(e), ~Over
  PROVE  ClaimsInv'
<1> USE DEF ClaimsInv, Idles, At, acctVars
<1>1. /\ claim' \in [Entries -> Places] /\ UNCHANGED Over
      /\ \A f \in Entries : \A place \in {"posting", "burned", "saving"} :
             claim'[f] = place <=> claim[f] = place
      /\ \A f \in Entries : claim[f] \in {"posting", "burned", "saving"}
             => acct'[f] = acct[f] /\ collected'[f] = collected[f]
  BY DEF Typed, Places, InSlot, Ended, Over
<1>2. Typed'
  BY <1>1 DEF Typed
<1>3. Exclusive'
  BY <1>1 DEF Exclusive, Typed
<1>4. Saved'
  BY <1>1 DEF Saved, Typed
<1>5. (Remembered /\ CaughtIsKept)'
  BY <1>1 DEF Remembered, CaughtIsKept
<1> QED BY <1>2, <1>3, <1>4, <1>5

\* A claim waits for its slot, or finds no account.
LEMMA WaitKeeps ==
  ASSUME ClaimsInv, ~Over, NEW e \in Entries, SlotTake(e) \/ SlotDrop(e) \/ NoAccount(e),
         UNCHANGED <<list, proc>>
  PROVE  ClaimsInv'
<1> USE DEF SlotTake, SlotDrop, NoAccount
<1>1. acct \in [Entries -> Accounts \cup {Nobody}] /\ collected \in [Entries -> SUBSET Accounts]
  BY DEF ClaimsInv, Typed
<1>2. claim[e] \in {"queued", "choosing"}
  OBVIOUS
<1>3. \E place \in {"choosing", "dropped", "failed"} : At(e, place)
  BY DEF Returns
<1>4. \/ UNCHANGED <<acct, collected>>
      \/ acct' = [acct EXCEPT ![e] = Nobody] /\ collected' = [collected EXCEPT ![e] = {}]
  BY DEF Returns
<1>5. Idles(e)
  BY <1>1, <1>2, <1>3, <1>4 DEF Idles, Places, InSlot, Ended
<1> QED BY <1>5, IdlesKeep

\* A target that is found freed fires its claim once.
LEMMA FireKeeps ==
  ASSUME ClaimsInv, Begun, ~Over, NEW e \in Entries, Fire(e), UNCHANGED <<list, proc>>
  PROVE  ClaimsInv'
<1>1. CASE list[e] \in fired
  BY <1>1, AsideKeeps DEF Fire, NotFired, Aside, Over
<1>2. CASE list[e] \notin fired
  <2>1. claim[e] = "none" /\ At(e, "queued")
        /\ UNCHANGED <<holder, claimed, acct, collected, acctVars, caught, lapse, faulted>>
    BY <1>2 DEF Begun, Fire, NotFired
  <2>2. Idles(e)
    BY <2>1 DEF Idles, Places, InSlot, Ended, ClaimsInv, Typed
  <2> QED BY <2>2, IdlesKeep
<1> QED BY <1>1, <1>2

LEMMA BegunNext == Typed /\ Begun /\ [Next]_vars => Begun'
<1> SUFFICES ASSUME Typed, Begun, [Next]_vars PROVE Begun'
  OBVIOUS
<1> USE DEF Begun, OneClaimPerName
<1>1. CASE UNCHANGED <<list, fired, claim>>
  BY <1>1
<1>2. CASE (Exit \/ Crash) /\ UNCHANGED list
  BY <1>2 DEF Exit, Crash, Leaves, ForgetsClaims
<1>3. ASSUME NEW e \in Entries, claim[e] # "none", UNCHANGED <<list, fired>>,
             \E place \in Places : At(e, place)
      PROVE  Begun'
  BY <1>3 DEF At, Typed
<1>4. ASSUME NEW e \in Entries, list[e] \notin fired, fired' = fired \cup {list[e]},
             UNCHANGED list, At(e, "queued")
      PROVE  Begun'
  BY <1>4 DEF At, Typed
<1>5. CASE (RoundBegin \/ RoundEnd \/ Stops \/ Cancel \/ Restart) /\ UNCHANGED list
  BY <1>1, <1>5 DEF RoundBegin, RoundEnd, Stops, Cancel, Restart, claimerVars, jobVars
<1>6. ASSUME NEW e \in Entries, Looks(e), UNCHANGED list PROVE Begun'
  BY <1>1, <1>4, <1>6
  DEF Looks, Launch, LookupFails, LookupHeld, LookupFreed, Fire, NotFired, claimerVars, jobVars
<1>7. ASSUME NEW e \in Entries, Claims(e) \/ Drops(e), UNCHANGED list PROVE Begun'
  <2>1. claim[e] # "none"
    BY <1>7 DEF Claims, Drops, Works, SlotTake, SlotDrop, TakeAccount, NoAccount, Refused,
                GaveUp, Inconclusive, Caught, SaveCollect, SaveWrite
  <2>2. UNCHANGED fired
    BY <1>7 DEF Claims, Drops, Works, SlotTake, SlotDrop, TakeAccount, NoAccount, Refused,
                GaveUp, Inconclusive, NextAccount, Caught, SaveCollect, SaveWrite, Returns
  <2>3. UNCHANGED claim \/ \E place \in Places : At(e, place)
    BY <1>7 DEF Claims, Drops, Works, SlotTake, SlotDrop, TakeAccount, NoAccount, Refused,
                GaveUp, Inconclusive, NextAccount, Caught, SaveCollect, SaveWrite, Returns,
                Places, InSlot, Ended
  <2> QED BY <1>1, <1>3, <1>7, <2>1, <2>2, <2>3
<1>8. ASSUME NEW n \in Names, TargetFrees(n) \/ OtherTakes(n), UNCHANGED list PROVE Begun'
  BY <1>1, <1>8 DEF TargetFrees, OtherTakes, jobVars
<1>9. CASE UNCHANGED vars
  BY <1>1, <1>9 DEF vars, claimerVars, jobVars
<1> QED BY <1>2, <1>5, <1>6, <1>7, <1>8, <1>9 DEF Next, Steps

\* An account in a claim's hands renames: no caught name is its own to lose.
LEMMA RenameKeeps ==
  ASSUME ClaimsInv, ~Over, NEW e \in Entries, claim[e] = "posting",
         UNCHANGED holder \/ Rename(acct[e], list[e])
  PROVE  /\ holder' \in [Names -> Accounts \cup {Nobody, "target", "other"}]
         /\ ~lapse /\ ~faulted => \A c \in caught : holder'[c[1]] = c[2]
<1> USE DEF ClaimsInv, Typed
<1>1. acct[e] \in Accounts \ used
  BY DEF Exclusive
<1>2. holder' \in [Names -> Accounts \cup {Nobody, "target", "other"}]
  BY <1>1 DEF Rename
<1>3. ASSUME ~lapse, ~faulted, NEW c \in caught, Rename(acct[e], list[e])
      PROVE  holder'[c[1]] = c[2]
  <2>1. c[1] \in Names /\ c[2] \in Accounts /\ c[2] # acct[e] /\ c[2] # Nobody
    BY <1>1, <1>3, ClaimerAssumption DEF Remembered
  <2>2. holder[c[1]] = c[2]
    BY <1>3 DEF CaughtIsKept
  <2> QED BY <1>3, <2>1, <2>2 DEF Rename
<1> QED BY <1>2, <1>3 DEF CaughtIsKept

LEMMA TakeAccountKeeps ==
  ASSUME ClaimsInv, ~Over, NEW e \in Entries, TakeAccount(e), UNCHANGED <<list, watchVars>>
  PROVE  ClaimsInv'
<1> USE DEF ClaimsInv, TakeAccount, watchVars, At
<1>1. PICK a \in Takeable(e) : acct' = [acct EXCEPT ![e] = a] /\ inUse' = inUse \cup {a}
  OBVIOUS
<1>2. a \in Accounts /\ a \notin used /\ a \notin inUse
  BY <1>1 DEF Takeable, Typed
<1>3. Typed'
  BY <1>1, <1>2 DEF Typed, Places, InSlot
<1>4. Exclusive'
  BY <1>1, <1>2 DEF Exclusive, Typed
<1>5. Saved'
  BY DEF Saved, Typed, Over
<1>6. (Remembered /\ CaughtIsKept)'
  BY DEF Remembered, CaughtIsKept, Over
<1> QED BY <1>3, <1>4, <1>5, <1>6

\* The account is given back.
LEMMA GivesBackKeeps ==
  ASSUME ClaimsInv, ~Over, NEW e \in Entries, GivesBack(e), claim[e] = "posting",
         UNCHANGED holder \/ Rename(acct[e], list[e]),
         \/ At(e, "choosing") /\ acct' = [acct EXCEPT ![e] = Nobody] /\ UNCHANGED collected
         \/ Returns(e, "failed"),
         UNCHANGED <<list, claimed, warm, used, caught, lapse, faulted, watchVars>>
  PROVE  ClaimsInv'
<1> USE DEF ClaimsInv, watchVars, At, GivesBack
<1>1. /\ claim' \in [Entries -> Places] /\ claim'[e] \in {"choosing", "failed"}
      /\ \A f \in Entries \ {e} : claim'[f] = claim[f] /\ acct'[f] = acct[f]
                                  /\ collected'[f] = collected[f]
      /\ acct' \in [Entries -> Accounts \cup {Nobody}]
      /\ collected' \in [Entries -> SUBSET Accounts]
  BY DEF Typed, Returns, Places, InSlot, Ended
<1>2. Typed'
  BY <1>1, RenameKeeps DEF Typed
<1>3. Exclusive'
  BY <1>1 DEF Exclusive, Typed
<1>4. Saved'
  BY <1>1 DEF Saved, Typed, Over
<1>5. (Remembered /\ CaughtIsKept)'
  BY RenameKeeps DEF Remembered, CaughtIsKept, Over
<1> QED BY <1>2, <1>3, <1>4, <1>5

LEMMA RetryKeeps ==
  ASSUME ClaimsInv, ~Over, NEW e \in Entries, Inconclusive(e), UNCHANGED <<list, watchVars>>
  PROVE  ClaimsInv'
<1>1. CASE MayRetry(e)
  <2> USE DEF ClaimsInv
  <2>1. /\ claim[e] = "posting"
        /\ UNCHANGED holder \/ Rename(acct[e], list[e])
        /\ UNCHANGED <<claimed, claim, acct, collected, acctVars, caught, lapse, faulted,
                      proc, list>>
    BY <1>1 DEF Inconclusive, watchVars
  <2>2. Typed' /\ (Remembered /\ CaughtIsKept)'
    BY <2>1, RenameKeeps DEF Typed, Remembered, CaughtIsKept, Over, acctVars
  <2>3. Exclusive' /\ Saved'
    BY <2>1 DEF Exclusive, Saved, Over, acctVars
  <2> QED BY <2>2, <2>3
<1>2. CASE ~MayRetry(e)
  BY <1>2, GivesBackKeeps DEF Inconclusive, NextAccount
<1> QED BY <1>1, <1>2

LEMMA CaughtKeeps ==
  ASSUME ClaimsInv, ~Over, NEW e \in Entries, Caught(e), UNCHANGED <<list, watchVars>>
  PROVE  ClaimsInv'
<1> USE DEF ClaimsInv, watchVars, At, GivesBack, Caught
<1>1. acct[e] \in Accounts /\ list[e] \in Names
  BY DEF Exclusive, Typed
<1>2. /\ claim' \in [Entries -> Places] /\ claim'[e] = "burned"
      /\ \A f \in Entries \ {e} : claim'[f] = claim[f]
  BY DEF Typed, Places, InSlot
<1>3. Typed'
  BY <1>1, <1>2, RenameKeeps DEF Typed
<1>4. Exclusive'
  BY <1>2 DEF Exclusive, Typed
<1>5. Saved'
  <2>1. \A f \in Entries : claim'[f] = "saving" => claim[f] = "saving"
    BY <1>2
  <2>2. ASSUME ~lapse, ~faulted, NEW a \in used'
        PROVE  \/ a \in claimed'
               \/ \E f \in Entries : claim'[f] = "burned"
               \/ \E f \in Entries : claim'[f] = "saving" /\ a \in collected'[f]
    BY <1>2
  <2> QED BY <2>1, <2>2 DEF Saved, Over
<1>6. Remembered'
  BY <1>1 DEF Remembered, Over
<1>7. CaughtIsKept'
  <2>1. holder'[list[e]] = acct[e]
    BY <1>1 DEF Rename
  <2> QED BY <2>1, RenameKeeps DEF CaughtIsKept
<1> QED BY <1>3, <1>4, <1>5, <1>6, <1>7

LEMMA CollectKeeps ==
  ASSUME ClaimsInv, ~Over, NEW e \in Entries, SaveCollect(e), UNCHANGED <<list, watchVars>>
  PROVE  ClaimsInv'
<1> USE DEF ClaimsInv, watchVars, At, SaveCollect, acctVars
<1>1. /\ claim' \in [Entries -> Places] /\ claim'[e] = "saving"
      /\ \A f \in Entries \ {e} : claim'[f] = claim[f] /\ collected'[f] = collected[f]
      /\ collected'[e] = used
  BY DEF Typed, Places, InSlot
<1>2. Typed'
  BY <1>1 DEF Typed
<1>3. Exclusive'
  BY <1>1 DEF Exclusive
<1>4. Saved'
  <2>1. ASSUME ~lapse', ~faulted' PROVE \A f \in Entries : claim[f] # "saving"
    BY <2>1 DEF Typed
  <2>2. ASSUME ~lapse', ~faulted', NEW a \in used'
        PROVE  \E f \in Entries : claim'[f] = "saving" /\ a \in collected'[f]
    BY <1>1
  <2> QED BY <1>1, <2>1, <2>2 DEF Saved, Over
<1>5. (Remembered /\ CaughtIsKept)'
  BY DEF Remembered, CaughtIsKept, Over, Typed
<1> QED BY <1>2, <1>3, <1>4, <1>5

LEMMA WriteKeeps ==
  ASSUME ClaimsInv, ~Over, NEW e \in Entries, SaveWrite(e), UNCHANGED <<list, watchVars>>
  PROVE  ClaimsInv'
<1> USE DEF ClaimsInv, watchVars, At, SaveWrite, Returns, acctVars
<1>1. /\ claim' \in [Entries -> Places] /\ claim'[e] = "done"
      /\ \A f \in Entries \ {e} : claim'[f] = claim[f] /\ acct'[f] = acct[f]
                                  /\ collected'[f] = collected[f]
      /\ claimed' \in {collected[e], claimed} /\ collected[e] \subseteq used
      /\ faulted' \in BOOLEAN
      /\ ~faulted' => ~faulted /\ claimed' = collected[e]
  BY DEF Typed, Saved, Places, Ended
<1>2. Typed'
  BY <1>1 DEF Typed
<1>3. Exclusive'
  BY <1>1 DEF Exclusive
<1>4. Saved'
  <2>1. ASSUME ~lapse, ~faulted' PROVE \A f \in Entries : claim'[f] # "saving"
    BY <1>1, <2>1 DEF Saved
  <2>2. ASSUME ~lapse, ~faulted', NEW a \in used
        PROVE  a \in claimed' \/ \E f \in Entries : claim'[f] = "burned"
    <3>1. CASE a \in claimed
      BY <1>1, <2>2, <3>1 DEF Saved
    <3>2. CASE \E f \in Entries : claim[f] = "burned"
      BY <1>1, <3>2
    <3>3. CASE \E f \in Entries : claim[f] = "saving" /\ a \in collected[f]
      BY <1>1, <2>2, <3>3 DEF Saved
    <3> QED BY <2>2, <3>1, <3>2, <3>3 DEF Saved
  <2> QED BY <1>1, <2>1, <2>2 DEF Saved, Over
<1>5. (Remembered /\ CaughtIsKept)'
  BY DEF Remembered, CaughtIsKept, Over
<1> QED BY <1>2, <1>3, <1>4, <1>5

\* The process ends: all that is burned is on disk, or its burns are lost.
LEMMA LeavesKeep ==
  ASSUME ClaimsInv, ~Over, Exit \/ Crash, UNCHANGED list
  PROVE  ClaimsInv'
<1> USE DEF ClaimsInv, Leaves, ForgetsClaims
<1>1. Over' /\ UNCHANGED <<holder, claimed, caught, list>> /\ lapse' \in BOOLEAN
      /\ (~lapse' => ~lapse) /\ faulted' = faulted
  BY DEF Exit, Crash, Over, Typed
<1>2. ~lapse' /\ ~faulted' => used \subseteq claimed
  <2>1. CASE Exit
    BY <2>1 DEF Exit, Waited, Ended, Saved
  <2>2. CASE Crash
    BY <2>2 DEF Crash
  <2> QED BY <2>1, <2>2
<1>3. /\ claim' = [e \in Entries |-> "none"] /\ acct' = [e \in Entries |-> Nobody]
      /\ collected' = [e \in Entries |-> {}] /\ used' = {} /\ warm' = {}
  BY DEF Exit, Crash
<1>4. Typed'
  BY <1>1, <1>3 DEF Typed, Places
<1>5. Exclusive' /\ Saved'
  BY <1>1, <1>3 DEF Exclusive, Saved
<1>6. Remembered'
  BY <1>1, <1>2 DEF Remembered
<1>7. CaughtIsKept'
  BY <1>1 DEF CaughtIsKept
<1> QED BY <1>4, <1>5, <1>6, <1>7

LEMMA RestartKeeps == ClaimsInv /\ Restart /\ UNCHANGED list => ClaimsInv'
<1> SUFFICES ASSUME ClaimsInv, Restart, UNCHANGED list PROVE ClaimsInv'
  OBVIOUS
<1> USE DEF ClaimsInv, Restart, Known, jobVars
<1>1. ~Over' /\ warm' \subseteq Accounts /\ (used' = claimed \/ used' = {})
  BY DEF Over, MayWarm
<1>2. \A e \in Entries : claim'[e] = "none"
  BY DEF Saved
<1>3. \/ used' = claimed /\ faulted' = faulted
      \/ used' = {} /\ faulted' = TRUE
  BY Zenon
<1>4. faulted' \in BOOLEAN
  BY <1>3, Zenon DEF Typed
<1>5. ~faulted' => ~faulted /\ used' = claimed
  BY <1>3, Zenon
<1>6. Typed'
  BY <1>1, <1>4 DEF Typed
<1>7. Exclusive' /\ Saved'
  BY <1>1, <1>2, <1>5 DEF Exclusive, Saved
<1>8. (Remembered /\ CaughtIsKept)'
  BY <1>1, <1>5 DEF Remembered, CaughtIsKept
<1> QED BY <1>6, <1>7, <1>8

LEMMA ServerKeeps ==
  ASSUME ClaimsInv, NEW n \in Names, TargetFrees(n) \/ OtherTakes(n), UNCHANGED list
  PROVE  ClaimsInv'
<1> USE DEF ClaimsInv, TargetFrees, OtherTakes, jobVars, acctVars, watchVars
<1>1. holder' = [holder EXCEPT ![n] = holder'[n]] /\ holder[n] \notin Accounts
      /\ holder'[n] \in {Nobody, "other"}
  BY ClaimerAssumption DEF Typed
<1>2. Typed' /\ Exclusive' /\ Saved' /\ Remembered'
  BY <1>1 DEF Typed, Exclusive, Saved, Remembered, Over
<1>3. CaughtIsKept'
  BY <1>1 DEF CaughtIsKept, Typed
<1> QED BY <1>2, <1>3

LEMMA ClaimsNext == ClaimsInv /\ Begun /\ [Next]_vars => ClaimsInv'
<1> SUFFICES ASSUME ClaimsInv, Begun, [Next]_vars PROVE ClaimsInv'
  OBVIOUS
<1>1. CASE (RoundBegin \/ RoundEnd \/ Stops \/ Cancel) /\ UNCHANGED list
  BY <1>1, AsideKeeps DEF RoundBegin, RoundEnd, Stops, Cancel, Aside, Over
<1>2. CASE (Exit \/ Crash) /\ UNCHANGED list
  BY <1>2, LeavesKeep DEF Exit, Crash, Over
<1>3. CASE Restart /\ UNCHANGED list
  BY <1>3, RestartKeeps
<1>4. ASSUME NEW e \in Entries, ~Over, Looks(e), UNCHANGED list PROVE ClaimsInv'
  <2>1. CASE Launch(e) \/ LookupFails(e) \/ LookupHeld(e)
    BY <1>4, <2>1, AsideKeeps
    DEF Launch, LookupFails, LookupHeld, Looked, LookTurns, Aside, Over
  <2>2. CASE LookupFreed(e)
    BY <1>4, <2>2, FireKeeps DEF LookupFreed, Looked, LookTurns
  <2> QED BY <1>4, <2>1, <2>2 DEF Looks
<1>5. ASSUME NEW e \in Entries, ~Over, Claims(e), UNCHANGED list PROVE ClaimsInv'
  <2>1. CASE SlotTake(e) \/ NoAccount(e)
    BY <1>5, <2>1, WaitKeeps DEF Claims, watchVars
  <2>2. CASE TakeAccount(e)
    BY <1>5, <2>2, TakeAccountKeeps DEF Claims
  <2>3. CASE Refused(e) \/ GaveUp(e)
    BY <1>5, <2>3, GivesBackKeeps DEF Claims, Refused, GaveUp, NextAccount
  <2>4. CASE Inconclusive(e)
    BY <1>5, <2>4, RetryKeeps DEF Claims
  <2>5. CASE Caught(e)
    BY <1>5, <2>5, CaughtKeeps DEF Claims
  <2>6. CASE SaveCollect(e) \/ SaveWrite(e)
    BY <1>5, <2>6, CollectKeeps, WriteKeeps DEF Claims
  <2> QED BY <1>5, <2>1, <2>2, <2>3, <2>4, <2>5, <2>6 DEF Claims, Works
<1>6. ASSUME NEW e \in Entries, ~Over, Drops(e), UNCHANGED list PROVE ClaimsInv'
  BY <1>6, WaitKeeps DEF Drops, watchVars
<1>7. ASSUME NEW n \in Names, TargetFrees(n) \/ OtherTakes(n), UNCHANGED list
      PROVE  ClaimsInv'
  BY <1>7, ServerKeeps
<1>8. CASE UNCHANGED vars
  BY <1>8, AsideKeeps DEF vars, watchVars, Aside, Over
<1> QED BY <1>1, <1>2, <1>3, <1>4, <1>5, <1>6, <1>7, <1>8 DEF Next, Steps

LEMMA ClaimsAlways == Spec => [](ClaimsInv /\ Begun)
<1>1. Init => Begun
  BY DEF Init, NoClaims, Begun, OneClaimPerName
<1>2. ClaimsInv => Typed
  BY DEF ClaimsInv
<1> QED BY ClaimsInit, ClaimsNext, BegunNext, <1>1, <1>2, PTL DEF Spec

\* A name once caught stays with the account that caught it, whatever the list, the
\* accounts and the answers: no account is used again, in this run or the next
\* (claimer.go, takeAccount, burn, saveUsed, loadUsed).
THEOREM CaughtIsKeptHolds == Spec => []CaughtIsKept
<1>1. ClaimsInv => CaughtIsKept
  BY DEF ClaimsInv
<1> QED BY ClaimsAlways, <1>1, PTL

\* One process makes one claim of a name, however many entries hold it (hook.go, fire).
THEOREM OneClaimPerNameHolds == Spec => []OneClaimPerName
<1>1. Begun => OneClaimPerName
  BY DEF Begun
<1> QED BY ClaimsAlways, <1>1, PTL
-----------------------------------------------------------------------------
\* The rounds: in one, every target has its place, and one that was seen freed fired;
\* between two, and without a process, nobody looks anything up.
Rounds ==
    /\ active \subseteq Entries
    /\ look \in [Entries -> {"out", "due", "asking", "still", "freed"}]
    /\ \A e \in Entries : look[e] = "freed" => list[e] \in fired
    /\ \A e \in active : round => look[e] # "out"
    /\ Over => ~round /\ \A e \in Entries : look[e] = "out"

WatchInv == Rounds /\ TargetsKept

LEMMA WatchInit == Init => WatchInv
<1> SUFFICES ASSUME Init PROVE WatchInv
  OBVIOUS
<1>1. ~Over /\ active = Entries /\ ~round /\ look = [e \in Entries |-> "out"]
  BY DEF Init, Over
<1> QED BY <1>1 DEF WatchInv, Rounds, TargetsKept

\* A step that leaves the rounds alone forgets no name that fired.
LEMMA WatchSame ==
  ASSUME WatchInv, UNCHANGED <<list, proc, round, active, look, cancelled>>,
         fired \subseteq fired'
  PROVE  WatchInv'
BY DEF WatchInv, Rounds, TargetsKept, Over

LEMMA LookKeeps ==
  ASSUME WatchInv, NEW e \in Entries, ~Over, Looks(e), UNCHANGED list
  PROVE  WatchInv'
<1>1. UNCHANGED <<proc, round, active, cancelled>> /\ look[e] \in {"due", "asking"}
  BY DEF Looks, Launch, LookupFails, LookupHeld, LookupFreed, Looked, LookTurns
<1>2. CASE Launch(e) \/ LookupFails(e) \/ LookupHeld(e)
  <2>1. /\ fired' = fired
        /\ \E to \in {"asking", "still"} : look' = [look EXCEPT ![e] = to]
    BY <1>2 DEF Launch, LookupFails, LookupHeld, Looked, LookTurns, claimerVars, jobVars
  <2> QED BY <1>1, <2>1 DEF WatchInv, Rounds, TargetsKept, Over
<1>3. CASE LookupFreed(e)
  <2>1. look' = [look EXCEPT ![e] = "freed"] /\ fired' = fired \cup {list[e]}
    BY <1>3 DEF LookupFreed, Looked, LookTurns, Fire, NotFired, claimerVars, jobVars
  <2> QED BY <1>1, <2>1 DEF WatchInv, Rounds, TargetsKept, Over
<1> QED BY <1>2, <1>3 DEF Looks

\* Only the targets that were seen freed leave the watch.
LEMMA RoundEndKeeps ==
  ASSUME WatchInv, RoundEnd, UNCHANGED list
  PROVE  WatchInv'
<1>1. /\ \A e \in Entries : look[e] # "asking" /\ (look[e] = "due" => cancelled)
      /\ cancelled' = cancelled
      /\ active' = {e \in active : look[e] = "still"} /\ fired' = fired /\ ~Over /\ ~Over'
      /\ round /\ ~round' /\ look' = [e \in Entries |-> "out"]
  BY DEF RoundEnd, claimerVars, jobVars, Over
<1>2. ASSUME ~cancelled, NEW e \in Entries, e \notin active' PROVE list[e] \in fired
  <2>1. CASE e \notin active
    BY <1>1, <1>2, <2>1 DEF WatchInv, TargetsKept
  <2>2. CASE e \in active
    BY <1>1, <1>2, <2>2 DEF WatchInv, Rounds
  <2> QED BY <2>1, <2>2
<1> QED BY <1>1, <1>2 DEF WatchInv, Rounds, TargetsKept

LEMMA WatchNext == WatchInv /\ [Next]_vars => WatchInv'
<1> SUFFICES ASSUME WatchInv, [Next]_vars PROVE WatchInv'
  OBVIOUS
<1>1. CASE RoundBegin /\ UNCHANGED list
  BY <1>1 DEF RoundBegin, WatchInv, Rounds, TargetsKept, Over, claimerVars, jobVars
<1>2. CASE RoundEnd /\ UNCHANGED list
  BY <1>2, RoundEndKeeps
<1>3. CASE (Stops \/ Cancel) /\ UNCHANGED list
  BY <1>3 DEF Stops, Cancel, WatchInv, Rounds, TargetsKept, Over, claimerVars, jobVars
<1>4. CASE (Exit \/ Crash) /\ UNCHANGED list
  BY <1>4 DEF Exit, Crash, Leaves, WatchInv, Rounds, TargetsKept, Over
<1>5. CASE Restart /\ UNCHANGED list
  BY <1>5 DEF Restart, WatchInv, Rounds, TargetsKept, Over, jobVars
<1>6. ASSUME NEW e \in Entries, ~Over, Looks(e), UNCHANGED list PROVE WatchInv'
  BY <1>6, LookKeeps
<1>7. ASSUME NEW e \in Entries, Claims(e) \/ Drops(e), UNCHANGED list PROVE WatchInv'
  <2>1. fired' = fired
    BY <1>7 DEF Claims, Drops, Works, SlotTake, SlotDrop, TakeAccount, NoAccount, Refused,
                GaveUp, Inconclusive, NextAccount, Caught, SaveCollect, SaveWrite, Returns
  <2> QED BY <1>7, <2>1, WatchSame DEF Claims, Drops, watchVars
<1>8. ASSUME NEW n \in Names, TargetFrees(n) \/ OtherTakes(n), UNCHANGED list PROVE WatchInv'
  BY <1>8, WatchSame DEF TargetFrees, OtherTakes, jobVars, watchVars
<1>9. CASE UNCHANGED vars
  BY <1>9, WatchSame DEF vars, claimerVars, jobVars, watchVars
<1> QED BY <1>1, <1>2, <1>3, <1>4, <1>5, <1>6, <1>7, <1>8, <1>9 DEF Next, Steps

\* A target leaves the watch only when its name fired: no failed lookup, no round and
\* no restart loses one (watchid.go, runWatchIDs).
THEOREM TargetsKeptHolds == Spec => []TargetsKept
<1>1. WatchInv => TargetsKept
  BY DEF WatchInv
<1> QED BY WatchInit, WatchNext, <1>1, PTL DEF Spec
-----------------------------------------------------------------------------
\* What Typed and Rounds do not say of the types.
Rest ==
    /\ list \in Lists /\ fired \subseteq Names
    /\ tried \in [Entries -> SUBSET Accounts]
    /\ attempt \in [Entries -> 0 .. Tries]
    /\ inUse \subseteq Accounts
    /\ proc \in {"watching", "stopping", "gone", "killed"}
    /\ round \in BOOLEAN /\ cancelled \in BOOLEAN /\ watchOnce \in BOOLEAN
    /\ runs \in 1 .. MaxRuns

LEMMA RestInit == Init => Rest
<1> SUFFICES ASSUME Init PROVE Rest
  OBVIOUS
<1>1. round \in BOOLEAN /\ cancelled \in BOOLEAN /\ watchOnce \in BOOLEAN
  BY DEF Init
<1>2. /\ fired = {} /\ inUse = {} /\ proc = "watching" /\ list \in Lists /\ runs = 1
      /\ tried = [e \in Entries |-> {}] /\ attempt = [e \in Entries |-> 0]
  BY DEF Init, NoClaims
<1> QED BY <1>1, <1>2, ClaimerAssumption, WatchIDsAssumption DEF Rest

\* A claim's step leaves the watch alone, and takes accounts there are.
LEMMA RestClaims ==
  ASSUME Rest, Typed, NEW e \in Entries, Claims(e) \/ Drops(e), UNCHANGED list
  PROVE  Rest'
<1>1. UNCHANGED <<proc, round, cancelled, watchOnce, runs, list>>
  BY DEF Claims, Drops, watchVars
<1>2. /\ fired' = fired
      /\ tried' \in [Entries -> SUBSET Accounts] /\ attempt' \in [Entries -> 0 .. Tries]
      /\ inUse' \subseteq Accounts
  <2> USE ClaimerAssumption DEF Rest
  <2>1. CASE SlotTake(e) \/ SaveCollect(e) \/ Refused(e)
    BY <2>1 DEF SlotTake, SaveCollect, Refused, NextAccount, GivesBack, acctVars
  <2>2. CASE SlotDrop(e) \/ NoAccount(e) \/ GaveUp(e) \/ SaveWrite(e)
    BY <2>2 DEF SlotDrop, NoAccount, GaveUp, SaveWrite, Returns, GivesBack, acctVars
  <2>3. CASE TakeAccount(e)
    BY <2>3 DEF TakeAccount, Takeable, Typed
  <2>4. CASE Inconclusive(e)
    BY <2>4 DEF Inconclusive, MayRetry, NextAccount, GivesBack, acctVars
  <2>5. CASE Caught(e)
    BY <2>5 DEF Caught, GivesBack
  <2> QED BY <2>1, <2>2, <2>3, <2>4, <2>5 DEF Claims, Drops, Works
<1> QED BY <1>1, <1>2 DEF Rest

LEMMA RestNext == Rest /\ Typed /\ [Next]_vars => Rest'
<1> SUFFICES ASSUME Rest, Typed, [Next]_vars PROVE Rest'
  OBVIOUS
<1> USE DEF Rest, claimerVars, jobVars, acctVars
<1>1. CASE (RoundBegin \/ RoundEnd \/ Stops \/ Cancel) /\ UNCHANGED list
  BY <1>1 DEF RoundBegin, RoundEnd, Stops, Cancel
<1>2. CASE (Exit \/ Crash) /\ UNCHANGED list
  <2>1. proc' \in {"gone", "killed"} /\ round' \in BOOLEAN /\ cancelled' \in BOOLEAN
        /\ UNCHANGED <<watchOnce, runs, list>>
    BY <1>2, Zenon DEF Exit, Crash, Leaves
  <2>2. /\ fired' = {} /\ inUse' = {}
        /\ tried' = [e \in Entries |-> {}] /\ attempt' = [e \in Entries |-> 0]
    BY <1>2 DEF Exit, Crash, Leaves, ForgetsClaims
  <2> QED BY <2>1, <2>2, ClaimerAssumption
<1>3. CASE Restart /\ UNCHANGED list
  BY <1>3, WatchIDsAssumption DEF Restart
<1>4. ASSUME NEW e \in Entries, Looks(e), UNCHANGED list PROVE Rest'
  BY <1>4 DEF Looks, Launch, LookupFails, LookupHeld, LookupFreed, Looked, LookTurns, Fire,
              Typed
<1>5. ASSUME NEW e \in Entries, Claims(e) \/ Drops(e), UNCHANGED list PROVE Rest'
  BY <1>5, RestClaims
<1>6. ASSUME NEW n \in Names, TargetFrees(n) \/ OtherTakes(n), UNCHANGED list PROVE Rest'
  BY <1>6 DEF TargetFrees, OtherTakes, watchVars
<1>7. CASE UNCHANGED vars
  BY <1>7 DEF vars, watchVars
<1> QED BY <1>1, <1>2, <1>3, <1>4, <1>5, <1>6, <1>7 DEF Next, Steps

\* Every variable keeps its type (watchid.go, hook.go and claimer.go).
THEOREM TypeCorrect == Spec => []TypeOK
<1>1. ClaimsInv => Typed
  BY DEF ClaimsInv
<1>2. Typed /\ WatchInv /\ Rest => TypeOK
  BY DEF Typed, WatchInv, Rounds, Rest, TypeOK, ClaimerTypeOK
<1> QED
  BY ClaimsAlways, WatchInit, WatchNext, RestInit, RestNext, <1>1, <1>2, PTL DEF Spec
=============================================================================
