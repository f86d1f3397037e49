------------------------------ MODULE Worklist ------------------------------
(***************************************************************************)
(* The live set of names being checked (worklist.go).  Every operation the *)
(* code runs under the list's mutex is one operator here; the module that  *)
(* EXTENDS this one says who calls it.  A name stands for its lower-cased  *)
(* key, the form in which the code compares names.                         *)
(***************************************************************************)
EXTENDS Naturals, Sequences, FiniteSets

CONSTANTS
    Names,      \* every name that may ever stand in the usernames file
    Starts,     \* the (names, cycle) pairs main may hand to newWorklist
    EditLists   \* what a re-read of an edited usernames file may hold

Injective(s) == \A i, j \in DOMAIN s : s[i] = s[j] => i = j

\* loadLines drops a repeated line and watchList ignores an empty file, so an
\* edited list has no duplicates.  A starting list may: main strips the ":id"
\* suffix after loadLines has removed the duplicates.
ASSUME WorklistAssumption ==
    /\ Starts \subseteq [list : Seq(Names) \ {<<>>}, cycle : BOOLEAN]
    /\ EditLists \subseteq {l \in Seq(Names) : l # <<>> /\ Injective(l)}

VARIABLES
    names,      \* w.names
    retired,    \* the keys of w.retired
    live,       \* w.live
    retireGen,  \* w.retireGen
    cycle,      \* w.cycle: loop mode?
    pos,        \* w.pos, the rotation cursor (0-based)
    next,       \* w.next, the one-way cursor (0-based)
    closed,     \* w.closed
    staged      \* replace's local state between its two critical sections

wlVars == <<names, retired, live, retireGen, cycle, pos, next, closed, staged>>

NoReplace == [list |-> <<>>, retired |-> {}, gen |-> 0]

WorklistInit ==
    /\ \E start \in Starts :
          names = start.list /\ live = Len(start.list) /\ cycle = start.cycle
    /\ retired = {}
    /\ retireGen = 0
    /\ pos = 0 /\ next = 0
    /\ closed = FALSE
    /\ staged = NoReplace

\* The entries a list of names contributes to w.live, given who is retired.
Unretired(list, gone) == {i \in DOMAIN list : list[i] \notin gone}
Watched == Unretired(names, retired)
-----------------------------------------------------------------------------
\* Mutant of CyclingClaim: the cursor does not move.
CyclingClaimStuck(n) ==
    \E idx \in Watched :
        /\ \A other \in Watched : other > pos => idx > pos /\ idx <= other
        /\ n = names[idx] /\ UNCHANGED <<pos, next>>

\* claim, cycling: the first unretired entry at or after the cursor, going round.
CyclingClaim(n) ==
    \E idx \in Watched :
        /\ \A other \in Watched :
              IF idx > pos THEN other > pos => idx <= other
                           ELSE other <= pos /\ idx <= other
        /\ n = names[idx]
        /\ pos' = IF idx >= Len(names) THEN 0 ELSE idx
        /\ UNCHANGED next

\* claim, single pass: the first unretired entry not yet handed out.
SinglePassClaim(n) ==
    \E idx \in Watched :
        /\ idx > next
        /\ \A other \in Watched : other > next => idx <= other
        /\ n = names[idx]
        /\ next' = idx
        /\ UNCHANGED pos

\* Mutant of Claim: it forgets that the list was closed or the run cancelled.
ClaimAfterStop(n, stopped) ==
    /\ live # 0
    /\ IF cycle THEN CyclingClaim(n) ELSE SinglePassClaim(n)
    /\ UNCHANGED <<names, retired, live, retireGen, cycle, closed, staged>>

\* claim returned (n, true).
Claim(n, stopped) ==
    /\ ~closed /\ ~stopped /\ live # 0
    /\ IF cycle THEN CyclingClaim(n) ELSE SinglePassClaim(n)
    /\ UNCHANGED <<names, retired, live, retireGen, cycle, closed, staged>>

\* claim returned ("", false): closed, cancelled or nothing live, or no entry
\* was left to hand out (the single-pass cursor then stands at the end).
NothingToHandOut == IF cycle THEN Watched = {} ELSE \A i \in Watched : i <= next
ClaimRefused(stopped) ==
    /\ closed \/ stopped \/ live = 0 \/ NothingToHandOut
    /\ next' = IF closed \/ stopped \/ live = 0 \/ cycle THEN next ELSE Len(names)
    /\ UNCHANGED <<names, retired, live, retireGen, cycle, pos, closed, staged>>

\* retire: forget a name for good.  live drops whether or not names holds it.
Retire(n) ==
    /\ retired' = retired \cup {n}
    /\ IF n \in retired
       THEN UNCHANGED <<live, retireGen>>
       ELSE /\ retireGen' = retireGen + 1
            /\ live' = IF live > 0 THEN live - 1 ELSE 0
    /\ UNCHANGED <<names, cycle, pos, next, closed, staged>>

\* replace, first critical section: copy the retired set and its generation.
ReplaceBegin(list) ==
    /\ staged = NoReplace
    /\ staged' = [list |-> list, retired |-> retired, gen |-> retireGen]
    /\ UNCHANGED <<names, retired, live, retireGen, cycle, pos, next, closed>>

\* Mutant of ReplaceCount: trust the count even if a name was retired meanwhile.
ReplaceCountTrusted == Cardinality(Unretired(staged.list, staged.retired))

\* The count replace installs: the one taken outside the lock, unless a name was
\* retired meanwhile.
ReplaceCount ==
    IF staged.gen = retireGen
    THEN Cardinality(Unretired(staged.list, staged.retired))
    ELSE Cardinality(Unretired(staged.list, retired))

\* replace, second critical section: swap the list in.
ReplaceSwap ==
    /\ staged # NoReplace
    /\ names' = staged.list
    /\ live' = ReplaceCount
    /\ pos' = IF pos >= Len(staged.list) THEN 0 ELSE pos
    /\ staged' = NoReplace
    /\ UNCHANGED <<retired, retireGen, cycle, next, closed>>

Close ==
    /\ closed' = TRUE
    /\ UNCHANGED <<names, retired, live, retireGen, cycle, pos, next, staged>>
-----------------------------------------------------------------------------
WorklistTypeOK ==
    /\ names \in Seq(Names)
    /\ retired \subseteq Names
    /\ live \in Nat /\ retireGen \in Nat
    /\ cycle \in BOOLEAN /\ closed \in BOOLEAN
    /\ pos \in Nat /\ pos < Len(names)
    /\ next \in Nat /\ (~cycle => next <= Len(names))
    /\ staged \in [list : Seq(Names), retired : SUBSET Names, gen : Nat]
=============================================================================
