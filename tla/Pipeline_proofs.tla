--------------------------- MODULE Pipeline_proofs ---------------------------
(***************************************************************************)
(* Proofs about Pipeline: type correctness, one report per found name, the *)
(* bound on the count that ends a run, and a single pass that misses and   *)
(* repeats none.                                                           *)
(***************************************************************************)
EXTENDS Pipeline, FiniteSetTheorems, TLAPS

\* replace's local state is either absent or holds a list a re-read produced.
StagedOK == staged = NoReplace \/ staged.list \in EditLists

TypeInv == TypeOK /\ StagedOK

LEMMA NoResultType == Names # {} => NoResult \in Results
BY DEF NoResult, Results, Statuses

LEMMA NamesNonEmpty == names \in Seq(Names) /\ pos \in Nat /\ pos < Len(names) => Names # {}
<1> SUFFICES ASSUME names \in Seq(Names), pos \in Nat, pos < Len(names) PROVE Names # {}
  OBVIOUS
<1>1. names[1] \in Names
  OBVIOUS
<1> QED BY <1>1

\* Every operation on the worklist keeps its fields in their types.
LEMMA ClaimType ==
  ASSUME WorklistTypeOK, StagedOK, NEW n \in Names, NEW stopped, Claim(n, stopped)
  PROVE  WorklistTypeOK' /\ StagedOK'
BY DEF WorklistTypeOK, StagedOK, Claim, CyclingClaim, SinglePassClaim, Watched,
       Unretired, NoReplace

LEMMA RefusedType ==
  ASSUME WorklistTypeOK, StagedOK, NEW stopped, ClaimRefused(stopped)
  PROVE  WorklistTypeOK' /\ StagedOK'
BY DEF WorklistTypeOK, StagedOK, ClaimRefused, NoReplace

LEMMA RetireType ==
  ASSUME WorklistTypeOK, StagedOK, NEW n \in Names, Retire(n)
  PROVE  WorklistTypeOK' /\ StagedOK'
BY DEF WorklistTypeOK, StagedOK, Retire, NoReplace

LEMMA ReplaceCountType == WorklistTypeOK /\ StagedOK => ReplaceCount \in Nat
<1> SUFFICES ASSUME WorklistTypeOK PROVE ReplaceCount \in Nat
  OBVIOUS
<1>1. \A gone : /\ IsFiniteSet(Unretired(staged.list, gone))
                /\ Cardinality(Unretired(staged.list, gone)) \in Nat
  <2> TAKE gone
  <2>1. IsFiniteSet(1 .. Len(staged.list))
    BY FS_Interval DEF WorklistTypeOK
  <2>2. Unretired(staged.list, gone) \subseteq 1 .. Len(staged.list)
    BY DEF WorklistTypeOK, Unretired
  <2> QED BY <2>1, <2>2, FS_Subset, FS_CardinalityType
<1> QED BY <1>1 DEF ReplaceCount

LEMMA ReplaceType ==
  ASSUME WorklistTypeOK, StagedOK
  PROVE  /\ \A list \in EditLists : ReplaceBegin(list) => WorklistTypeOK' /\ StagedOK'
         /\ cycle /\ ReplaceSwap => WorklistTypeOK' /\ StagedOK'
<1>1. ASSUME NEW list \in EditLists, ReplaceBegin(list)
      PROVE  WorklistTypeOK' /\ StagedOK'
  BY <1>1, WorklistAssumption DEF WorklistTypeOK, StagedOK, ReplaceBegin
<1>2. ASSUME cycle, ReplaceSwap
      PROVE  WorklistTypeOK' /\ StagedOK'
  <2>1. staged.list \in Seq(Names) /\ Len(staged.list) > 0
    BY <1>2, WorklistAssumption DEF StagedOK, ReplaceSwap
  <2> QED
    BY <1>2, <2>1, ReplaceCountType DEF WorklistTypeOK, StagedOK, ReplaceSwap, NoReplace
<1> QED BY <1>1, <1>2

\* The watcher's list is swapped in only in loop mode.
StagedInLoop == staged # NoReplace => cycle

LEMMA TypeInit == Init => TypeInv /\ StagedInLoop
<1> SUFFICES ASSUME Init PROVE TypeInv /\ StagedInLoop
  OBVIOUS
<1>1. WorklistTypeOK /\ StagedOK /\ StagedInLoop
  <2>1. PICK start \in Starts :
          names = start.list /\ live = Len(start.list) /\ cycle = start.cycle
    BY DEF Init, WorklistInit
  <2>2. names \in Seq(Names) /\ names # <<>> /\ cycle \in BOOLEAN /\ live = Len(names)
    BY <2>1, WorklistAssumption
  <2>3. Len(names) > 0 /\ live \in Nat
    BY <2>2
  <2>4. staged \in [list : Seq(Names), retired : SUBSET Names, gen : Nat]
    BY DEF Init, WorklistInit, NoReplace
  <2>5. pos = 0 /\ next = 0 /\ retireGen = 0 /\ retired = {} /\ closed = FALSE
        /\ staged = NoReplace
    BY DEF Init, WorklistInit
  <2>6. WorklistTypeOK
    <3>1. pos \in Nat /\ next \in Nat /\ retireGen \in Nat /\ pos < Len(names) /\ next <= Len(names)
      BY <2>2, <2>3, <2>5
    <3>2. closed \in BOOLEAN /\ retired \subseteq Names
      BY <2>5
    <3> QED BY <2>2, <2>3, <2>4, <3>1, <3>2 DEF WorklistTypeOK
  <2> QED
    BY <2>5, <2>6 DEF StagedOK, StagedInLoop
<1>2. handling \in Results
  BY <1>1, NamesNonEmpty, NoResultType DEF Init, WorklistTypeOK
<1>3. found \in [Names -> 0 .. CountCap] /\ others \in [Names -> 0 .. CountCap]
  BY PipelineAssumption DEF Init
<1>4. results \in Seq(Results) /\ edits \in 0 .. MaxEdits
  BY PipelineAssumption DEF Init
<1>5. at \in [Workers -> Names \cup {Idle, Gone}]
  BY DEF Init
<1> QED BY <1>1, <1>2, <1>3, <1>4, <1>5 DEF Init, TypeInv, TypeOK

LEMMA BumpType ==
  ASSUME NEW f \in [Names -> 0 .. CountCap], NEW n \in Names
  PROVE  Bump(f, n) \in [Names -> 0 .. CountCap]
BY PipelineAssumption DEF Bump

LEMMA TypeNext == TypeInv /\ StagedInLoop /\ [Next]_vars => TypeInv' /\ StagedInLoop'
<1> SUFFICES ASSUME TypeInv, StagedInLoop, [Next]_vars PROVE TypeInv' /\ StagedInLoop'
  OBVIOUS
<1> USE DEF TypeInv, StagedInLoop
<1>1. ASSUME NEW w \in Workers, WorkerClaim(w) PROVE TypeInv' /\ StagedInLoop'
  <2>1. PICK n \in Names : Claim(n, cancelled) /\ at' = [at EXCEPT ![w] = n]
    BY <1>1 DEF WorkerClaim
  <2>2. WorklistTypeOK' /\ StagedOK'
    BY <2>1, ClaimType DEF TypeOK
  <2> QED BY <1>1, <2>1, <2>2 DEF TypeOK, WorkerClaim, Claim
<1>2. ASSUME NEW w \in Workers, WorkerRefused(w) PROVE TypeInv' /\ StagedInLoop'
  <2>1. WorklistTypeOK' /\ StagedOK'
    BY <1>2, RefusedType DEF TypeOK, WorkerRefused
  <2> QED BY <1>2, <2>1 DEF TypeOK, WorkerRefused, ClaimRefused
<1>3. ASSUME NEW w \in Workers, WorkerSend(w) PROVE TypeInv' /\ StagedInLoop'
  <2>1. PICK s \in Verdicts(at[w]) :
          results' = Append(results, [name |-> at[w], status |-> s])
    BY <1>3 DEF WorkerSend
  <2>2. [name |-> at[w], status |-> s] \in Results
    BY <1>3, <2>1 DEF WorkerSend, Verdicts, Results, Statuses
  <2>3. results' \in Seq(Results)
    BY <2>1, <2>2 DEF TypeOK
  <2>4. WorklistTypeOK' /\ StagedOK' /\ StagedInLoop'
    BY <1>3 DEF WorkerSend, TypeOK, wlVars, WorklistTypeOK, StagedOK
  <2> QED BY <1>3, <2>3, <2>4 DEF TypeOK, WorkerSend
<1>4. ASSUME NEW w \in Workers, WorkerAbandon(w) PROVE TypeInv' /\ StagedInLoop'
  BY <1>4 DEF TypeOK, WorkerAbandon, wlVars, WorklistTypeOK, StagedOK
<1>5. CASE WriterReceive
  <2>1. Head(results) \in Results /\ Head(results).name \in Names /\ results' \in Seq(Results)
    <3>1. results \in Seq(Results) /\ results # <<>> /\ results' = Tail(results)
      BY <1>5 DEF TypeOK, WriterReceive
    <3>2. Head(results) \in Results /\ results' \in Seq(Results)
      BY <3>1
    <3> QED BY <3>2 DEF Results
  <2>2. Bump(found, Head(results).name) \in [Names -> 0 .. CountCap]
        /\ Bump(others, Head(results).name) \in [Names -> 0 .. CountCap]
    BY <2>1, BumpType DEF TypeOK
  <2>3. NoResult \in Results
    BY NamesNonEmpty, NoResultType DEF TypeOK, WorklistTypeOK
  <2>4. WorklistTypeOK' /\ StagedOK' /\ StagedInLoop'
    BY <1>5 DEF WriterReceive, TypeOK, wlVars, WorklistTypeOK, StagedOK
  <2> QED BY <1>5, <2>1, <2>2, <2>3, <2>4 DEF TypeOK, WriterReceive
<1>6. CASE WriterRetire
  <2>1. WorklistTypeOK' /\ StagedOK'
    BY <1>6, RetireType DEF TypeOK, WriterRetire, Results
  <2>2. NoResult \in Results
    BY NamesNonEmpty, NoResultType DEF TypeOK, WorklistTypeOK
  <2> QED BY <1>6, <2>1, <2>2 DEF TypeOK, WriterRetire, Retire
<1>7. CASE WriterClose
  BY <1>7 DEF TypeOK, WriterClose, Close, WorklistTypeOK, StagedOK
<1>8. CASE WriterReturn
  BY <1>8 DEF TypeOK, WriterReturn, wlVars, WorklistTypeOK, StagedOK
<1>9. CASE Cancel
  BY <1>9 DEF TypeOK, Cancel, wlVars, WorklistTypeOK, StagedOK
<1>g. CASE GuardCloses \/ GuardHalts
  BY <1>g DEF TypeOK, GuardCloses, GuardHalts, Close, wlVars, WorklistTypeOK, StagedOK
<1>10. CASE CancelCloses
  BY <1>10 DEF TypeOK, CancelCloses, Close, pipeVars, WorklistTypeOK, StagedOK
<1>11. CASE CloseResults
  BY <1>11 DEF TypeOK, CloseResults, wlVars, WorklistTypeOK, StagedOK
<1>12. CASE WatcherBegin
  <2>1. PICK list \in EditLists : ReplaceBegin(list)
    BY <1>12 DEF WatcherBegin
  <2>2. WorklistTypeOK' /\ StagedOK'
    BY <2>1, ReplaceType DEF TypeOK
  <2> QED BY <1>12, <2>1, <2>2, PipelineAssumption DEF TypeOK, WatcherBegin, ReplaceBegin
<1>13. CASE WatcherSwap
  <2>1. WorklistTypeOK' /\ StagedOK'
    BY <1>13, ReplaceType DEF TypeOK, WatcherSwap, ReplaceSwap
  <2> QED BY <1>13, <2>1 DEF TypeOK, WatcherSwap, ReplaceSwap, pipeVars
<1>14. CASE UNCHANGED vars
  BY <1>14 DEF TypeOK, vars, wlVars, pipeVars, WorklistTypeOK, StagedOK
<1> QED
  BY <1>1, <1>2, <1>3, <1>4, <1>5, <1>6, <1>7, <1>8, <1>9, <1>g, <1>10, <1>11, <1>12,
     <1>13, <1>14 DEF Next, Done

\* Every variable of the pipeline keeps its type for every set of names and workers,
\* every starting list and every edit: in particular the rotation cursor of claim
\* never leaves the list, though replace may shorten it under the cursor.
THEOREM TypeCorrect == Spec => []TypeOK
<1>1. TypeInv => TypeOK
  BY DEF TypeInv
<1> QED BY TypeInit, TypeNext, <1>1, PTL DEF Spec
-----------------------------------------------------------------------------
\* A name counted as found has left the rotation, or is about to: the writer holds
\* its result between handleResult and retire, and receives nothing meanwhile.
FoundInv ==
    \A n \in Names :
        /\ found[n] \in {0, 1}
        /\ found[n] = 1 =>
              \/ n \in retired
              \/ /\ writer = "retiring"
                 /\ handling.name = n /\ handling.status = "available"

\* Only the writer touches what FoundInv speaks of.
LEMMA OthersKeepFound ==
  ASSUME [Next]_vars, ~WriterReceive, ~WriterRetire, writer' = writer \/ writer # "retiring"
  PROVE  UNCHANGED <<found, handling, retired>>
BY DEF Next, vars, wlVars, pipeVars, Done, WorkerClaim, WorkerRefused, WorkerSend,
       WorkerAbandon, WriterClose, WriterReturn, Cancel, GuardCloses, GuardHalts,
       CancelCloses, CloseResults,
       WatcherBegin, WatcherSwap, Claim, ClaimRefused, Close, ReplaceBegin, ReplaceSwap

LEMMA FoundNext == TypeInv /\ FoundInv /\ [Next]_vars => FoundInv'
<1> SUFFICES ASSUME TypeInv, FoundInv, [Next]_vars PROVE FoundInv'
  OBVIOUS
<1> USE DEF TypeInv
<1>1. CASE WriterReceive
  <2> DEFINE res == Head(results)
  <2>1. res \in Results /\ res.name \in Names
    <3>1. results \in Seq(Results) /\ results # <<>>
      BY <1>1 DEF TypeOK, WriterReceive
    <3>2. res \in Results
      BY <3>1
    <3> QED BY <3>2 DEF Results
  <2>2. retired' = retired /\ writer = "receiving"
    BY <1>1 DEF WriterReceive, wlVars
  <2>3. CASE Stale(res.name)
    BY <1>1, <2>2, <2>3 DEF FoundInv, WriterReceive
  <2>4. CASE ~Stale(res.name) /\ res.status = "available"
    <3>1. /\ found' = Bump(found, res.name)
          /\ handling' = res /\ writer' = "retiring"
      BY <1>1, <2>4 DEF WriterReceive
    <3>2. found[res.name] = 0
      BY <2>1, <2>2, <2>4 DEF FoundInv, Stale
    <3>3. found' = [found EXCEPT ![res.name] = 1]
      <4> HIDE DEF res
      <4>1. (IF found[res.name] < CountCap THEN found[res.name] + 1 ELSE found[res.name]) = 1
        BY <3>2, PipelineAssumption
      <4> QED BY <3>1, <4>1 DEF Bump
    <3> QED BY <2>1, <2>2, <2>4, <3>1, <3>3 DEF FoundInv, TypeOK
  <2>5. CASE ~Stale(res.name) /\ res.status # "available"
    BY <1>1, <2>2, <2>5 DEF FoundInv, WriterReceive
  <2> QED BY <2>3, <2>4, <2>5
<1>2. CASE WriterRetire
  BY <1>2 DEF FoundInv, WriterRetire, Retire
<1>3. CASE ~WriterReceive /\ ~WriterRetire
  <2>1. writer' = writer \/ writer # "retiring"
    BY <1>3 DEF Next, vars, wlVars, pipeVars, Done, WorkerClaim, WorkerRefused, WorkerSend,
       WorkerAbandon, WriterClose, WriterReturn, Cancel, GuardCloses, GuardHalts,
       CancelCloses, CloseResults,
       WatcherBegin, WatcherSwap
  <2> QED BY <1>3, <2>1, OthersKeepFound DEF FoundInv
<1> QED BY <1>1, <1>2, <1>3

\* However many copies of a check are in flight, one name is counted, logged, hooked
\* and webhooked as available at most once (main.go, runWriter).
THEOREM FoundOnceHolds == Spec => []FoundOnce
<1>1. Init => FoundInv
  BY DEF Init, FoundInv
<1>2. FoundInv => FoundOnce
  BY DEF FoundInv, FoundOnce
<1> QED BY TypeInit, TypeNext, FoundNext, <1>1, <1>2, PTL DEF Spec
-----------------------------------------------------------------------------
\* What SinglePassExact needs of main's shutdown order: the channel is closed when no
\* worker is left to send, and a returned worker never comes back.
NoSendOnClosed == resultsClosed => \A w \in Workers : at[w] = Gone

LEMMA ClosedLast == Spec => []NoSendOnClosed
<1>1. Init => NoSendOnClosed
  BY DEF Init, NoSendOnClosed
<1>2. TypeOK /\ NoSendOnClosed /\ [Next]_vars => NoSendOnClosed'
  BY PipelineAssumption
  DEF Next, vars, wlVars, pipeVars, Done, NoSendOnClosed, TypeOK, WorkerClaim, WorkerRefused,
      WorkerSend, WorkerAbandon, WriterReceive, WriterRetire, WriterClose, WriterReturn,
      Cancel, GuardCloses, GuardHalts,
       CancelCloses, CloseResults, WatcherBegin, WatcherSwap
<1> QED BY TypeCorrect, <1>1, <1>2, PTL DEF Spec
-----------------------------------------------------------------------------
\* No name stands twice in a list the run starts with.
NoDuplicateStarts == \A start \in Starts : Injective(start.list)

LiveInv ==
    /\ Injective(names)
    /\ staged # NoReplace =>
          /\ staged.gen <= retireGen
          /\ staged.gen = retireGen => staged.retired = retired
    /\ LiveNeverOver

LEMMA UnretiredFinite ==
  ASSUME NEW list \in Seq(Names), NEW gone
  PROVE  IsFiniteSet(Unretired(list, gone)) /\ Cardinality(Unretired(list, gone)) \in Nat
<1>1. IsFiniteSet(1 .. Len(list)) /\ Unretired(list, gone) \subseteq 1 .. Len(list)
  BY FS_Interval DEF Unretired
<1> QED BY <1>1, FS_Subset, FS_CardinalityType

\* In a list without duplicates a retirement takes at most one entry out.
LEMMA RetireDropsOne ==
  ASSUME NEW list \in Seq(Names), Injective(list), NEW gone, NEW n
  PROVE  Cardinality(Unretired(list, gone)) <= Cardinality(Unretired(list, gone \cup {n})) + 1
<1> DEFINE W == Unretired(list, gone)
           V == Unretired(list, gone \cup {n})
<1>1. IsFiniteSet(W) /\ Cardinality(W) \in Nat /\ Cardinality(V) \in Nat
  BY UnretiredFinite
<1>2. CASE \E i \in W : list[i] = n
  <2>1. PICK i \in W : list[i] = n
    BY <1>2
  <2>2. V = W \ {i}
    BY <2>1 DEF Unretired, Injective
  <2>3. Cardinality(V) = Cardinality(W) - 1
    BY <1>1, <2>1, <2>2, FS_RemoveElement
  <2> QED BY <1>1, <2>3
<1>3. CASE ~ \E i \in W : list[i] = n
  <2>1. V = W
    BY <1>3 DEF Unretired
  <2> QED BY <1>1, <2>1
<1> QED BY <1>2, <1>3

LEMMA UpToCardinality == ASSUME NEW k \in Nat PROVE Cardinality(1 .. k) = k
<1>1. Cardinality(1 .. k) = IF 1 > k THEN 0 ELSE k - 1 + 1
  <2>1. 1 \in Int /\ k \in Int
    OBVIOUS
  <2> QED BY ONLY <2>1, FS_Interval
<1> QED BY <1>1

LEMMA LiveInit == NoDuplicateStarts /\ Init => LiveInv
<1> SUFFICES ASSUME NoDuplicateStarts, Init PROVE LiveInv
  OBVIOUS
<1>1. PICK start \in Starts : names = start.list /\ live = Len(start.list)
  BY DEF Init, WorklistInit
<1>2. names \in Seq(Names) /\ Injective(names) /\ live = Len(names)
  BY <1>1, WorklistAssumption DEF NoDuplicateStarts
<1>3. Watched = 1 .. Len(names)
  BY <1>2 DEF Init, WorklistInit, Watched, Unretired
<1>4. live <= Cardinality(Watched)
  <2>1. Len(names) \in Nat
    BY <1>2
  <2>2. Cardinality(1 .. Len(names)) = Len(names)
    BY <2>1, UpToCardinality
  <2> QED BY <1>2, <1>3, <2>1, <2>2
<1> QED BY <1>2, <1>4 DEF Init, WorklistInit, LiveInv, LiveNeverOver

LEMMA LiveRetire ==
  ASSUME TypeInv, LiveInv, NEW n \in Names, Retire(n)
  PROVE  LiveInv'
<1>1. CASE n \in retired
  BY <1>1 DEF LiveInv, LiveNeverOver, Retire, Watched, Unretired
<1>2. CASE n \notin retired
  <2>1. names \in Seq(Names) /\ Injective(names) /\ live \in Nat /\ retireGen \in Nat
    BY DEF TypeInv, TypeOK, WorklistTypeOK, LiveInv
  <2>2. Watched' = Unretired(names, retired \cup {n})
    BY DEF Retire, Watched, Unretired
  <2>3. Cardinality(Watched) <= Cardinality(Watched') + 1
    BY <2>1, <2>2, RetireDropsOne DEF Watched
  <2>4. Cardinality(Watched) \in Nat /\ Cardinality(Watched') \in Nat
    BY <2>1, <2>2, UnretiredFinite DEF Watched
  <2>5. live' = IF live > 0 THEN live - 1 ELSE 0
    BY <1>2 DEF Retire
  <2>6. LiveNeverOver'
    BY <2>1, <2>3, <2>4, <2>5 DEF LiveInv, LiveNeverOver
  <2>7. retireGen' = retireGen + 1 /\ UNCHANGED <<names, staged>>
    BY <1>2 DEF Retire
  <2>8. staged.gen \in Nat
    BY DEF TypeInv, TypeOK, WorklistTypeOK
  <2>9. (staged # NoReplace => staged.gen < retireGen')
    BY <2>1, <2>7, <2>8 DEF LiveInv
  <2>10. (staged.gen < retireGen' => staged.gen <= retireGen' /\ staged.gen # retireGen')
    BY <2>1, <2>7, <2>8
  <2> QED BY <2>1, <2>6, <2>7, <2>9, <2>10 DEF LiveInv, Injective, NoReplace
<1> QED BY <1>1, <1>2

LEMMA LiveSwap ==
  ASSUME TypeInv, LiveInv, ReplaceSwap
  PROVE  LiveInv'
<1>1. staged.list \in Seq(Names) /\ Injective(staged.list)
  BY WorklistAssumption DEF TypeInv, StagedOK, ReplaceSwap
<1>2. ReplaceCount = Cardinality(Unretired(staged.list, retired))
  <2>1. staged # NoReplace
    BY DEF ReplaceSwap
  <2>2. staged.gen = retireGen => staged.retired = retired
    BY <2>1 DEF LiveInv
  <2> QED BY <2>2 DEF ReplaceCount
<1>3. Watched' = Unretired(staged.list, retired)
  BY DEF ReplaceSwap, Watched, Unretired
<1>4. Cardinality(Unretired(staged.list, retired)) \in Nat
  BY <1>1, UnretiredFinite
<1>5. LiveNeverOver'
  BY <1>2, <1>3, <1>4 DEF ReplaceSwap, LiveNeverOver
<1> QED BY <1>1, <1>5 DEF LiveInv, ReplaceSwap, Injective

LEMMA LiveNext == TypeInv /\ LiveInv /\ [Next]_vars => LiveInv'
<1> SUFFICES ASSUME TypeInv, LiveInv, [Next]_vars PROVE LiveInv'
  OBVIOUS
<1>1. CASE WriterRetire
  <2>1. handling.name \in Names
    BY DEF TypeInv, TypeOK, Results
  <2> QED BY <1>1, <2>1, LiveRetire DEF WriterRetire
<1>2. CASE WatcherSwap
  BY <1>2, LiveSwap DEF WatcherSwap
<1>3. CASE WatcherBegin
  <2>1. UNCHANGED <<names, retired, live, retireGen>>
        /\ staged'.gen = retireGen /\ staged'.retired = retired
    BY <1>3 DEF WatcherBegin, ReplaceBegin
  <2>2. retireGen \in Nat
    BY DEF TypeInv, TypeOK, WorklistTypeOK
  <2> QED BY <2>1, <2>2 DEF LiveInv, LiveNeverOver, Watched, Unretired, Injective
<1>4. CASE ~WriterRetire /\ ~WatcherSwap /\ ~WatcherBegin
  <2>1. UNCHANGED <<names, retired, live, retireGen, staged>>
    BY <1>4 DEF Next, vars, wlVars, Done, WorkerClaim, WorkerRefused, WorkerSend,
       WorkerAbandon, WriterReceive, WriterClose, WriterReturn, Cancel, GuardCloses, GuardHalts,
         CancelCloses,
       CloseResults, Claim, ClaimRefused, Close
  <2> QED BY <2>1 DEF LiveInv, LiveNeverOver, Watched, Unretired, Injective, NoReplace
<1> QED BY <1>1, <1>2, <1>3, <1>4

\* When no starting list repeats a name, the count that ends the run never exceeds
\* the entries left to watch, whatever retirement lands between the two critical
\* sections of replace (worklist.go, retire and replace).
THEOREM LiveNeverOverHolds == NoDuplicateStarts => (Spec => []LiveNeverOver)
<1>1. LiveInv => LiveNeverOver
  BY DEF LiveInv
<1> QED BY TypeInit, TypeNext, LiveInit, LiveNext, <1>1, PTL DEF Spec
-----------------------------------------------------------------------------
\* A single pass.  Every name handed out is with one worker, once in the channel, or
\* handled once; one not handed out is nowhere.
HandedOut(n) == \E i \in DOMAIN names : i <= next /\ names[i] = n
Handled(n) == found[n] + others[n]
Asked(n) == \E w \in Workers : at[w] = n
Queued(n) == \E j \in DOMAIN results : results[j].name = n

Flow ==
    /\ Injective(names)
    /\ \A n \in Names : Handled(n) \in {0, 1} /\ (Handled(n) = 1 => HandedOut(n))
    /\ \A n \in Names : Asked(n) \/ Queued(n) => HandedOut(n) /\ Handled(n) = 0
    /\ \A v, w \in Workers : at[v] \in Names /\ at[v] = at[w] => v = w
    /\ \A j, k \in DOMAIN results : results[j].name = results[k].name => j = k
    /\ \A n \in Names : ~(Asked(n) /\ Queued(n))
    /\ \A n \in retired : Handled(n) = 1
    /\ writer = "retiring" => handling.name \notin retired /\ Handled(handling.name) = 1

\* Nothing handed out is lost, and a worker leaves only when all is handed out.
Coverage ==
    ~Halted =>
        /\ \A n \in Names : HandedOut(n) => Asked(n) \/ Queued(n) \/ Handled(n) = 1
        /\ (\E w \in Workers : at[w] = Gone) => \A i \in DOMAIN names : i <= next

\* The list is closed when no name is left; the channel is drained before the writer
\* leaves.
Ending ==
    /\ live = Cardinality(Watched)
    /\ writer = "closing" \/ (closed /\ ~Halted) => Watched = {}
    /\ writer = "gone" => resultsClosed /\ results = <<>>

SinglePassInv == ~cycle => Flow /\ Coverage /\ Ending

LEMMA SinglePassInit == NoDuplicateStarts /\ Init => SinglePassInv
<1> SUFFICES ASSUME NoDuplicateStarts, Init PROVE SinglePassInv
  OBVIOUS
<1>1. PICK start \in Starts : names = start.list /\ live = Len(start.list)
  BY DEF Init, WorklistInit
<1>2. names \in Seq(Names) /\ Injective(names) /\ live = Len(names)
  BY <1>1, WorklistAssumption DEF NoDuplicateStarts
<1>3. /\ next = 0 /\ retired = {} /\ results = <<>> /\ writer = "receiving" /\ ~closed
      /\ at = [w \in Workers |-> Idle] /\ \A n \in Names : found[n] = 0 /\ others[n] = 0
  BY DEF Init, WorklistInit
<1>4. \A n \in Names : Handled(n) = 0 /\ ~Queued(n) /\ ~Asked(n) /\ ~HandedOut(n)
  BY <1>2, <1>3, PipelineAssumption DEF Handled, Queued, Asked, HandedOut
<1>5. Flow
  BY <1>2, <1>3, <1>4, PipelineAssumption DEF Flow
<1>6. Coverage
  BY <1>3, <1>4, PipelineAssumption DEF Coverage, Halted
<1>7. Ending
  <2>1. Watched = 1 .. Len(names) /\ Len(names) \in Nat
    BY <1>2, <1>3 DEF Watched, Unretired
  <2> QED BY <1>2, <1>3, <2>1, UpToCardinality DEF Ending, Halted
<1> QED BY <1>5, <1>6, <1>7 DEF SinglePassInv

\* A step of a worker that hands nothing out and nothing on.
LEMMA FlowSame ==
  ASSUME Flow, UNCHANGED <<names, retired, results, writer, handling, found, others>>,
         \A n \in Names : Asked(n)' => Asked(n),
         \A n \in Names : HandedOut(n)' <=> HandedOut(n),
         \A v, w \in Workers : at'[v] \in Names /\ at'[v] = at'[w] => v = w
  PROVE  Flow'
<1>1. \A n : Handled(n)' = Handled(n) /\ (Queued(n)' <=> Queued(n))
  BY DEF Handled, Queued
<1>2. Injective(names)'
  BY DEF Flow, Injective
<1>3. \A n \in Names : Handled(n)' \in {0, 1} /\ (Handled(n)' = 1 => HandedOut(n)')
  BY <1>1 DEF Flow
<1>4. \A n \in Names : Asked(n)' \/ Queued(n)' => HandedOut(n)' /\ Handled(n)' = 0
  BY <1>1 DEF Flow
<1>5. \A n \in Names : ~(Asked(n)' /\ Queued(n)')
  BY <1>1 DEF Flow
<1>6. (\A n \in retired : Handled(n) = 1)'
  BY DEF Flow, Handled
<1>7. (writer = "retiring" => handling.name \notin retired /\ Handled(handling.name) = 1)'
  BY DEF Flow, Handled
<1>8. (\A j, k \in DOMAIN results : results[j].name = results[k].name => j = k)'
  BY DEF Flow
<1> QED BY <1>2, <1>3, <1>4, <1>5, <1>6, <1>7, <1>8 DEF Flow

\* What a step needs to know of a single pass.
SinglePass == ~cycle /\ TypeInv /\ Flow /\ Coverage /\ Ending /\ NoSendOnClosed

LEMMA WatchedCount ==
  ASSUME SinglePass
  PROVE  live = 0 => Watched = {}
<1>1. IsFiniteSet(Watched)
  BY UnretiredFinite DEF SinglePass, TypeInv, TypeOK, WorklistTypeOK, Watched
<1> QED BY <1>1, FS_EmptySet DEF SinglePass, Ending, Halted

\* The names past the cursor are unretired: claim hands out the very next one.
LEMMA PastCursor ==
  ASSUME SinglePass, NEW i \in DOMAIN names, ~(i <= next)
  PROVE  i \in Watched /\ ~HandedOut(names[i])
<1>1. names[i] \in Names
  BY DEF SinglePass, TypeInv, TypeOK, WorklistTypeOK
<1>2. ~HandedOut(names[i])
  BY DEF SinglePass, Flow, Injective, HandedOut
<1>3. names[i] \notin retired
  BY <1>1, <1>2 DEF SinglePass, Flow
<1> QED BY <1>2, <1>3 DEF Watched, Unretired

LEMMA ClaimOnce ==
  ASSUME SinglePass, NEW w \in Workers, WorkerClaim(w)
  PROVE  (Flow /\ Coverage /\ Ending)'
<1> USE DEF SinglePass
<1>1. PICK n \in Names : Claim(n, cancelled) /\ at' = [at EXCEPT ![w] = n]
  BY DEF WorkerClaim
<1>2. PICK idx \in Watched :
         /\ idx > next /\ \A other \in Watched : other > next => idx <= other
         /\ n = names[idx] /\ next' = idx
  BY <1>1 DEF Claim, SinglePassClaim
<1>3. /\ UNCHANGED <<names, retired, live, cycle, closed, results, resultsClosed, cancelled,
                     halting, writer, handling, found, others>>
      /\ ~closed /\ ~cancelled
  BY <1>1 DEF Claim, WorkerClaim
<1>4. at[w] = Idle /\ at \in [Workers -> Names \cup {Idle, Gone}] /\ next \in Nat
      /\ names \in Seq(Names) /\ idx \in DOMAIN names
  BY <1>2 DEF WorkerClaim, TypeInv, TypeOK, WorklistTypeOK, Watched, Unretired
<1>5. \A i \in DOMAIN names : i <= idx <=> i <= next \/ i = idx
  <2> SUFFICES ASSUME NEW i \in DOMAIN names, i <= idx, ~(i <= next), i # idx PROVE FALSE
    BY <1>2, <1>4
  <2>1. i \in Watched /\ i > next
    BY <1>4, PastCursor
  <2> QED BY <1>2, <1>4, <2>1
<1>6. ~HandedOut(n)
  BY <1>2, <1>4, PastCursor
<1>7. \A m \in Names : HandedOut(m)' <=> HandedOut(m) \/ m = n
  BY <1>2, <1>3, <1>4, <1>5 DEF HandedOut
<1>8. \A m \in Names : /\ Handled(m)' = Handled(m) /\ Queued(m)' = Queued(m)
                       /\ Asked(m)' <=> Asked(m) \/ m = n
  BY <1>1, <1>3, <1>4, PipelineAssumption DEF Handled, Queued, Asked
<1>9. ~Asked(n) /\ ~Queued(n) /\ Handled(n) = 0
  BY <1>6 DEF Flow
<1>10. Flow'
  <2>1. \A u, v \in Workers : at'[v] \in Names /\ at'[v] = at'[u] => u = v
    BY <1>1, <1>4, <1>9, PipelineAssumption DEF Flow, Asked
  <2>2. Injective(names)'
    BY <1>3 DEF Flow, Injective
  <2>3. \A m \in Names : Handled(m)' \in {0, 1} /\ (Handled(m)' = 1 => HandedOut(m)')
    BY <1>7, <1>8 DEF Flow
  <2>4. \A m \in Names : Asked(m)' \/ Queued(m)' => HandedOut(m)' /\ Handled(m)' = 0
    BY <1>7, <1>8, <1>9 DEF Flow
  <2>5. \A m \in Names : ~(Asked(m)' /\ Queued(m)')
    BY <1>8, <1>9 DEF Flow
  <2>6. (\A m \in retired : Handled(m) = 1)'
    BY <1>3 DEF Flow, Handled
  <2>7. (writer = "retiring" => handling.name \notin retired /\ Handled(handling.name) = 1)'
    BY <1>3 DEF Flow, Handled
  <2>8. (\A j, k \in DOMAIN results : results[j].name = results[k].name => j = k)'
    BY <1>3 DEF Flow
  <2> QED BY <2>1, <2>2, <2>3, <2>4, <2>5, <2>6, <2>7, <2>8 DEF Flow
<1>11. Coverage'
  <2>1. \A v \in Workers : at'[v] = Gone => at[v] = Gone
    BY <1>1, <1>4, PipelineAssumption
  <2>2. ~Halted /\ (\E v \in Workers : at'[v] = Gone) => \A i \in DOMAIN names : i <= next'
    BY <1>2, <1>3, <1>4, <2>1 DEF Coverage
  <2> QED BY <1>3, <1>7, <1>8, <2>2 DEF Coverage, Halted
<1>12. Ending'
  BY <1>3 DEF Ending, Halted, Watched, Unretired
<1> QED BY <1>10, <1>11, <1>12

\* A worker is refused when the run stops, or all is handed out.
LEMMA RefusedLeaves ==
  ASSUME SinglePass, NEW w \in Workers, WorkerRefused(w)
  PROVE  (Flow /\ Coverage /\ Ending)'
<1> USE DEF SinglePass
<1>1. /\ UNCHANGED <<names, retired, live, cycle, closed, results, resultsClosed, cancelled,
                     halting, writer, handling, found, others>>
      /\ at' = [at EXCEPT ![w] = Gone] /\ at[w] = Idle
      /\ next' = next \/ next' = Len(names)
      /\ closed \/ cancelled \/ live = 0 \/ \A i \in Watched : i <= next
  BY DEF WorkerRefused, ClaimRefused, NothingToHandOut
<1>2. at \in [Workers -> Names \cup {Idle, Gone}] /\ next \in Nat /\ names \in Seq(Names)
      /\ next <= Len(names)
  BY DEF TypeInv, TypeOK, WorklistTypeOK
<1>3. \A m \in Names : /\ Handled(m)' = Handled(m) /\ Queued(m)' = Queued(m)
                       /\ Asked(m)' <=> Asked(m)
  BY <1>1, <1>2, PipelineAssumption DEF Handled, Queued, Asked
<1>4. CASE cancelled \/ closed
  <2>1. next' = next
    BY <1>4 DEF WorkerRefused, ClaimRefused
  <2>2. \A m \in Names : HandedOut(m)' = HandedOut(m)
    BY <1>1, <2>1 DEF HandedOut
  <2>3. \A u, v \in Workers : at'[v] \in Names /\ at'[v] = at'[u] => u = v
    BY <1>1, <1>2, PipelineAssumption DEF Flow
  <2>4. Flow'
    BY <1>1, <1>3, <2>2, <2>3, FlowSame
  <2>5. ~Halted => \A i \in DOMAIN names : i <= next
    BY <1>4, PastCursor DEF Ending, Halted
  <2>6. Coverage'
    BY <1>1, <1>3, <2>1, <2>2, <2>5 DEF Coverage, Halted
  <2> QED BY <1>1, <2>4, <2>6 DEF Ending, Halted, Watched, Unretired
<1>5. CASE ~(cancelled \/ closed)
  <2>1. \A i \in DOMAIN names : i <= next
    <3> SUFFICES ASSUME NEW i \in DOMAIN names, ~(i <= next) PROVE FALSE
      OBVIOUS
    <3>1. i \in Watched
      BY PastCursor
    <3>2. Watched # {} /\ live # 0
      BY <3>1, WatchedCount
    <3> QED BY <1>1, <1>5, <3>1, <3>2
  <2>2. \A i \in DOMAIN names : i <= next'
    BY <1>1, <1>2, <2>1
  <2>3. \A m \in Names : HandedOut(m)' = HandedOut(m)
    BY <1>1, <2>1, <2>2 DEF HandedOut
  <2>4. \A u, v \in Workers : at'[v] \in Names /\ at'[v] = at'[u] => u = v
    BY <1>1, <1>2, PipelineAssumption DEF Flow
  <2>5. Flow'
    BY <1>1, <1>3, <2>3, <2>4, FlowSame
  <2>6. Coverage'
    BY <1>1, <1>3, <2>2, <2>3 DEF Coverage, Halted
  <2> QED BY <1>1, <2>5, <2>6 DEF Ending, Halted, Watched, Unretired
<1> QED BY <1>4, <1>5

\* A name goes from its worker into the channel.
LEMMA SendOnce ==
  ASSUME SinglePass, NEW w \in Workers, WorkerSend(w)
  PROVE  (Flow /\ Coverage /\ Ending)'
<1> USE DEF SinglePass
<1> DEFINE n == at[w]
<1>1. PICK s \in Verdicts(n) : results' = Append(results, [name |-> n, status |-> s])
  BY DEF WorkerSend
<1>2. /\ UNCHANGED <<names, retired, live, cycle, closed, next, resultsClosed, cancelled,
                     halting, writer, handling, found, others>>
      /\ at' = [at EXCEPT ![w] = Idle] /\ n \in Names
  BY DEF WorkerSend, wlVars
<1>3. at \in [Workers -> Names \cup {Idle, Gone}] /\ results \in Seq(Results)
  BY DEF TypeInv, TypeOK
<1>4. Len(results) \in Nat /\ DOMAIN results = 1 .. Len(results)
  BY <1>3
<1>5. /\ DOMAIN results' = 1 .. Len(results) + 1
      /\ \A j \in 1 .. Len(results) : results'[j] = results[j]
      /\ results'[Len(results) + 1].name = n
  <2> DEFINE r == [name |-> n, status |-> s]
  <2>1. r.name = n /\ r \in Results /\ results' = Append(results, r)
    BY <1>1, <1>2 DEF Verdicts, Results, Statuses
  <2> HIDE DEF r, n
  <2> QED BY <1>3, <1>4, <2>1
<1>6. Asked(n) /\ HandedOut(n) /\ Handled(n) = 0 /\ ~Queued(n)
  BY <1>2 DEF Flow, Asked
<1> HIDE DEF n
<1>7. \A m \in Names : /\ Handled(m)' = Handled(m) /\ HandedOut(m)' = HandedOut(m)
                       /\ Queued(m)' <=> Queued(m) \/ m = n
                       /\ Asked(m)' <=> Asked(m) /\ m # n
  <2> TAKE m \in Names
  <2>1. Handled(m)' = Handled(m) /\ HandedOut(m)' = HandedOut(m)
    BY <1>2 DEF Handled, HandedOut
  <2>2. Queued(m)' <=> Queued(m) \/ m = n
    BY <1>4, <1>5 DEF Queued
  <2>3. Asked(m)' <=> Asked(m) /\ m # n
    BY <1>2, <1>3, PipelineAssumption DEF Asked, Flow, n
  <2> QED BY <2>1, <2>2, <2>3
<1>8. Flow'
  <2>1. Injective(names)'
    BY <1>2 DEF Flow, Injective
  <2>2. \A m \in Names : Handled(m)' \in {0, 1} /\ (Handled(m)' = 1 => HandedOut(m)')
    BY <1>7 DEF Flow
  <2>3. \A m \in Names : Asked(m)' \/ Queued(m)' => HandedOut(m)' /\ Handled(m)' = 0
    BY <1>6, <1>7 DEF Flow
  <2>4. \A m \in Names : ~(Asked(m)' /\ Queued(m)')
    BY <1>7 DEF Flow
  <2>5. (\A m \in retired : Handled(m) = 1)'
    BY <1>2 DEF Flow, Handled
  <2>6. (writer = "retiring" => handling.name \notin retired /\ Handled(handling.name) = 1)'
    BY <1>2 DEF Flow, Handled
  <2>7. (\A j, k \in DOMAIN results : results[j].name = results[k].name => j = k)'
    BY <1>4, <1>5, <1>6 DEF Flow, Queued
  <2>8. (\A u, v \in Workers : at[u] \in Names /\ at[u] = at[v] => u = v)'
    BY <1>2, <1>3, PipelineAssumption DEF Flow
  <2> QED BY <2>1, <2>2, <2>3, <2>4, <2>5, <2>6, <2>7, <2>8 DEF Flow
<1>9. Coverage'
  <2>1. \A v \in Workers : at'[v] = Gone => at[v] = Gone
    BY <1>2, <1>3, PipelineAssumption
  <2> QED BY <1>2, <1>7, <2>1 DEF Coverage, Halted
<1>10. Ending'
  <2>1. at[w] # Gone /\ ~resultsClosed
    BY <1>2, PipelineAssumption DEF NoSendOnClosed, n
  <2> QED BY <1>2, <2>1 DEF Ending, Halted, Watched, Unretired
<1> QED BY <1>8, <1>9, <1>10

\* Only a cancelled run throws a check away.
LEMMA AbandonLeaves ==
  ASSUME SinglePass, NEW w \in Workers, WorkerAbandon(w)
  PROVE  (Flow /\ Coverage /\ Ending)'
<1> USE DEF SinglePass
<1>1. /\ UNCHANGED <<names, retired, live, cycle, closed, next, results, resultsClosed,
                     cancelled, halting, writer, handling, found, others>>
      /\ at' = [at EXCEPT ![w] = Gone] /\ cancelled
  BY DEF WorkerAbandon, wlVars
<1>2. at \in [Workers -> Names \cup {Idle, Gone}]
  BY DEF TypeInv, TypeOK
<1>3. \A m \in Names : (Asked(m)' => Asked(m)) /\ (HandedOut(m)' <=> HandedOut(m))
  BY <1>1, <1>2, PipelineAssumption DEF Asked, HandedOut
<1>4. (\A u, v \in Workers : at[u] \in Names /\ at[u] = at[v] => u = v)'
  BY <1>1, <1>2, PipelineAssumption DEF Flow
<1>5. Flow'
  BY <1>1, <1>3, <1>4, FlowSame
<1> QED BY <1>1, <1>5 DEF Coverage, Halted, Ending, Watched, Unretired

\* What the writer receives was not handled before, so it is not stale, and is counted.
LEMMA ReceiveOnce ==
  ASSUME SinglePass, WriterReceive
  PROVE  (Flow /\ Coverage /\ Ending)'
<1> USE DEF SinglePass
<1>1. /\ results \in Seq(Results) /\ results # <<>> /\ found \in [Names -> 0 .. CountCap]
      /\ others \in [Names -> 0 .. CountCap] /\ retired \subseteq Names
  BY DEF WriterReceive, TypeInv, TypeOK, WorklistTypeOK
<1>r. PICK res \in Results : res = Head(results)
  BY <1>1
<1>2. /\ res = results[1] /\ 1 \in DOMAIN results
      /\ Len(results) \in Nat /\ DOMAIN results = 1 .. Len(results)
      /\ Len(results') = Len(results) - 1 /\ DOMAIN results' = 1 .. Len(results) - 1
      /\ \A j \in 1 .. Len(results) - 1 : results'[j] = results[j + 1]
  BY <1>1, <1>r DEF WriterReceive
<1>3. res.name \in Names /\ Queued(res.name)
  BY <1>2 DEF Results, Queued
<1>4. ~Asked(res.name) /\ HandedOut(res.name) /\ Handled(res.name) = 0
      /\ res.name \notin retired /\ found[res.name] = 0 /\ others[res.name] = 0
  <2>1. ~Asked(res.name) /\ HandedOut(res.name) /\ Handled(res.name) = 0
        /\ res.name \notin retired
    BY <1>3 DEF Flow
  <2> QED BY <1>1, <1>3, <2>1 DEF Handled
<1>5. /\ UNCHANGED <<names, retired, live, cycle, closed, next, at, resultsClosed, cancelled,
                     halting>>
      /\ writer = "receiving"
      /\ handling' = IF res.status = "taken" THEN NoResult ELSE res
      /\ writer' = IF res.status = "taken" THEN "receiving" ELSE "retiring"
      /\ found' = IF res.status = "available" THEN Bump(found, res.name) ELSE found
      /\ others' = IF res.status # "available" /\ ~cycle THEN Bump(others, res.name) ELSE others
  BY <1>r, <1>4 DEF WriterReceive, wlVars, Stale
<1>6. /\ Bump(found, res.name) = [found EXCEPT ![res.name] = 1]
      /\ Bump(others, res.name) = [others EXCEPT ![res.name] = 1]
  <2>1. 0 < CountCap /\ 0 + 1 = 1
    BY PipelineAssumption
  <2> QED BY <1>4, <2>1 DEF Bump
<1>7. \A m \in Names : Handled(m)' = IF m = res.name THEN 1 ELSE Handled(m)
  <2>1. CASE res.status = "available"
    <3>1. found' = [found EXCEPT ![res.name] = 1] /\ others' = others
      BY <1>5, <1>6, <2>1
    <3> QED BY <1>1, <1>3, <1>4, <3>1 DEF Handled
  <2>2. CASE res.status # "available"
    <3>1. others' = [others EXCEPT ![res.name] = 1] /\ found' = found
      BY <1>5, <1>6, <2>2
    <3> QED BY <1>1, <1>3, <1>4, <3>1 DEF Handled
  <2> QED BY <2>1, <2>2
<1>8. \A m \in Names : /\ Asked(m)' = Asked(m) /\ HandedOut(m)' = HandedOut(m)
                       /\ Queued(m)' <=> Queued(m) /\ m # res.name
  <2> TAKE m \in Names
  <2>1. Asked(m)' = Asked(m) /\ HandedOut(m)' = HandedOut(m)
    BY <1>5 DEF Asked, HandedOut
  <2>2. ASSUME Queued(m)' PROVE Queued(m) /\ m # res.name
    <3>1. PICK j \in 1 .. Len(results) - 1 : results'[j].name = m
      BY <1>2, <2>2 DEF Queued
    <3>2. j + 1 \in DOMAIN results /\ j + 1 # 1 /\ results[j + 1].name = m
      BY <1>2, <3>1
    <3>3. Queued(m)
      BY <3>2 DEF Queued
    <3>4. m # res.name
      BY <1>2, <3>2 DEF Flow
    <3> QED BY <3>3, <3>4
  <2>3. ASSUME Queued(m), m # res.name PROVE Queued(m)'
    <3>1. PICK j \in DOMAIN results : results[j].name = m
      BY <2>3 DEF Queued
    <3>2. j # 1
      BY <1>2, <2>3, <3>1
    <3>3. j - 1 \in 1 .. Len(results) - 1 /\ j - 1 + 1 = j
      BY <1>2, <3>2
    <3>4. j - 1 \in DOMAIN results' /\ results'[j - 1].name = m
      BY <1>2, <3>1, <3>3
    <3> QED BY <3>4 DEF Queued
  <2> QED BY <2>1, <2>2, <2>3
<1>9. Flow'
  <2>1. Injective(names)'
    BY <1>5 DEF Flow, Injective
  <2>2. \A m \in Names : Handled(m)' \in {0, 1} /\ (Handled(m)' = 1 => HandedOut(m)')
    BY <1>4, <1>7, <1>8 DEF Flow
  <2>3. \A m \in Names : Asked(m)' \/ Queued(m)' => HandedOut(m)' /\ Handled(m)' = 0
    BY <1>4, <1>7, <1>8 DEF Flow
  <2>4. \A m \in Names : ~(Asked(m)' /\ Queued(m)')
    BY <1>8 DEF Flow
  <2>5. \A m \in retired' : Handled(m)' = 1
    BY <1>1, <1>5, <1>7 DEF Flow
  <2>6. (writer = "retiring" => handling.name \notin retired /\ Handled(handling.name) = 1)'
    <3>1. found'[res.name] + others'[res.name] = 1
      BY <1>3, <1>7 DEF Handled
    <3> QED BY <1>4, <1>5, <3>1 DEF Handled
  <2>7. (\A j, k \in DOMAIN results : results[j].name = results[k].name => j = k)'
    <3> SUFFICES ASSUME NEW j \in 1 .. Len(results) - 1, NEW k \in 1 .. Len(results) - 1,
                        results'[j].name = results'[k].name
                 PROVE  j = k
      BY <1>2
    <3>1. j + 1 \in DOMAIN results /\ k + 1 \in DOMAIN results
          /\ results[j + 1].name = results[k + 1].name
      BY <1>2
    <3>2. j + 1 = k + 1
      BY <3>1 DEF Flow
    <3> QED BY <1>2, <3>2
  <2>8. (\A u, v \in Workers : at[u] \in Names /\ at[u] = at[v] => u = v)'
    BY <1>5 DEF Flow
  <2> QED BY <2>1, <2>2, <2>3, <2>4, <2>5, <2>6, <2>7, <2>8 DEF Flow
<1>10. Coverage'
  BY <1>5, <1>7, <1>8 DEF Coverage, Halted
<1>11. Ending'
  BY <1>5 DEF Ending, Halted, Watched, Unretired
<1> QED BY <1>9, <1>10, <1>11
\* A retirement takes the handled name's one entry out, and one off the count.
LEMMA RetireOnce ==
  ASSUME SinglePass, WriterRetire
  PROVE  (Flow /\ Coverage /\ Ending)'
<1> USE DEF SinglePass
<1>1. PICK n \in Names : n = handling.name
  BY DEF TypeInv, TypeOK, Results
<1>2. n \notin retired /\ Handled(n) = 1 /\ HandedOut(n) /\ writer = "retiring"
  BY <1>1 DEF WriterRetire, Flow, Handled
<1>3. /\ UNCHANGED <<names, cycle, closed, next, at, results, resultsClosed, cancelled, halting,
                     found, others>>
      /\ retired' = retired \cup {n}
      /\ live' = IF live > 0 THEN live - 1 ELSE 0
      /\ writer' = "receiving" \/ (writer' = "closing" /\ live' = 0)
  BY <1>1, <1>2 DEF WriterRetire, Retire
<1>4. \A m \in Names : /\ Handled(m)' = Handled(m) /\ HandedOut(m)' = HandedOut(m)
                       /\ Asked(m)' = Asked(m) /\ Queued(m)' = Queued(m)
  BY <1>3 DEF Handled, HandedOut, Asked, Queued
<1>5. Flow'
  <2>1. \A m \in retired' : Handled(m)' = 1
    BY <1>2, <1>3, <1>4 DEF Flow, TypeInv, TypeOK, WorklistTypeOK
  <2>2. Injective(names)'
    BY <1>3 DEF Flow, Injective
  <2>3. /\ (\A u, v \in Workers : at[u] \in Names /\ at[u] = at[v] => u = v)'
        /\ (\A j, k \in DOMAIN results : results[j].name = results[k].name => j = k)'
    BY <1>3 DEF Flow
  <2> QED BY <1>3, <1>4, <2>1, <2>2, <2>3 DEF Flow
<1>6. Coverage'
  BY <1>3, <1>4 DEF Coverage, Halted
<1>7. live' = Cardinality(Watched') /\ IsFiniteSet(Watched') /\ Watched' \subseteq Watched
  <2>1. PICK i \in DOMAIN names : names[i] = n
    BY <1>2 DEF HandedOut
  <2>2. i \in Watched /\ Watched' = Watched \ {i}
    BY <1>2, <1>3, <2>1 DEF Watched, Unretired, Flow, Injective
  <2>3. IsFiniteSet(Watched) /\ Cardinality(Watched) \in Nat
    BY UnretiredFinite DEF TypeInv, TypeOK, WorklistTypeOK, Watched
  <2>4. IsFiniteSet(Watched \ {i}) /\ Cardinality(Watched \ {i}) = Cardinality(Watched) - 1
        /\ Cardinality(Watched \ {i}) \in Nat
    BY <2>2, <2>3, FS_RemoveElement, FS_CardinalityType
  <2>5. live = Cardinality(Watched)
    BY DEF Ending, Halted
  <2>6. live > 0
    BY <2>3, <2>4, <2>5
  <2> QED BY <1>3, <2>2, <2>4, <2>5, <2>6
<1>8. live' = 0 => Watched' = {}
  BY <1>7, FS_EmptySet
<1>9. Ending'
  BY <1>2, <1>3, <1>7, <1>8 DEF Ending, Halted
<1> QED BY <1>5, <1>6, <1>9

LEMMA SinglePassNext ==
  TypeInv /\ StagedInLoop /\ NoSendOnClosed /\ SinglePassInv /\ [Next]_vars => SinglePassInv'
<1> SUFFICES ASSUME TypeInv, StagedInLoop, NoSendOnClosed, SinglePassInv, [Next]_vars, ~cycle'
             PROVE  (Flow /\ Coverage /\ Ending)'
  BY DEF SinglePassInv
<1>1. cycle' = cycle
  BY DEF Next, vars, wlVars, Done, WorkerClaim, WorkerRefused, WorkerSend, WorkerAbandon,
         WriterReceive, WriterRetire, WriterClose, WriterReturn, Cancel, GuardCloses, GuardHalts,
         CancelCloses,
         CloseResults, WatcherBegin, WatcherSwap, Claim, ClaimRefused, Retire, Close,
         ReplaceBegin, ReplaceSwap
<1>2. SinglePass
  BY <1>1 DEF SinglePass, SinglePassInv
<1>3. ASSUME NEW w \in Workers,
             WorkerClaim(w) \/ WorkerRefused(w) \/ WorkerSend(w) \/ WorkerAbandon(w)
      PROVE  (Flow /\ Coverage /\ Ending)'
  BY <1>2, <1>3, ClaimOnce, RefusedLeaves, SendOnce, AbandonLeaves
<1>4. CASE WriterReceive \/ WriterRetire
  BY <1>2, <1>4, ReceiveOnce, RetireOnce
<1>5. CASE WriterClose \/ WriterReturn \/ Cancel \/ GuardCloses \/ GuardHalts
           \/ CancelCloses \/ CloseResults
           \/ UNCHANGED vars
  <2>1. UNCHANGED <<names, retired, live, next, at, results, found, others, handling>>
    BY <1>5 DEF WriterClose, WriterReturn, Cancel, GuardCloses, GuardHalts,
         CancelCloses,
                CloseResults, Close, vars,
                wlVars, pipeVars
  <2>2. /\ writer' = "retiring" => writer = "retiring"
        /\ writer' = "closing" => writer = "closing"
        /\ writer' = "gone" => writer = "gone" \/ (resultsClosed /\ results = <<>>)
        /\ resultsClosed => resultsClosed'
        /\ Halted => Halted'
        /\ closed' /\ ~Halted' => writer = "closing" \/ (closed /\ ~Halted)
    BY <1>5 DEF Halted, WriterClose, WriterReturn, Cancel, GuardCloses, GuardHalts,
         CancelCloses,
                CloseResults, Close, vars,
                wlVars, pipeVars
  <2>3. Watched' = Watched
    BY <2>1 DEF Watched, Unretired
  <2>4. \A n \in Names : /\ Handled(n)' = Handled(n) /\ HandedOut(n)' = HandedOut(n)
                         /\ Asked(n)' = Asked(n) /\ Queued(n)' = Queued(n)
    BY <2>1 DEF Handled, HandedOut, Asked, Queued
  <2>5. Flow'
    <3>1. /\ (\A u, v \in Workers : at[u] \in Names /\ at[u] = at[v] => u = v)'
          /\ (\A j, k \in DOMAIN results : results[j].name = results[k].name => j = k)'
          /\ Injective(names)'
      BY <1>2, <2>1 DEF SinglePass, Flow, Injective
    <3>2. (\A n \in retired : Handled(n) = 1)'
      BY <1>2, <2>1 DEF SinglePass, Flow, Handled
    <3>3. (writer = "retiring" => handling.name \notin retired /\ Handled(handling.name) = 1)'
      BY <1>2, <2>1, <2>2 DEF SinglePass, Flow, Handled
    <3> QED BY <1>2, <2>4, <3>1, <3>2, <3>3 DEF SinglePass, Flow
  <2>6. Coverage'
    BY <1>2, <2>1, <2>2, <2>4 DEF SinglePass, Coverage, Halted
  <2>7. Ending'
    BY <1>2, <2>1, <2>2, <2>3 DEF SinglePass, Ending, Halted
  <2> QED BY <2>5, <2>6, <2>7
<1>6. ~WatcherBegin /\ ~WatcherSwap
  BY <1>1 DEF WatcherBegin, WatcherSwap, ReplaceSwap, StagedInLoop
<1> QED BY <1>3, <1>4, <1>5, <1>6 DEF Next, Done

\* When no starting list repeats a name, a single pass that neither Ctrl-C nor the guard
\* stopped handles exactly one result for every name of it (worklist.go, claim; main.go,
\* runPipeline).
THEOREM SinglePassExactHolds == NoDuplicateStarts => (Spec => []SinglePassExact)
<1>1. TypeInv /\ NoSendOnClosed /\ SinglePassInv => SinglePassExact
  <2> SUFFICES ASSUME TypeInv, NoSendOnClosed, SinglePassInv, writer = "gone", ~cycle, ~Halted,
                      NEW i \in DOMAIN names
               PROVE  found[names[i]] + others[names[i]] = 1
    BY DEF SinglePassExact
  <2>1. Flow /\ Coverage /\ Ending
    BY DEF SinglePassInv
  <2>2. results = <<>> /\ \A w \in Workers : at[w] = Gone
    BY <2>1 DEF Ending, Halted, NoSendOnClosed
  <2>3. i <= next
    BY <2>1, <2>2, PipelineAssumption DEF Coverage, Halted
  <2>4. names[i] \in Names /\ HandedOut(names[i])
    BY <2>3 DEF HandedOut, TypeInv, TypeOK, WorklistTypeOK
  <2>5. ~Asked(names[i]) /\ ~Queued(names[i])
    BY <2>2, <2>4, PipelineAssumption DEF Asked, Queued
  <2> QED BY <2>1, <2>4, <2>5 DEF Coverage, Halted, Handled
<1>2. TypeInv => TypeOK
  BY DEF TypeInv
<1> QED
  BY TypeInit, TypeNext, ClosedLast, SinglePassInit, SinglePassNext, <1>1, PTL DEF Spec
=============================================================================
