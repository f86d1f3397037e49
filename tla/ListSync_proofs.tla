--------------------------- MODULE ListSync_proofs ---------------------------
(***************************************************************************)
(* Proofs about ListSync, for every list, every batch limit and any number *)
(* of faults, user saves, crashes and restarts: a name the tool takes out  *)
(* of the usernames file stands in available.txt, which repeats no line    *)
(* that it gave back; a clean end leaves only failed batches to prune; and *)
(* what the watcher has gone past is what it watches.                      *)
(***************************************************************************)
EXTENDS ListSync, TLAPS

\* Lists and their keys.
LEMMA KeysMono == ASSUME NEW S, NEW T, S \subseteq T PROVE Keys(S) \subseteq Keys(T)
BY DEF Keys

LEMMA KeyOf == ASSUME NEW S, NEW n \in S PROVE Key[n] \in Keys(S)
BY DEF Keys

LEMMA KeysType == ASSUME NEW S, S \subseteq Names PROVE Keys(S) \subseteq Names
BY ListSyncAssumption DEF Keys

LEMMA KeysEmpty == ASSUME NEW S PROVE Keys(S) = {} <=> S = {}
BY DEF Keys

LEMMA KeysRewritten ==
  ASSUME NEW S, NEW gone PROVE Keys({n \in S : Key[n] \notin gone}) = Keys(S) \ gone
BY DEF Keys

\* What loadLines returns is of the list, and names what the list names.
LEMMA LoadsOf == ASSUME NEW list, NEW l \in Loads(list)
                 PROVE  l \subseteq list /\ Keys(l) = Keys(list)
BY DEF Loads

LEMMA LoadsInit == Init => loaded \subseteq Names
<1> SUFFICES ASSUME Init PROVE loaded \subseteq Names
  OBVIOUS
<1>1. loaded \in Loads(InitialFile)
  BY DEF Init
<1> QED BY <1>1, LoadsOf, ListSyncAssumption

FlushStates == [step : {"idle", "taken", "read", "renamed"},
                batch : SUBSET Names, content : SUBSET Names]

LEMMA NoFlushType == NoFlush \in FlushStates /\ NoFlush.step = "idle"
BY DEF NoFlush, FlushStates

\* What the invariant speaks of has these types; the rest of TypeOK is not needed.
ShapeOK ==
    /\ lines \in [Names -> Nat]
    /\ flush \in [Flushers -> FlushStates]
    /\ sinkErr \in BOOLEAN /\ hit \in Names
    /\ pending \subseteq Names /\ known \subseteq Names /\ file \subseteq Names
    /\ buffered \subseteq Names /\ seen \subseteq Names

\* Names on their way to the file rewrite: the writer is inside flush while its own
\* flusher is busy, so no unwritten line waits in the buffer then.  A batch whose file
\* has been read was taken while no write had failed, and what had been recorded by then stays.
Inv ==
    /\ ShapeOK
    /\ pruned \subseteq Keys(Recorded)
    /\ flush["writer"].step # "idle" => writer = "flushing"
    /\ \A f \in Flushers :
          flush[f].step \in {"read", "renamed"} => flush[f].batch \subseteq Keys(Recorded)
    /\ ~sinkErr =>
          /\ seen \subseteq Recorded \cup buffered
          /\ writer = "recorded" => hit \in Recorded \cup buffered
          /\ writer = "flushed" => hit \in Recorded
          /\ pending \subseteq Keys(Recorded)
          /\ \A f \in Flushers :
                flush[f].step = "taken" => flush[f].batch \subseteq Keys(Recorded)
          /\ writer # "recorded" => buffered = {}

LEMMA NoHitType == NoHit \in Names
BY ListSyncAssumption DEF NoHit

LEMMA InvInit == Init => Inv
<1> SUFFICES ASSUME Init PROVE Inv
  OBVIOUS
<1>1. flush \in [Flushers -> FlushStates] /\ \A f \in Flushers : flush[f].step = "idle"
  BY NoFlushType DEF Init
<1>2. "writer" \in Flushers
  BY DEF Flushers
<1>3. /\ pruned = {} /\ lines \in [Names -> Nat] /\ sinkErr = FALSE
      /\ pending = {} /\ known \subseteq Names /\ file \subseteq Names
      /\ buffered = {} /\ seen = {} /\ writer = "idle" /\ hit \in Names
  BY NoHitType, LoadsInit, ListSyncAssumption DEF Init
<1> QED BY <1>1, <1>2, <1>3 DEF Inv, ShapeOK

\* The disk's available.txt and everything Inv says of memory is left alone by the
\* watcher, by the user and by the end of the pipeline.
LEMMA InvOthers ==
  ASSUME Inv, file' \subseteq Names, known' \subseteq Names,
         UNCHANGED <<lines, writer, hit, seen, buffered, sinkErr, pending, flush, pruned>>
  PROVE  Inv'
BY DEF Inv, ShapeOK, Recorded

LEMMA InvRecord == Inv /\ WriterRecord => Inv'
<1> SUFFICES ASSUME Inv, WriterRecord PROVE Inv'
  OBVIOUS
<1> USE DEF Inv, ShapeOK, Recorded
<1>1. PICK n \in known : hit' = n /\ RecordOutcome(n)
  BY DEF WriterRecord
<1>2. UNCHANGED <<lines, file, known, pending, flush, pruned, sinkErr>>
  BY <1>1 DEF WriterRecord, RecordOutcome, diskVars, wlVars, prunerVars
<1>3. writer = "idle" /\ writer' = "recorded" /\ n \in Names
  BY <1>1 DEF WriterRecord
<1>4. ~sinkErr => n \in Recorded' \cup buffered'
  BY <1>1, <1>2, <1>3 DEF RecordOutcome
<1>5. ~sinkErr => seen' \subseteq Recorded' \cup buffered'
  BY <1>1, <1>2, <1>3, <1>4 DEF RecordOutcome
<1>6. buffered' \subseteq Names /\ seen' \subseteq Names
  BY <1>1, <1>3 DEF RecordOutcome
<1> QED BY <1>1, <1>2, <1>3, <1>4, <1>5, <1>6

LEMMA InvFlush == Inv /\ WriterFlush => Inv'
<1> SUFFICES ASSUME Inv, WriterFlush PROVE Inv'
  OBVIOUS
<1> USE DEF Inv, ShapeOK, Recorded
<1>1. UNCHANGED <<file, known, hit, seen, pending, flush, pruned>>
      /\ writer = "recorded" /\ writer' = "flushed"
  BY DEF WriterFlush, wlVars, prunerVars
<1>2. CASE /\ ~sinkErr /\ UNCHANGED sinkErr /\ buffered' = {}
           /\ lines' = [n \in Names |-> IF n \in buffered THEN lines[n] + 1 ELSE lines[n]]
  <2>1. lines' \in [Names -> Nat]
    BY <1>2
  <2>2. Recorded' = Recorded \cup buffered
    BY <1>2
  <2> HIDE DEF Recorded
  <2>3. Keys(Recorded) \subseteq Keys(Recorded)'
    <3>1. Keys(Recorded) \subseteq Keys(Recorded \cup buffered)
      BY KeysMono
    <3> QED BY <2>2, <3>1 DEF Keys
  <2> QED BY <1>1, <1>2, <2>1, <2>2, <2>3
<1>3. CASE sinkErr' = TRUE /\ UNCHANGED <<lines, buffered>>
  BY <1>1, <1>3
<1> QED BY <1>2, <1>3 DEF WriterFlush

LEMMA InvRetire == Inv /\ WriterRetireAndAdd => Inv'
<1> SUFFICES ASSUME Inv, WriterRetireAndAdd PROVE Inv'
  OBVIOUS
<1>1. /\ UNCHANGED <<file, lines, known, seen, buffered, sinkErr, flush, pruned>>
      /\ writer = "flushed" /\ writer' \in {"flushing", "idle"} /\ hit' = NoHit
      /\ pending' \subseteq pending \cup {Key[hit]}
  BY DEF WriterRetireAndAdd, diskVars, sinkVars
<1>2. Key[hit] \in Names
  BY ListSyncAssumption DEF Inv, ShapeOK
<1>3. hit \in Recorded => Key[hit] \in Keys(Recorded)
  BY KeyOf
<1>4. Recorded' = Recorded /\ Keys(Recorded)' = Keys(Recorded)
  BY <1>1 DEF Recorded, Keys
<1> HIDE DEF Recorded
<1> QED BY <1>1, <1>2, <1>3, <1>4, NoHitType DEF Inv, ShapeOK

\* A flusher that ends leaves the others where they were.
LEMMA EndFlushShape ==
  ASSUME ShapeOK, NEW f \in Flushers, EndFlush(f)
  PROVE  /\ flush' \in [Flushers -> FlushStates]
         /\ flush'[f].step = "idle"
         /\ \A g \in Flushers : flush'[g].step = "idle" \/ flush'[g] = flush[g]
         /\ writer' = IF f = "writer" THEN "idle" ELSE writer
BY NoFlushType DEF EndFlush, ShapeOK

\* Ending a flush, whatever became of its batch, is harmless.
LEMMA InvEndFlush ==
  ASSUME Inv, NEW f \in Flushers, EndFlush(f), flush[f].step # "idle",
         UNCHANGED <<file, lines, known, hit, seen, buffered, sinkErr, pending, pruned>>
  PROVE  Inv'
<1>1. ShapeOK'
  BY EndFlushShape DEF Inv, ShapeOK
<1>2. "writer" \in Flushers /\ (flush'["writer"].step # "idle" => writer' = "flushing")
  <2>1. CASE f = "writer"
    BY <2>1, EndFlushShape DEF Inv
  <2>2. CASE f # "writer"
    BY <2>2, EndFlushShape DEF Inv, Flushers
  <2> QED BY <2>1, <2>2 DEF Flushers
<1>3. /\ writer' # "recorded" => writer # "recorded"
      /\ writer' = "recorded" => writer = "recorded"
      /\ writer' = "flushed" => writer = "flushed"
  BY EndFlushShape DEF Inv
<1> QED BY <1>1, <1>2, <1>3, EndFlushShape DEF Inv, Recorded

\* The steps of a flush.
LEMMA InvPrune ==
  ASSUME Inv, NEW f \in Flushers,
         FlushTake(f) \/ FlushRead(f) \/ FlushRename(f) \/ FlushFails(f) \/ FlushNote(f)
  PROVE  Inv'
<1> USE DEF Inv, ShapeOK
<1>1. CASE FlushTake(f)
  <2>1. /\ flush' = [flush EXCEPT ![f] = [step |-> "taken", batch |-> pending,
                                          content |-> {}]]
        /\ pending' = {} /\ flush[f].step = "idle"
        /\ f = "writer" => writer = "flushing"
        /\ UNCHANGED <<file, lines, known, writer, hit, seen, buffered, sinkErr, pruned>>
    BY <1>1 DEF FlushTake, MayFlush, diskVars, wlVars, sinkVars, Flushers
  <2>2. flush' \in [Flushers -> FlushStates]
    BY <2>1 DEF FlushStates
  <2>3. \A g \in Flushers : g # f => flush'[g] = flush[g]
    BY <2>1
  <2>4. flush'[f].step = "taken" /\ flush'[f].batch = pending
    BY <2>1
  <2> QED BY <2>1, <2>2, <2>3, <2>4 DEF Recorded, Flushers
<1>2. CASE FlushRead(f)
  <2>1. /\ UNCHANGED <<file, lines, known, hit, seen, buffered, sinkErr, pending, pruned>>
        /\ flush[f].step = "taken"
    BY <1>2 DEF FlushRead, diskVars, wlVars, sinkVars
  <2>2. CASE sinkErr
    BY <1>2, <2>1, <2>2, InvEndFlush DEF FlushRead, ResultsFailing, Drop
  <2>3. CASE ~sinkErr
    <3>1. /\ flush' = [flush EXCEPT ![f].step = "read", ![f].content = file]
          /\ writer' = writer
      BY <1>2, <2>3 DEF FlushRead, ResultsFailing
    <3>2. flush' \in [Flushers -> FlushStates]
      BY <3>1 DEF FlushStates
    <3>3. \A g \in Flushers : g # f => flush'[g] = flush[g]
      BY <3>1
    <3>4. flush'[f].step = "read" /\ flush'[f].batch = flush[f].batch
      BY <3>1 DEF FlushStates
    <3> QED BY <2>1, <2>3, <3>1, <3>2, <3>3, <3>4 DEF Recorded, Flushers
  <2> QED BY <2>2, <2>3
<1>3. CASE FlushRename(f)
  <2>1. /\ flush' = [flush EXCEPT ![f].step = "renamed"] /\ flush[f].step = "read"
        /\ file' \subseteq flush[f].content
        /\ pruned' \subseteq pruned \cup flush[f].batch
        /\ UNCHANGED <<lines, known, writer, hit, seen, buffered, sinkErr, pending>>
    BY <1>3 DEF FlushRename, wlVars, sinkVars
  <2>2. flush' \in [Flushers -> FlushStates] /\ file' \subseteq Names
    BY <2>1 DEF FlushStates
  <2>3. \A g \in Flushers : g # f => flush'[g] = flush[g]
    BY <2>1
  <2>4. flush'[f].step = "renamed" /\ flush'[f].batch = flush[f].batch
    BY <2>1 DEF FlushStates
  <2> QED BY <2>1, <2>2, <2>3, <2>4 DEF Recorded, Flushers
<1>4. CASE FlushFails(f) \/ FlushNote(f)
  BY <1>4, InvEndFlush DEF FlushFails, FlushNote, Drop, diskVars, wlVars, sinkVars
<1> QED BY <1>1, <1>2, <1>3, <1>4

LEMMA InvNext == Inv /\ [Next]_vars => Inv'
<1> SUFFICES ASSUME Inv, [Next]_vars PROVE Inv'
  OBVIOUS
<1>1. CASE FlushNothing
  BY <1>1 DEF FlushNothing, Inv, ShapeOK, Recorded, diskVars, wlVars, sinkVars, prunerVars
<1>2. CASE Crash
  <2>1. flush' \in [Flushers -> FlushStates] /\ \A f \in Flushers : flush'[f].step = "idle"
    BY <1>2, NoFlushType DEF Crash
  <2>2. /\ UNCHANGED <<file, lines, known, sinkErr, pruned>>
        /\ writer' = "idle" /\ hit' \in Names /\ pending' = {} /\ buffered' = {} /\ seen' = {}
    BY <1>2, NoHitType DEF Crash, diskVars, wlVars
  <2> QED BY <2>1, <2>2 DEF Inv, ShapeOK, Recorded, Flushers
<1>3. CASE Restart
  <2>1. flush' \in [Flushers -> FlushStates] /\ \A f \in Flushers : flush'[f].step = "idle"
    BY <1>3, NoFlushType DEF Restart
  <2>2. /\ UNCHANGED <<file, lines, pruned>> /\ known' \subseteq file
        /\ seen' \subseteq Recorded /\ sinkErr' = FALSE
        /\ writer' = "idle" /\ hit' \in Names /\ pending' = {} /\ buffered' = {}
    BY <1>3, NoHitType, LoadsOf DEF Restart, Primed, diskVars
  <2> QED BY <2>1, <2>2 DEF Inv, ShapeOK, Recorded, Flushers
<1>4. CASE WatcherLoad
  <2>1. known' \subseteq Names
    BY <1>4, LoadsOf DEF WatcherLoad, Inv, ShapeOK
  <2> QED BY <1>4, <2>1, InvOthers
          DEF WatcherLoad, diskVars, sinkVars, prunerVars, Inv, ShapeOK
<1>5. CASE WatcherStart \/ WatcherTick \/ WatcherLoadFails \/ PipelineReturns \/ CleanExit
           \/ UNCHANGED vars
  BY <1>5, InvOthers
  DEF WatcherStart, WatcherTick, WatcherLoadFails, PipelineReturns, CleanExit, vars,
      diskVars, wlVars, sinkVars, prunerVars, Inv, ShapeOK
<1>6. CASE UserSave
  <2>1. file' \subseteq Names
    BY <1>6, ListSyncAssumption DEF UserSave
  <2> QED BY <1>6, <2>1, InvOthers
          DEF UserSave, wlVars, sinkVars, prunerVars, Inv, ShapeOK
<1> QED
  BY <1>1, <1>2, <1>3, <1>4, <1>5, <1>6, InvRecord, InvFlush, InvRetire, InvPrune DEF Next

\* A name the tool takes out of the usernames file stands in available.txt, through
\* every write failure, every crash and every restart (pruner.go, flush).
THEOREM PrunedIsRecordedHolds == Spec => []PrunedIsRecorded
<1>1. Inv => PrunedIsRecorded
  BY DEF Inv, PrunedIsRecorded
<1> QED BY InvInit, InvNext, <1>1, PTL DEF Spec
-----------------------------------------------------------------------------
\* Only lines of the buffer are added, and none of them stands in the file: whatever
\* does was seen, in this process or when it was read back, if it was.
OnceInv ==
    /\ RecordedOnce
    /\ buffered \subseteq seen /\ buffered \cap Recorded \subseteq unread
    /\ running = "crashed" => buffered = {}
    /\ running # "crashed" => Recorded \subseteq seen \cup unread

LEMMA OnceInit == Init => OnceInv
BY DEF Init, OnceInv, RecordedOnce, Recorded

\* Steps that leave the sink, the disk and the process alone.
LEMMA OnceOthers ==
  ASSUME OnceInv, UNCHANGED <<lines, seen, buffered, unread, running>>
  PROVE  OnceInv'
BY DEF OnceInv, RecordedOnce, Recorded

LEMMA OnceRecord == OnceInv /\ WriterRecord => OnceInv'
<1> SUFFICES ASSUME OnceInv, WriterRecord PROVE OnceInv'
  OBVIOUS
<1>1. PICK n \in known : RecordOutcome(n)
  BY DEF WriterRecord
<1>2. UNCHANGED <<lines, running>> /\ running = "up"
  BY DEF WriterRecord, diskVars
<1> QED BY <1>1, <1>2 DEF OnceInv, RecordedOnce, Recorded, RecordOutcome

LEMMA OnceFlush == ShapeOK /\ OnceInv /\ WriterFlush => OnceInv'
<1> SUFFICES ASSUME ShapeOK, OnceInv, WriterFlush PROVE OnceInv'
  OBVIOUS
<1>1. UNCHANGED <<running, seen, unread>>
  BY DEF WriterFlush
<1>2. CASE /\ buffered' = {}
           /\ lines' = [n \in Names |-> IF n \in buffered THEN lines[n] + 1 ELSE lines[n]]
  <2>1. Recorded' = Recorded \cup buffered
    BY <1>2 DEF Recorded, ShapeOK
  <2>2. RecordedOnce'
    <3> SUFFICES ASSUME NEW n \in Names \ unread PROVE lines'[n] <= 1
      BY <1>1 DEF RecordedOnce
    <3>1. lines[n] \in Nat /\ lines'[n] = IF n \in buffered THEN lines[n] + 1 ELSE lines[n]
      BY <1>2 DEF ShapeOK
    <3>2. n \in buffered => ~(lines[n] > 0)
      BY DEF OnceInv, Recorded
    <3> QED BY <3>1, <3>2 DEF OnceInv, RecordedOnce
  <2> QED BY <1>1, <1>2, <2>1, <2>2 DEF OnceInv
<1>3. CASE UNCHANGED <<lines, buffered>>
  BY <1>1, <1>3, OnceOthers
<1> QED BY <1>2, <1>3 DEF WriterFlush

LEMMA OnceNext == Inv /\ OnceInv /\ [Next]_vars => OnceInv'
<1> SUFFICES ASSUME Inv, OnceInv, [Next]_vars PROVE OnceInv'
  OBVIOUS
<1>1. CASE PipelineReturns \/ CleanExit \/ Crash
  BY <1>1 DEF PipelineReturns, CleanExit, Crash, Ended, diskVars, sinkVars, OnceInv,
              RecordedOnce, Recorded
<1>4. CASE Restart
  <2>1. PICK read \in SUBSET Recorded : /\ seen' = read
                                       /\ unread' = unread \cup (Recorded \ read)
    BY <1>4 DEF Restart, Primed
  <2>2. buffered' = {} /\ lines' = lines /\ running' = "up"
    BY <1>4 DEF Restart, diskVars
  <2> QED BY <2>1, <2>2 DEF OnceInv, RecordedOnce, Recorded
<1>2. CASE WriterRetireAndAdd \/ FlushNothing \/ WatcherStart \/ WatcherTick
           \/ WatcherLoad \/ WatcherLoadFails \/ UserSave \/ UNCHANGED vars
  BY <1>2, OnceOthers
  DEF WriterRetireAndAdd, FlushNothing, WatcherStart, WatcherTick, WatcherLoad,
      WatcherLoadFails, UserSave, vars, diskVars, sinkVars
<1>3. ASSUME NEW f \in Flushers,
             FlushTake(f) \/ FlushRead(f) \/ FlushRename(f) \/ FlushFails(f) \/ FlushNote(f)
      PROVE  OnceInv'
  BY <1>3, OnceOthers
  DEF FlushTake, FlushRead, FlushRename, FlushFails, FlushNote, diskVars, sinkVars
<1> QED BY <1>1, <1>2, <1>3, <1>4, OnceRecord, OnceFlush DEF Next, Inv

\* available.txt never repeats a line that every start could read back, however often
\* the name is found again after a crash or put back by the user (main.go, loadSeen and
\* record).
THEOREM RecordedOnceHolds == Spec => []RecordedOnce
<1>1. OnceInv => RecordedOnce
  BY DEF OnceInv
<1> QED BY InvInit, InvNext, OnceInit, OnceNext, <1>1, PTL DEF Spec
-----------------------------------------------------------------------------
\* The type invariant in three parts, and the hit the writer is carrying is a name the
\* worklist has held.
FunctionsOK == lines \in [Names -> Nat] /\ flush \in [Flushers -> FlushStates]
ScalarsOK ==
    /\ file \subseteq Names /\ version \in Nat
    /\ running \in {"up", "stopping", "ended", "crashed"}
    /\ loaded \subseteq Names /\ known \subseteq Names /\ retired \subseteq Keys(known)
    /\ writer \in {"idle", "recorded", "flushed", "flushing"} /\ hit \in Names
    /\ seen \subseteq Names /\ buffered \subseteq Names
    /\ pending \subseteq retired
    /\ stamp \in 0 .. version
    /\ watcher \in {"starting", "waiting", "loading"}
    /\ lastSeen \in 0 .. version /\ saved \in 0 .. version
    /\ pruned \subseteq Names /\ dropped \subseteq Names /\ unread \subseteq Names
    /\ saves \in Nat /\ faults \in Nat /\ starts \in Nat
FlagsOK ==
    /\ keepList \in BOOLEAN /\ sinkErr \in BOOLEAN
    /\ mingled \in BOOLEAN /\ overlapped \in BOOLEAN
TypeInv ==
    /\ FunctionsOK /\ ScalarsOK /\ FlagsOK
    /\ writer \in {"recorded", "flushed"} => hit \in known

LEMMA AllIdleType == [f \in Flushers |-> NoFlush] \in [Flushers -> FlushStates]
BY NoFlushType

LEMMA TypeInit == Init => TypeInv
<1> SUFFICES ASSUME Init PROVE TypeInv
  OBVIOUS
<1>1. FunctionsOK
  BY AllIdleType DEF Init, FunctionsOK
<1>2. ScalarsOK /\ writer = "idle"
  BY NoHitType, LoadsInit, ListSyncAssumption DEF Init, ScalarsOK
<1>3. FlagsOK
  BY DEF Init, FlagsOK
<1> QED BY <1>1, <1>2, <1>3 DEF TypeInv

LEMMA TypeSink == TypeInv /\ (WriterRecord \/ WriterFlush \/ WriterRetireAndAdd) => TypeInv'
<1> SUFFICES ASSUME TypeInv PROVE
      (WriterRecord \/ WriterFlush \/ WriterRetireAndAdd) => TypeInv'
  OBVIOUS
<1> USE DEF TypeInv, diskVars, wlVars, sinkVars, watchVars, prunerVars, envVars, saveVars
<1>1. CASE WriterRecord
  <2>1. FunctionsOK' /\ FlagsOK'
    BY <1>1 DEF WriterRecord, RecordOutcome, FunctionsOK, FlagsOK
  <2>2. ScalarsOK' /\ hit' \in known'
    BY <1>1 DEF WriterRecord, RecordOutcome, ScalarsOK
  <2> QED BY <2>1, <2>2
<1>2. CASE WriterFlush
  <2>1. FunctionsOK'
    BY <1>2 DEF WriterFlush, FunctionsOK
  <2>2. ScalarsOK' /\ UNCHANGED <<hit, known>>
    BY <1>2 DEF WriterFlush, ScalarsOK
  <2>3. FlagsOK'
    BY <1>2 DEF WriterFlush, FlagsOK
  <2> QED BY <1>2, <2>1, <2>2, <2>3 DEF WriterFlush
<1>3. CASE WriterRetireAndAdd
  <2>1. FunctionsOK' /\ FlagsOK'
    BY <1>3 DEF WriterRetireAndAdd, FunctionsOK, FlagsOK
  <2>2. ScalarsOK' /\ writer' \in {"flushing", "idle"}
    <3>1. Key[hit] \in Keys(known) /\ known' = known
      BY <1>3, KeyOf DEF WriterRetireAndAdd
    <3>2. Keys(known)' = Keys(known)
      BY <3>1 DEF Keys
    <3> QED BY <1>3, <3>1, <3>2, NoHitType DEF WriterRetireAndAdd, ScalarsOK
  <2> QED BY <2>1, <2>2
<1> QED BY <1>1, <1>2, <1>3

LEMMA TypeFlushers ==
  ASSUME TypeInv, NEW f \in Flushers,
         FlushTake(f) \/ FlushRead(f) \/ FlushRename(f) \/ FlushFails(f) \/ FlushNote(f)
  PROVE  TypeInv'
<1> USE DEF TypeInv, diskVars, wlVars, sinkVars, watchVars, prunerVars, envVars, saveVars
<1>1. FunctionsOK'
  <2>1. UNCHANGED lines
    BY DEF FlushTake, FlushRead, FlushRename, FlushFails, FlushNote
  <2>2. flush \in [Flushers -> FlushStates] /\ file \subseteq Names /\ pending \subseteq Names
    BY KeysType DEF FunctionsOK, ScalarsOK
  <2>3. flush' \in [Flushers -> FlushStates]
    <3>1. CASE FlushTake(f)
      BY <2>2, <3>1 DEF FlushTake, FlushStates
    <3>2. CASE FlushRead(f)
      BY <2>2, <3>2, NoFlushType DEF FlushRead, EndFlush, Drop, FlushStates
    <3>3. CASE FlushRename(f)
      BY <2>2, <3>3 DEF FlushRename, FlushStates
    <3>4. CASE FlushFails(f) \/ FlushNote(f)
      BY <2>2, <3>4, NoFlushType DEF FlushFails, FlushNote, EndFlush, Drop
    <3> QED BY <3>1, <3>2, <3>3, <3>4
  <2> QED BY <2>1, <2>3 DEF FunctionsOK
<1>2. flush[f].batch \subseteq Names /\ flush[f].content \subseteq Names
  BY DEF FunctionsOK, FlushStates
<1>r. retired \subseteq Keys(known) /\ known' = known => retired \subseteq Keys(known')
  BY DEF Keys
<1>3. ScalarsOK' /\ UNCHANGED <<hit, known>> /\ writer' \in {writer, "idle"}
  BY <1>2, <1>r DEF FlushTake, FlushRead, FlushRename, FlushFails, FlushNote, EndFlush, Drop,
                    ScalarsOK
<1>4. FlagsOK'
  BY DEF FlushTake, FlushRead, FlushRename, FlushFails, FlushNote, EndFlush, Drop, FlagsOK
<1> QED BY <1>1, <1>3, <1>4

LEMMA TypeRest ==
  ASSUME TypeInv,
         FlushNothing \/ WatcherStart \/ WatcherTick \/ WatcherLoad \/ WatcherLoadFails
         \/ UserSave \/ PipelineReturns \/ CleanExit \/ Crash \/ Restart \/ UNCHANGED vars
  PROVE  TypeInv'
<1> USE DEF TypeInv, diskVars, wlVars, sinkVars, watchVars, prunerVars, envVars, saveVars
<1> USE DEF FlushNothing, PipelineReturns, CleanExit, vars, WatcherStart, WatcherTick,
        WatcherLoad, WatcherLoadFails, UserSave, Crash, Restart
<1>1. FunctionsOK'
  BY AllIdleType DEF FunctionsOK
<1>2. FlagsOK'
  BY DEF FlagsOK
<1>3. ScalarsOK'
  <2>1. retired' \subseteq Keys(known')
    <3>1. retired' \subseteq retired /\ (known \subseteq known' \/ retired' = {})
      BY DEF ScalarsOK
    <3> QED BY <3>1, KeysMono DEF ScalarsOK
  <2>2. loaded' \subseteq Names /\ known' \subseteq Names
    BY LoadsOf DEF ScalarsOK
  <2>3. seen' \subseteq Names /\ unread' \subseteq Names /\ faults' \in Nat
    BY DEF ScalarsOK, Primed, Recorded
  <2> QED BY <2>1, <2>2, <2>3, NoHitType, ListSyncAssumption DEF ScalarsOK
<1>4. writer' \in {"recorded", "flushed"} =>
         hit' = hit /\ known \subseteq known' /\ writer' = writer
  OBVIOUS
<1> QED BY <1>1, <1>2, <1>3, <1>4

\* The type invariant: what is pending was retired, what is retired was once on the
\* list, and nothing noted of the file is newer than the file.
THEOREM TypeCorrect == Spec => []TypeOK
<1>1. TypeInv /\ [Next]_vars => TypeInv'
  BY TypeSink, TypeFlushers, TypeRest DEF Next
<1>2. TypeInv => TypeOK
  BY DEF TypeInv, TypeOK, FunctionsOK, ScalarsOK, FlagsOK, FlushStates
<1> QED BY TypeInit, <1>1, <1>2, PTL DEF Spec
-----------------------------------------------------------------------------
\* What each step of a flush does to the flushers' local states.
LEMMA FlushStep ==
  ASSUME ShapeOK, NEW f \in Flushers
  PROVE  /\ FlushTake(f) =>
              /\ flush[f].step = "idle" /\ pending' = {}
              /\ flush'[f].step = "taken" /\ flush'[f].batch = pending
         /\ FlushRead(f) =>
              /\ flush[f].step = "taken"
              /\ \/ sinkErr /\ flush'[f] = NoFlush /\ overlapped' = overlapped
                    /\ dropped' = dropped \cup flush[f].batch
                 \/ /\ flush'[f].step = "read" /\ flush'[f].content = file
                    /\ dropped' = dropped
                    /\ flush'[f].batch = flush[f].batch
                    /\ overlapped' =
                         (overlapped \/ \E g \in Flushers \ {f} : flush[g].step = "read")
         /\ FlushRename(f) =>
              /\ flush[f].step = "read" /\ flush'[f].step = "renamed"
              /\ flush'[f].batch = flush[f].batch
         /\ FlushFails(f) \/ FlushNote(f) => flush'[f] = NoFlush
         /\ FlushFails(f) => dropped' = dropped \cup flush[f].batch
         /\ FlushTake(f) \/ FlushRename(f) \/ FlushNote(f) => dropped' = dropped
         /\ FlushTake(f) \/ FlushRead(f) \/ FlushRename(f) \/ FlushFails(f) \/ FlushNote(f)
              => /\ \A g \in Flushers : g # f => flush'[g] = flush[g]
                 /\ writer' \in {writer, "idle"}
                 /\ UNCHANGED <<running, keepList, sinkErr, loaded, known, retired, saved, saves>>
BY DEF FlushTake, FlushRead, FlushRename, FlushFails, FlushNote, EndFlush, Drop, ResultsFailing,
       ShapeOK, FlushStates, diskVars, wlVars, sinkVars, watchVars, envVars, saveVars

\* A rewrite takes exactly its batch's names out of what was read.
LEMMA RewriteKeys ==
  ASSUME NEW f \in Flushers, FlushRename(f)
  PROVE  /\ file' \subseteq flush[f].content
         /\ Keys(file') = Keys(flush[f].content) \ flush[f].batch
BY KeysRewritten DEF FlushRename

\* The steps that leave every flusher where it is.
LEMMA FlushersRest ==
  ASSUME \/ WriterRecord \/ WriterFlush \/ WriterRetireAndAdd \/ FlushNothing
         \/ WatcherStart \/ WatcherTick \/ WatcherLoad \/ WatcherLoadFails
         \/ UserSave \/ PipelineReturns \/ CleanExit \/ UNCHANGED vars
  PROVE  UNCHANGED <<flush, overlapped, stamp>>
BY DEF WriterRecord, WriterFlush, WriterRetireAndAdd, FlushNothing, WatcherStart, WatcherTick,
       WatcherLoad, WatcherLoadFails, UserSave, PipelineReturns, CleanExit, vars, prunerVars

AllIdle == \A f \in Flushers : flush[f] = NoFlush

\* When the process has ended nothing is under way; what a flusher carries was retired,
\* and an idle one carries nothing; a failing sink is a fault, and without a save nothing
\* was mingled.
Settled ==
    /\ running # "up" => writer = "idle"
    /\ Ended => pending = {} /\ AllIdle
    /\ saves = 0 => saved = 0 /\ ~mingled
    /\ sinkErr => faults > 0
    /\ \A f \in Flushers : /\ flush[f].batch \subseteq retired
                           /\ flush[f].step = "idle" => flush[f].batch = {}

LEMMA SettledInit == Init => Settled
BY DEF Init, Settled, AllIdle, Ended, NoFlush

LEMMA SettledNext == Inv /\ TypeInv /\ Settled /\ [Next]_vars => Settled'
<1> SUFFICES ASSUME Inv, TypeInv, Settled, [Next]_vars PROVE Settled'
  OBVIOUS
<1> USE DEF Settled, AllIdle, Ended
<1>1. ASSUME NEW f \in Flushers,
             FlushTake(f) \/ FlushRead(f) \/ FlushRename(f) \/ FlushFails(f) \/ FlushNote(f)
      PROVE  Settled'
  <2>1. pending \subseteq retired /\ NoFlush.batch = {}
    BY DEF TypeInv, ScalarsOK, NoFlush
  <2>2. \A g \in Flushers : /\ flush'[g].batch \subseteq retired'
                            /\ flush'[g].step = "idle" => flush'[g].batch = {}
    BY <1>1, <2>1, FlushStep DEF Inv
  <2>3. ~Ended
    BY <1>1, NoFlushType DEF FlushTake, FlushRead, FlushRename, FlushFails, FlushNote, MayFlush,
                             NoFlush, Flushers
  <2>4. faults' >= faults /\ faults \in Nat /\ faults' \in Nat
    BY <1>1 DEF FlushTake, FlushRead, FlushRename, FlushFails, FlushNote, envVars, TypeInv,
                ScalarsOK
  <2>5. saves' = 0 => saved' = 0 /\ ~mingled'
    <3>1. saves = 0 => ~(lastSeen < saved)
      BY DEF TypeInv, ScalarsOK
    <3> QED BY <1>1, <3>1 DEF FlushTake, FlushRead, FlushRename, FlushFails, FlushNote,
                              envVars, saveVars
  <2>6. (running' # "up" => writer' = "idle") /\ ~Ended' /\ (sinkErr' => faults' > 0)
    BY <1>1, <2>3, <2>4, FlushStep DEF Inv
  <2> QED BY <2>2, <2>5, <2>6
<1>2. CASE WriterRecord \/ WriterFlush \/ WriterRetireAndAdd \/ FlushNothing
  <2>1. retired \subseteq retired' /\ running = "up" /\ running' = "up"
    BY <1>2 DEF WriterRecord, WriterFlush, WriterRetireAndAdd, FlushNothing, wlVars
  <2>2. UNCHANGED <<saves, saved, mingled>>
    BY <1>2 DEF WriterRecord, WriterFlush, WriterRetireAndAdd, FlushNothing, envVars, saveVars
  <2>3. sinkErr' => faults' > 0
    <3>1. CASE WriterFlush
      <4>1. faults \in Nat
        BY DEF TypeInv, ScalarsOK
      <4>2. CASE UNCHANGED <<sinkErr, faults>>
        BY <4>2
      <4>3. CASE faults' = IF sinkErr THEN faults ELSE faults + 1
        BY <4>1, <4>3
      <4> QED BY <3>1, <4>2, <4>3 DEF WriterFlush
    <3>2. CASE WriterRecord \/ WriterRetireAndAdd \/ FlushNothing
      BY <3>2 DEF WriterRecord, WriterRetireAndAdd, FlushNothing, envVars, sinkVars,
                  RecordOutcome
    <3> QED BY <1>2, <3>1, <3>2
  <2> QED BY <1>2, <2>1, <2>2, <2>3, FlushersRest
<1>3. CASE WatcherStart \/ WatcherTick \/ WatcherLoad \/ WatcherLoadFails \/ PipelineReturns
           \/ CleanExit \/ UNCHANGED vars
  <2>1. UNCHANGED <<saves, saved, mingled, writer, pending, sinkErr, retired>>
    BY <1>3 DEF WatcherStart, WatcherTick, WatcherLoad, WatcherLoadFails, PipelineReturns,
                CleanExit, vars, wlVars, prunerVars, sinkVars, envVars, saveVars
  <2>2. faults' >= faults /\ faults \in Nat /\ faults' \in Nat
    BY <1>3 DEF WatcherStart, WatcherTick, WatcherLoad, WatcherLoadFails, PipelineReturns,
                CleanExit, vars, envVars, TypeInv, ScalarsOK
  <2>3. (running' # "up" => writer' = "idle") /\ (Ended' => pending' = {} /\ AllIdle)
    BY <1>3, <2>1 DEF WatcherStart, WatcherTick, WatcherLoad, WatcherLoadFails,
                      PipelineReturns, CleanExit, vars
  <2> QED BY <1>3, <2>1, <2>2, <2>3, FlushersRest
<1>4. CASE UserSave
  <2>1. saves' # 0
    BY <1>4 DEF UserSave, TypeInv, ScalarsOK
  <2> QED BY <1>4, <2>1, FlushersRest DEF UserSave, wlVars, sinkVars, prunerVars
<1>5. CASE Crash \/ Restart
  <2>1. flush' = [f \in Flushers |-> NoFlush] /\ pending' = {} /\ writer' = "idle"
    BY <1>5 DEF Crash, Restart
  <2>2. (sinkErr' => faults' > 0) /\ (saves' = 0 => saved' = 0 /\ ~mingled')
    BY <1>5 DEF Crash, Restart, envVars, saveVars
  <2> QED BY <2>1, <2>2 DEF NoFlush
<1> QED BY <1>1, <1>2, <1>3, <1>4, <1>5 DEF Next
-----------------------------------------------------------------------------
\* While no save was mingled with a rewrite: a save the watcher has yet to see is the
\* latest version and no rewrite is under way; a rewrite under way has read what is
\* still in the file but for retired names, and, if rewrites never overlapped, all of it.
Undisturbed ==
    ~mingled =>
      /\ ~Ended /\ lastSeen < saved =>
           /\ watcher # "starting" /\ version = saved /\ stamp < saved
           /\ \A f \in Flushers : flush[f].step \notin {"read", "renamed"}
      /\ \A f \in Flushers : flush[f].step = "read" =>
           /\ Keys(flush[f].content) \ retired = Keys(file) \ retired
           /\ ~overlapped => /\ flush[f].content = file
                             /\ \A g \in Flushers : flush[g].step = "read" => g = f

LEMMA UndisturbedInit == Init => Undisturbed
BY DEF Init, Undisturbed, NoFlush

\* A flusher that has read the file or renamed the new one, with nothing mingled: the
\* process runs and the watcher has seen the user's latest save.
LEMMA NoSaveUnseen ==
  ASSUME Inv, TypeInv, Settled, Undisturbed, ~mingled, NEW f \in Flushers,
         flush[f].step \in {"read", "renamed"}
  PROVE  ~Ended /\ ~(lastSeen < saved)
BY DEF Settled, Undisturbed, AllIdle, NoFlush

LEMMA UndisturbedFlush ==
  ASSUME Inv, TypeInv, Settled, Undisturbed, NEW f \in Flushers,
         FlushTake(f) \/ FlushRead(f) \/ FlushRename(f) \/ FlushFails(f) \/ FlushNote(f)
  PROVE  Undisturbed'
<1> SUFFICES ASSUME ~mingled' PROVE Undisturbed'
  BY DEF Undisturbed
<1>1. ~mingled /\ UNCHANGED <<running, retired, watcher, lastSeen, saved>>
  <2>1. CASE FlushRead(f)
    BY <2>1 DEF FlushRead, wlVars, watchVars
  <2>2. CASE FlushTake(f) \/ FlushRename(f) \/ FlushFails(f) \/ FlushNote(f)
    BY <2>2 DEF FlushTake, FlushRename, FlushFails, FlushNote, wlVars, watchVars, envVars,
                saveVars
  <2> QED BY <2>1, <2>2
<1>2. CASE FlushTake(f)
  <2>1. UNCHANGED <<file, version, stamp, overlapped>>
    BY <1>2 DEF FlushTake, diskVars
  <2> QED BY <1>1, <1>2, <2>1, FlushStep DEF Undisturbed, Inv, Ended
<1>3. CASE FlushRead(f)
  <2>1. UNCHANGED <<file, version, stamp>> /\ ~(lastSeen < saved)
    BY <1>3 DEF FlushRead, diskVars
  <2>2. CASE flush'[f] = NoFlush /\ overlapped' = overlapped
    BY <1>1, <1>3, <2>1, <2>2, NoFlushType, FlushStep DEF Undisturbed, Inv
  <2>3. CASE /\ flush'[f].step = "read" /\ flush'[f].content = file
             /\ overlapped' = (overlapped \/ \E g \in Flushers \ {f} : flush[g].step = "read")
    <3>1. \A g \in Flushers : g # f => flush'[g] = flush[g]
      BY <1>3, FlushStep DEF Inv
    <3>2. ~overlapped' => \A g \in Flushers : flush'[g].step = "read" => g = f
      BY <2>3, <3>1
    <3>3. \A g \in Flushers : flush'[g].step = "read" =>
             Keys(flush'[g].content) \ retired' = Keys(file') \ retired'
      BY <1>1, <2>1, <2>3, <3>1 DEF Undisturbed
    <3> QED BY <1>1, <2>1, <2>3, <3>2, <3>3 DEF Undisturbed
  <2> QED BY <1>3, <2>2, <2>3, FlushStep DEF Inv
<1>4. CASE FlushRename(f)
  <2>1. /\ Keys(file') = Keys(flush[f].content) \ flush[f].batch /\ flush[f].step = "read"
        /\ UNCHANGED <<stamp, overlapped>>
    BY <1>4, RewriteKeys DEF FlushRename
  <2>2. ~(lastSeen < saved)
    BY <1>1, <2>1, NoSaveUnseen
  <2>3. Keys(file') \ retired = Keys(file) \ retired
    BY <1>1, <2>1 DEF Undisturbed, Settled
  <2>4. \A g \in Flushers : flush'[g].step = "read" => g # f /\ flush[g] = flush'[g]
    BY <1>4, FlushStep DEF Inv
  <2> QED BY <1>1, <2>1, <2>2, <2>3, <2>4 DEF Undisturbed
<1>5. CASE FlushFails(f) \/ FlushNote(f)
  <2>1. flush[f].step \in {"read", "renamed"} /\ UNCHANGED <<file, overlapped>>
    BY <1>5 DEF FlushFails, FlushNote, diskVars
  <2>2. ~(lastSeen < saved)
    BY <1>1, <2>1, NoSaveUnseen
  <2>3. \A g \in Flushers : flush'[g].step = "read" => flush[g] = flush'[g]
    BY <1>5, NoFlushType, FlushStep DEF Inv
  <2> QED BY <1>1, <2>1, <2>2, <2>3 DEF Undisturbed
<1> QED BY <1>2, <1>3, <1>4, <1>5

LEMMA UndisturbedNext ==
  Inv /\ TypeInv /\ Settled /\ Undisturbed /\ [Next]_vars => Undisturbed'
<1> SUFFICES ASSUME Inv, TypeInv, Settled, Undisturbed, [Next]_vars, ~mingled'
             PROVE  Undisturbed'
  BY DEF Undisturbed
<1>1. CASE WriterRecord \/ WriterFlush \/ WriterRetireAndAdd \/ FlushNothing \/ WatcherLoad
           \/ WatcherLoadFails \/ PipelineReturns \/ CleanExit \/ UNCHANGED vars
  <2>1. /\ UNCHANGED <<file, version, lastSeen, saved, mingled>>
        /\ watcher' = "starting" => watcher = "starting"
        /\ Ended => Ended'
    BY <1>1 DEF WriterRecord, WriterFlush, WriterRetireAndAdd, FlushNothing, WatcherLoad,
                WatcherLoadFails, PipelineReturns, CleanExit, vars, diskVars, watchVars, envVars,
                saveVars, Ended
  <2>2. retired \subseteq retired'
    BY <1>1 DEF WriterRecord, WriterFlush, WriterRetireAndAdd, FlushNothing, WatcherLoad,
                WatcherLoadFails, PipelineReturns, CleanExit, vars, wlVars
  <2> QED BY <1>1, <2>1, <2>2, FlushersRest DEF Undisturbed
<1>2. CASE WatcherStart \/ WatcherTick
  <2>1. lastSeen' = version /\ UNCHANGED <<file, retired, saved, mingled>>
    BY <1>2 DEF WatcherStart, WatcherTick, diskVars, wlVars, envVars, saveVars
  <2>2. ~(lastSeen' < saved')
    BY <2>1 DEF TypeInv, ScalarsOK
  <2> QED BY <1>2, <2>1, <2>2, FlushersRest DEF Undisturbed
<1>3. CASE UserSave
  <2>1. /\ ~mingled /\ watcher # "starting"
        /\ \A f \in Flushers : flush[f].step \notin {"read", "renamed"}
    BY <1>3 DEF UserSave
  <2>2. saved' = version' /\ version' = version + 1 /\ UNCHANGED <<watcher, flush, stamp>>
    BY <1>3 DEF UserSave, watchVars, prunerVars
  <2>3. stamp' < saved'
    BY <2>2 DEF TypeInv, ScalarsOK
  <2> QED BY <2>1, <2>2, <2>3 DEF Undisturbed
<1>4. CASE Crash
  <2>1. running' = "crashed" /\ flush' = [f \in Flushers |-> NoFlush]
    BY <1>4 DEF Crash
  <2> QED BY <2>1 DEF Undisturbed, Ended, NoFlush
<1>5. CASE Restart
  <2>1. lastSeen' = 0 /\ saved' = 0 /\ flush' = [f \in Flushers |-> NoFlush]
    BY <1>5 DEF Restart
  <2> QED BY <2>1 DEF Undisturbed, NoFlush
<1> QED BY <1>1, <1>2, <1>3, <1>4, <1>5, UndisturbedFlush DEF Next

\* A flush changes the file by retired names only, and, if rewrites never overlapped,
\* never brings a name back.
LEMMA FileKept ==
  ASSUME Inv, TypeInv, Settled, Undisturbed, ~mingled', NEW f \in Flushers,
         FlushTake(f) \/ FlushRead(f) \/ FlushRename(f) \/ FlushFails(f) \/ FlushNote(f)
  PROVE  /\ Keys(file') \ retired' = Keys(file) \ retired
         /\ ~overlapped' => ~overlapped /\ file' \subseteq file
         /\ ~mingled /\ UNCHANGED <<running, loaded, retired, watcher, lastSeen, saved>>
         /\ faults' = 0 => faults = 0
<1>1. ~mingled /\ UNCHANGED <<running, loaded, retired, watcher, lastSeen, saved>>
  <2>1. CASE FlushRead(f)
    BY <2>1 DEF FlushRead, wlVars, watchVars
  <2>2. CASE FlushTake(f) \/ FlushRename(f) \/ FlushFails(f) \/ FlushNote(f)
    BY <2>2 DEF FlushTake, FlushRename, FlushFails, FlushNote, wlVars, watchVars, envVars,
                saveVars
  <2> QED BY <2>1, <2>2
<1>2. ~overlapped' => ~overlapped
  BY DEF FlushTake, FlushRead, FlushRename, FlushFails, FlushNote
<1>3. faults' = 0 => faults = 0
  BY DEF FlushTake, FlushRead, FlushRename, FlushFails, FlushNote, envVars, TypeInv, ScalarsOK
<1>4. CASE FlushRename(f)
  <2>1. /\ Keys(file') = Keys(flush[f].content) \ flush[f].batch /\ flush[f].step = "read"
        /\ file' \subseteq flush[f].content /\ overlapped' = overlapped
    BY <1>4, RewriteKeys DEF FlushRename
  <2> QED BY <1>1, <1>2, <1>3, <2>1 DEF Undisturbed, Settled
<1>5. CASE ~FlushRename(f)
  <2>1. file' = file
    BY <1>5 DEF FlushTake, FlushRead, FlushFails, FlushNote, diskVars
  <2> QED BY <1>1, <1>2, <1>3, <2>1
<1> QED BY <1>4, <1>5

\* Unless the watcher is about to load, or has yet to see a save, the worklist has the
\* file's names; or only found ones are left in it, when it was ignored as empty.
Synced ==
    ~Ended /\ faults = 0 /\ ~mingled /\ watcher # "loading" /\ saved <= lastSeen =>
      \/ Keys(file) \ retired = Keys(loaded) \ retired
      \/ Keys(file) \ retired = {} /\ (~overlapped => file = {})

LEMMA SyncedInit == Init => Synced
<1> SUFFICES ASSUME Init PROVE Keys(file) = Keys(loaded)
  BY DEF Synced
<1> QED BY LoadsOf DEF Init

LEMMA SyncedWatch ==
  TypeInv /\ Undisturbed /\ Synced /\ (WatcherStart \/ WatcherTick \/ WatcherLoad)
    => Synced'
<1> SUFFICES ASSUME TypeInv, Undisturbed, Synced, ~Ended', faults' = 0, ~mingled',
                    watcher' # "loading", WatcherStart \/ WatcherTick \/ WatcherLoad
             PROVE  Synced'
  BY DEF Synced
<1>1. /\ UNCHANGED <<file, retired, overlapped, saved, faults, mingled, version, stamp>>
      /\ ~Ended
  BY DEF WatcherStart, WatcherTick, WatcherLoad, diskVars, wlVars, prunerVars, envVars,
         saveVars, Ended
<1>2. CASE WatcherLoad
  <2>1. file = {} \/ Keys(loaded') = Keys(file)
    BY <1>2, LoadsOf DEF WatcherLoad
  <2> QED BY <1>1, <2>1, KeysEmpty DEF Synced
<1>3. CASE WatcherStart \/ WatcherTick
  <2>1. watcher \in {"starting", "waiting"} /\ loaded' = loaded
        /\ (watcher = "starting" \/ stamp = version)
    BY <1>3 DEF WatcherStart, WatcherTick, Ours, wlVars
  <2>2. ~(lastSeen < saved)
    BY <1>1, <2>1 DEF Undisturbed, TypeInv, ScalarsOK
  <2>3. saved <= lastSeen
    BY <2>2 DEF TypeInv, ScalarsOK
  <2> QED BY <1>1, <2>1, <2>3 DEF Synced
<1> QED BY <1>2, <1>3

LEMMA SyncedNext ==
  Inv /\ TypeInv /\ Settled /\ Undisturbed /\ Synced /\ [Next]_vars => Synced'
<1> SUFFICES ASSUME Inv, TypeInv, Settled, Undisturbed, Synced, [Next]_vars,
                    ~Ended', faults' = 0, ~mingled'
             PROVE  Synced'
  BY DEF Synced
<1>1. ASSUME NEW f \in Flushers,
             FlushTake(f) \/ FlushRead(f) \/ FlushRename(f) \/ FlushFails(f) \/ FlushNote(f)
      PROVE  Synced'
  <2>1. ~overlapped' /\ file = {} => file' = {}
    BY <1>1, FileKept
  <2> QED BY <1>1, <2>1, FileKept DEF Synced, Ended
<1>2. CASE WriterRecord \/ WriterFlush \/ WriterRetireAndAdd \/ FlushNothing
           \/ PipelineReturns \/ CleanExit \/ UNCHANGED vars
  <2>1. /\ UNCHANGED <<file, loaded, watcher, lastSeen, saved, mingled>>
        /\ Ended => Ended'
    BY <1>2 DEF WriterRecord, WriterFlush, WriterRetireAndAdd, FlushNothing, PipelineReturns,
                CleanExit, vars, diskVars, wlVars, watchVars, envVars, saveVars, Ended
  <2>2. faults = 0 /\ retired \subseteq retired'
    BY <1>2 DEF WriterRecord, WriterFlush, WriterRetireAndAdd, FlushNothing, PipelineReturns,
                CleanExit, vars, wlVars, envVars, TypeInv, ScalarsOK
  <2> QED BY <1>2, <2>1, <2>2, FlushersRest DEF Synced
<1>3. CASE UserSave
  <2>1. saved' = version + 1 /\ lastSeen' = lastSeen
    BY <1>3 DEF UserSave, watchVars
  <2>2. ~(saved' <= lastSeen')
    BY <2>1 DEF TypeInv, ScalarsOK
  <2> QED BY <2>2 DEF Synced
<1>4. CASE WatcherLoadFails \/ Crash
  BY <1>4 DEF WatcherLoadFails, Crash, Ended, TypeInv, ScalarsOK
<1>5. CASE Restart
  <2>1. file' = file /\ Keys(loaded') = Keys(file)
    BY <1>5, LoadsOf DEF Restart, diskVars
  <2> QED BY <2>1 DEF Synced
<1> QED BY <1>1, <1>2, <1>3, <1>4, <1>5, SyncedWatch DEF Next

\* Once the watcher has gone past a version of the file, the names still watched are
\* the file's, for every list and every sequence of saves, rewrites and restarts: the
\* pruner's stamp never hides an edit that came outside a rewrite (main.go, watchList;
\* pruner.go, note).
THEOREM SeenFileIsLoadedHolds == Spec => []SeenFileIsLoaded
<1>1. TypeInv /\ Synced => SeenFileIsLoaded
  BY DEF TypeInv, ScalarsOK, Synced, SeenFileIsLoaded
<1>2. TypeInv /\ [Next]_vars => TypeInv'
  BY TypeSink, TypeFlushers, TypeRest DEF Next
<1> QED
  BY InvInit, InvNext, TypeInit, SettledInit, SettledNext, UndisturbedInit, UndisturbedNext,
     SyncedInit, SyncedNext, <1>1, <1>2, PTL DEF Spec
-----------------------------------------------------------------------------
\* Without an edit or an overlap, a found name still in the file is pending, in a batch on
\* its way or of a batch that came to nothing, and one whose rewrite is done is out of the
\* file.
Pruning ==
    saves = 0 /\ ~overlapped /\ ~keepList =>
      /\ running # "crashed" => \A n \in retired \cap Keys(file) :
           n \in pending \/ n \in dropped \/ \E f \in Flushers : n \in flush[f].batch
      /\ \A f \in Flushers :
           flush[f].step = "renamed" => flush[f].batch \cap Keys(file) = {}

LEMMA PruningInit == Init => Pruning
BY DEF Init, Pruning, NoFlush

LEMMA PruningFlush ==
  ASSUME Inv, TypeInv, Settled, Undisturbed, Pruning, NEW f \in Flushers,
         FlushTake(f) \/ FlushRead(f) \/ FlushRename(f) \/ FlushFails(f) \/ FlushNote(f)
  PROVE  Pruning'
<1> SUFFICES ASSUME saves' = 0, ~overlapped', ~keepList' PROVE Pruning'
  BY DEF Pruning
<1>1. saves = 0 /\ ~keepList /\ ~mingled /\ ~mingled'
  <2>1. saves' = saves /\ keepList' = keepList
    BY FlushStep DEF Inv
  <2>2. ~(lastSeen < saved) /\ ~mingled
    BY <2>1 DEF Settled, TypeInv, ScalarsOK
  <2>3. mingled' \in {mingled, mingled \/ lastSeen < saved}
    BY DEF FlushTake, FlushRead, FlushRename, FlushFails, FlushNote, envVars, saveVars
  <2> QED BY <2>1, <2>2, <2>3
<1>2. ~overlapped /\ file' \subseteq file /\ UNCHANGED <<running, retired>>
  BY <1>1, FileKept
<1>3. Keys(file') \subseteq Keys(file)
  BY <1>2, KeysMono
<1>4. \A g \in Flushers : g # f => flush'[g] = flush[g]
  BY FlushStep DEF Inv
<1>5. CASE FlushTake(f)
  <2>1. flush[f].batch = {}
    BY <1>5 DEF FlushTake, Settled
  <2> QED BY <1>1, <1>2, <1>3, <1>4, <1>5, <2>1, FlushStep DEF Pruning, Inv
<1>6. CASE FlushRead(f)
  <2>1. pending' = pending
    BY <1>6 DEF FlushRead
  <2>2. CASE flush'[f] = NoFlush /\ dropped' = dropped \cup flush[f].batch
    BY <1>1, <1>2, <1>3, <1>4, <2>1, <2>2, NoFlushType DEF Pruning
  <2>3. CASE /\ flush'[f].step = "read" /\ flush'[f].batch = flush[f].batch
             /\ dropped' = dropped
    BY <1>1, <1>2, <1>3, <1>4, <2>1, <2>3 DEF Pruning
  <2> QED BY <1>6, <2>2, <2>3, FlushStep DEF Inv
<1>7. CASE FlushRename(f)
  <2>1. /\ Keys(file') = Keys(flush[f].content) \ flush[f].batch
        /\ pending' = pending
    BY <1>7, RewriteKeys DEF FlushRename
  <2>2. flush'[f].batch = flush[f].batch /\ dropped' = dropped
    BY <1>7, FlushStep DEF Inv
  <2> QED BY <1>1, <1>2, <1>3, <1>4, <2>1, <2>2 DEF Pruning
<1>8. CASE FlushFails(f)
  <2>1. /\ pending' = pending /\ flush'[f] = NoFlush
        /\ dropped' = dropped \cup flush[f].batch
    BY <1>8, FlushStep DEF FlushFails, Inv
  <2> QED BY <1>1, <1>2, <1>3, <1>4, <2>1, NoFlushType DEF Pruning
<1>9. CASE FlushNote(f)
  <2>1. /\ flush[f].step = "renamed" /\ pending' = pending /\ flush'[f] = NoFlush
        /\ dropped' = dropped
    BY <1>9, FlushStep DEF FlushNote, Inv
  <2>2. flush[f].batch \cap Keys(file') = {}
    BY <1>1, <1>2, <1>3, <2>1 DEF Pruning
  <2> QED BY <1>1, <1>2, <1>3, <1>4, <2>1, <2>2, NoFlushType DEF Pruning
<1> QED BY <1>5, <1>6, <1>7, <1>8, <1>9

LEMMA PruningNext ==
  Inv /\ TypeInv /\ Settled /\ Undisturbed /\ Pruning /\ [Next]_vars => Pruning'
<1> SUFFICES ASSUME Inv, TypeInv, Settled, Undisturbed, Pruning, [Next]_vars, saves' = 0,
                    ~overlapped', ~keepList'
             PROVE  Pruning'
  BY DEF Pruning
<1>0. file' = file => Keys(file)' = Keys(file)
  BY DEF Keys
<1>1. CASE WriterRetireAndAdd
  <2>1. /\ UNCHANGED <<file, running, saves, keepList, dropped>>
        /\ retired' = retired \cup {Key[hit]}
        /\ pending' = IF keepList THEN pending ELSE pending \cup {Key[hit]}
    BY <1>1 DEF WriterRetireAndAdd, diskVars, envVars
  <2> QED BY <1>0, <1>1, <2>1, FlushersRest DEF Pruning
<1>2. CASE WriterRecord \/ WriterFlush \/ FlushNothing \/ WatcherStart \/ WatcherTick
           \/ WatcherLoad \/ WatcherLoadFails \/ PipelineReturns \/ CleanExit \/ UNCHANGED vars
  <2>1. UNCHANGED <<file, retired, pending, saves, keepList, dropped>>
    BY <1>2 DEF WriterRecord, WriterFlush, FlushNothing, WatcherStart, WatcherTick, WatcherLoad,
                WatcherLoadFails, PipelineReturns, CleanExit, vars, diskVars, wlVars, prunerVars,
                envVars
  <2>2. running = "crashed" => running' = "crashed"
    BY <1>2 DEF WriterRecord, WriterFlush, FlushNothing, WatcherStart, WatcherTick, WatcherLoad,
                WatcherLoadFails, PipelineReturns, CleanExit, vars
  <2> QED BY <1>0, <1>2, <2>1, <2>2, FlushersRest DEF Pruning
<1>3. CASE Crash \/ Restart
  <2>1. /\ flush' = [f \in Flushers |-> NoFlush]
        /\ running' = "crashed" \/ retired' = {}
    BY <1>3 DEF Crash, Restart
  <2> QED BY <2>1 DEF Pruning, NoFlush
<1>4. ~UserSave
  BY DEF UserSave, TypeInv, ScalarsOK
<1> QED BY <1>1, <1>2, <1>3, <1>4, PruningFlush DEF Next

\* A clean end without an edit or an overlap leaves no found name in the file but those
\* of failed batches: what the last flush had to take is all there was (pruner.go, flush
\* and stop).
THEOREM CleanStopPrunesHolds == Spec => []CleanStopPrunes
<1>1. Settled /\ Pruning => CleanStopPrunes
  BY NoFlushType DEF Settled, Pruning, CleanStopPrunes, Ended, AllIdle, NoFlush
<1>2. TypeInv /\ [Next]_vars => TypeInv'
  BY TypeSink, TypeFlushers, TypeRest DEF Next
<1> QED
  BY InvInit, InvNext, TypeInit, SettledInit, SettledNext, UndisturbedInit, UndisturbedNext,
     PruningInit, PruningNext, <1>1, <1>2, PTL DEF Spec
=============================================================================
