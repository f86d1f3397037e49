------------------------------ MODULE ListSync ------------------------------
(***************************************************************************)
(* What happens to a hit on disk: the result sink appends it to            *)
(* available.txt, the pruner (pruner.go) takes it out of the usernames     *)
(* file in batches, the watcher (main.go, watchList) reloads that file     *)
(* when the user edits it and skips the pruner's own rewrites.  The        *)
(* process may crash between any two steps and be started again.           *)
(*                                                                         *)
(* A list is the set of its lines: names without ids, as the user spelled  *)
(* them.  The list and the worklist compare names by their lower-cased     *)
(* key, available.txt by the exact line.  A write gives the file a version *)
(* of its own: the modification time and size a stat reports.              *)
(***************************************************************************)
EXTENDS Naturals, FiniteSets

CONSTANTS
    Names,            \* names as they may be spelled
    Key,              \* strings.ToLower: the key of each spelling
    InitialFile,      \* the usernames file at the first start
    UserSaves,        \* the contents the user may save
    PruneBatchLimit,  \* pruneBatchLimit
    MaxUpsets         \* bound: user saves, I/O faults and restarts together

ASSUME ListSyncAssumption ==
    /\ Key \in [Names -> Names] /\ \A n \in Names : Key[Key[n]] = Key[n]
    /\ InitialFile \subseteq Names /\ InitialFile # {}
    /\ UserSaves \subseteq SUBSET Names
    /\ PruneBatchLimit \in Nat \ {0}
    /\ MaxUpsets \in Nat

\* flush runs on the pruner's own goroutine, on the writer's when a batch is
\* full, and on main's in stop.
Flushers == {"loop", "writer", "stop"}
NoFlush == [step |-> "idle", batch |-> {}, content |-> {}]

VARIABLES
    \* on disk
    file, version,      \* the usernames file and its latest version
    lines,              \* available.txt: how often each line stands in it
    \* the process
    running,            \* "up", "stopping" (the pipeline has returned), "ended" or "crashed"
    keepList,           \* cfg.keepList: no pruner
    loaded, known,      \* the worklist's names now; every name it has held
    retired,            \* the keys of the worklist's retired names
    writer, hit,        \* the writer's position in handling one hit
    seen, buffered,     \* resultSink.seen; the bufio buffer of available.txt
    sinkErr,            \* resultSink.err # nil; the bufio error is sticky with it
    pending,            \* the keys of listPruner.pending
    flush,              \* each flusher's local state
    stamp,              \* fileStamp: the version noted as ours, 0 for none
    watcher, lastSeen,  \* watchList's position and the version it last saw
    \* history
    pruned,             \* the keys the tool has taken out of the file
    dropped,            \* the keys of this process's batches that came to nothing
    unread,             \* lines of available.txt that some start did not read back
    saved,              \* the user's latest version of the file in this process's life
    mingled,            \* a save and a rewrite fell between two looks of the watcher
    overlapped,         \* two rewrites have overlapped
    saves, faults, starts

diskVars == <<file, version, lines>>
sinkVars == <<seen, buffered, sinkErr, unread>>
wlVars == <<loaded, known, retired>>
watchVars == <<watcher, lastSeen>>
prunerVars == <<pending, flush, stamp, pruned, dropped, overlapped>>
saveVars == <<saved, mingled>>
envVars == <<saveVars, saves, faults, starts>>
vars == <<diskVars, running, keepList, wlVars, writer, hit, sinkVars, prunerVars,
          watchVars, envVars>>

UpsetLeft == saves + faults + starts <= MaxUpsets

NoHit == CHOOSE n \in Names : TRUE

Ended == running \in {"ended", "crashed"}
Recorded == {n \in Names : lines[n] > 0}
Keys(list) == {Key[n] : n \in list}

\* What loadLines may return of a list: one line of each name.  It is the first one;
\* the order of the lines is not modelled.
Loads(list) ==
    {l \in SUBSET list : /\ Keys(l) = Keys(list)
                         /\ \A m, n \in l : Key[m] = Key[n] => m = n}

Init ==
    /\ file = InitialFile /\ version = 1
    /\ lines = [n \in Names |-> 0]
    /\ running = "up" /\ keepList \in BOOLEAN
    /\ loaded \in Loads(InitialFile) /\ known = loaded /\ retired = {}
    /\ seen = {} /\ buffered = {} /\ sinkErr = FALSE /\ unread = {}
    /\ writer = "idle" /\ hit = NoHit /\ pending = {} /\ stamp = 0
    /\ flush = [f \in Flushers |-> NoFlush]
    /\ watcher = "starting" /\ lastSeen = 0 /\ saved = 0 /\ mingled = FALSE
    /\ pruned = {} /\ dropped = {} /\ overlapped = FALSE
    /\ saves = 0 /\ faults = 0 /\ starts = 1
-----------------------------------------------------------------------------
\* resultSink.record: write the line unless the very same line was written before.
RecordOutcome(n) ==
    /\ seen' = seen \cup {n}
    /\ buffered' = IF n \in seen \/ sinkErr THEN buffered ELSE buffered \cup {n}
    /\ UNCHANGED <<sinkErr, unread>>

\* handleResult's record("available") for a name that is not retired.
WriterRecord ==
    /\ running = "up" /\ writer = "idle"
    /\ \E n \in known : Key[n] \notin retired /\ hit' = n /\ RecordOutcome(n)
    /\ writer' = "recorded"
    /\ UNCHANGED <<diskVars, running, keepList, wlVars, prunerVars, watchVars, envVars>>

\* flushNow("available").  After a failure the buffered writer refuses for good.
WriterFlush ==
    /\ writer = "recorded"
    /\ writer' = "flushed"
    /\ \/ /\ ~sinkErr
          /\ lines' = [n \in Names |-> IF n \in buffered THEN lines[n] + 1 ELSE lines[n]]
          /\ buffered' = {}
          /\ UNCHANGED <<sinkErr, faults>>
       \/ /\ UpsetLeft \/ sinkErr
          /\ sinkErr' = TRUE
          /\ faults' = IF sinkErr THEN faults ELSE faults + 1
          /\ UNCHANGED <<lines, buffered>>
    /\ UNCHANGED <<file, version, running, keepList, wlVars, hit, seen, unread, prunerVars,
                   watchVars, saveVars, saves, starts>>

\* wl.retire, then pruner.add unless -keep-list.  A full batch makes the writer
\* itself call flush.
WriterRetireAndAdd ==
    /\ writer = "flushed"
    /\ retired' = retired \cup {Key[hit]}
    /\ pending' = IF keepList THEN pending ELSE pending \cup {Key[hit]}
    /\ writer' = IF Cardinality(pending') >= PruneBatchLimit THEN "flushing" ELSE "idle"
    /\ hit' = NoHit
    /\ UNCHANGED <<diskVars, running, keepList, loaded, known, sinkVars, flush,
                   stamp, pruned, dropped, overlapped, watchVars, envVars>>
-----------------------------------------------------------------------------
\* Which goroutine may enter flush: the pruner's ticker while the run lasts, the
\* writer with a full batch, main once the pruner's goroutine has returned.
MayFlush(f) ==
    CASE f = "loop"   -> running = "up"
      [] f = "writer" -> writer = "flushing"
      [] f = "stop"   -> running = "stopping" /\ flush["loop"] = NoFlush

\* flush, under the lock: take the pending names.
FlushTake(f) ==
    /\ flush[f].step = "idle" /\ MayFlush(f) /\ pending # {}
    /\ flush' = [flush EXCEPT ![f] = [step |-> "taken", batch |-> pending, content |-> {}]]
    /\ pending' = {}
    /\ UNCHANGED <<diskVars, running, keepList, wlVars, writer, hit, sinkVars, stamp,
                   pruned, dropped, overlapped, watchVars, envVars>>

\* The writer's flush found pending empty: the other flusher took it.
FlushNothing ==
    /\ writer = "flushing" /\ flush["writer"].step = "idle" /\ pending = {}
    /\ writer' = "idle"
    /\ UNCHANGED <<diskVars, running, keepList, wlVars, hit, sinkVars, prunerVars,
                   watchVars, envVars>>

EndFlush(f) ==
    /\ flush' = [flush EXCEPT ![f] = NoFlush]
    /\ writer' = IF f = "writer" THEN "idle" ELSE writer

\* The batch comes to nothing; the next run will find its names again.
Drop(f) == EndFlush(f) /\ dropped' = dropped \cup flush[f].batch

\* Mutant of ResultsFailing: the sink is not asked.
ResultsTrusted == FALSE
\* sink.failure().
ResultsFailing == sinkErr

\* flush: with failing results the batch is dropped, otherwise removeFromList
\* reads the file.
FlushRead(f) ==
    /\ flush[f].step = "taken"
    /\ IF ResultsFailing
       THEN Drop(f) /\ UNCHANGED overlapped
       ELSE /\ flush' = [flush EXCEPT ![f].step = "read", ![f].content = file]
            /\ overlapped' = (overlapped \/ \E g \in Flushers \ {f} : flush[g].step = "read")
            /\ UNCHANGED <<writer, dropped>>
    /\ mingled' = (mingled \/ lastSeen < saved)
    /\ UNCHANGED <<diskVars, running, keepList, wlVars, hit, sinkVars, pending, stamp,
                   pruned, watchVars, saved, saves, faults, starts>>

\* removeFromList: rename the rewritten list over the file.
FlushRename(f) ==
    /\ flush[f].step = "read"
    /\ file' = {n \in flush[f].content : Key[n] \notin flush[f].batch}
    /\ version' = version + 1
    /\ pruned' = pruned \cup (Keys(flush[f].content) \cap flush[f].batch)
    /\ flush' = [flush EXCEPT ![f].step = "renamed"]
    /\ UNCHANGED <<lines, running, keepList, wlVars, writer, hit, sinkVars, pending,
                   stamp, dropped, overlapped, watchVars, envVars>>

\* removeFromList fails on the read, the temporary file or the rename: the batch
\* is dropped with a warning.
FlushFails(f) ==
    /\ flush[f].step = "read" /\ UpsetLeft
    /\ faults' = faults + 1
    /\ Drop(f)
    /\ UNCHANGED <<diskVars, running, keepList, wlVars, hit, sinkVars, pending, stamp,
                   pruned, overlapped, watchVars, saveVars, saves, starts>>

\* noteSelfWrite: stat the file as it is now and remember that as ours.
FlushNote(f) ==
    /\ flush[f].step = "renamed"
    /\ stamp' = version
    /\ EndFlush(f)
    /\ UNCHANGED <<diskVars, running, keepList, wlVars, hit, sinkVars, pending, pruned,
                   dropped, overlapped, watchVars, envVars>>
-----------------------------------------------------------------------------
\* watchList stats the file once before its loop.
WatcherStart ==
    /\ running = "up" /\ watcher = "starting"
    /\ watcher' = "waiting" /\ lastSeen' = version
    /\ UNCHANGED <<diskVars, running, keepList, wlVars, writer, hit, sinkVars,
                   prunerVars, envVars>>

\* Mutant of Ours: once anything was noted, every change is taken for the tool's.
OursEver == stamp # 0
\* fileStamp.isOurs.
Ours == stamp # 0 /\ stamp = version

\* A tick that finds a changed file: note its version, and skip our own rewrite.
WatcherTick ==
    /\ ~Ended /\ watcher = "waiting" /\ version # lastSeen
    /\ lastSeen' = version
    /\ watcher' = IF Ours THEN "waiting" ELSE "loading"
    /\ UNCHANGED <<diskVars, running, keepList, wlVars, writer, hit, sinkVars,
                   prunerVars, envVars>>

\* loadLines and wl.replace; an empty file is ignored.
WatcherLoad ==
    /\ ~Ended /\ watcher = "loading"
    /\ watcher' = "waiting"
    /\ IF file = {}
       THEN UNCHANGED <<loaded, known>>
       ELSE loaded' \in Loads(file) /\ known' = known \cup loaded'
    /\ UNCHANGED <<diskVars, running, keepList, retired, writer, hit, sinkVars,
                   prunerVars, lastSeen, envVars>>

\* loadLines fails; the version stays noted.
WatcherLoadFails ==
    /\ ~Ended /\ watcher = "loading" /\ UpsetLeft
    /\ watcher' = "waiting"
    /\ faults' = faults + 1
    /\ UNCHANGED <<diskVars, running, keepList, wlVars, writer, hit, sinkVars,
                   prunerVars, lastSeen, saveVars, saves, starts>>
-----------------------------------------------------------------------------
UserSave ==
    /\ UpsetLeft
    /\ \E content \in UserSaves \ {file} : file' = content
    /\ version' = version + 1 /\ saves' = saves + 1
    /\ saved' = version'
    /\ mingled' = (mingled \/ watcher = "starting"
                            \/ \E f \in Flushers : flush[f].step \in {"read", "renamed"})
    /\ UNCHANGED <<lines, running, keepList, wlVars, writer, hit, sinkVars, prunerVars,
                   watchVars, faults, starts>>

\* The pipeline has drained; main calls pruner.stop.
PipelineReturns ==
    /\ running = "up" /\ writer = "idle"
    /\ running' = "stopping"
    /\ UNCHANGED <<diskVars, keepList, wlVars, writer, hit, sinkVars, prunerVars,
                   watchVars, envVars>>

\* Mutant of CleanExit: pruner.stop does not flush what is still pending.
CleanExitUnflushed ==
    /\ running = "stopping"
    /\ \A f \in Flushers : flush[f] = NoFlush
    /\ running' = "ended"
    /\ UNCHANGED <<diskVars, keepList, wlVars, writer, hit, sinkVars, prunerVars,
                   watchVars, envVars>>

\* pruner.stop has flushed; the process ends.
CleanExit ==
    /\ running = "stopping" /\ pending = {}
    /\ \A f \in Flushers : flush[f] = NoFlush
    /\ running' = "ended"
    /\ UNCHANGED <<diskVars, keepList, wlVars, writer, hit, sinkVars, prunerVars,
                   watchVars, envVars>>

\* The process is killed; what is in its memory is gone.
Crash ==
    /\ ~Ended
    /\ running' = "crashed"
    /\ writer' = "idle" /\ hit' = NoHit /\ pending' = {}
    /\ seen' = {} /\ buffered' = {}
    /\ flush' = [f \in Flushers |-> NoFlush]
    /\ UNCHANGED <<diskVars, keepList, wlVars, sinkErr, unread, stamp, pruned,
                   dropped, overlapped, watchVars, envVars>>

\* Mutant of Primed: available.txt is not read back.
PrimedEmpty(read) == {}
\* resultSink.loadSeen, which has read these lines.
Primed(read) == read

\* The tool is started again on what the disk holds: loadLines, which refuses an
\* empty list, and newResultSink.  When available.txt cannot be opened for reading, or
\* the scan breaks off, loadSeen says nothing and goes by what it has read.
Restart ==
    /\ Ended /\ file # {} /\ UpsetLeft
    /\ running' = "up" /\ starts' = starts + 1
    /\ loaded' \in Loads(file) /\ known' = loaded' /\ retired' = {}
    /\ \E read \in SUBSET Recorded :
          /\ seen' = Primed(read)
          /\ unread' = unread \cup (Recorded \ read)
          /\ faults' = IF read = Recorded THEN faults ELSE faults + 1
    /\ buffered' = {} /\ sinkErr' = FALSE
    /\ writer' = "idle" /\ hit' = NoHit /\ pending' = {} /\ stamp' = 0 /\ dropped' = {}
    /\ flush' = [f \in Flushers |-> NoFlush]
    /\ watcher' = "starting" /\ lastSeen' = 0 /\ saved' = 0 /\ mingled' = FALSE
    /\ UNCHANGED <<diskVars, keepList, pruned, overlapped, saves>>

Next ==
    \/ WriterRecord \/ WriterFlush \/ WriterRetireAndAdd \/ FlushNothing
    \/ \E f \in Flushers : FlushTake(f) \/ FlushRead(f) \/ FlushRename(f)
                           \/ FlushFails(f) \/ FlushNote(f)
    \/ WatcherStart \/ WatcherTick \/ WatcherLoad \/ WatcherLoadFails
    \/ UserSave \/ PipelineReturns \/ CleanExit \/ Crash \/ Restart

Spec == Init /\ [][Next]_vars
-----------------------------------------------------------------------------
TypeOK ==
    /\ file \subseteq Names /\ version \in Nat /\ lines \in [Names -> Nat]
    /\ running \in {"up", "stopping", "ended", "crashed"} /\ keepList \in BOOLEAN
    /\ loaded \subseteq Names /\ known \subseteq Names /\ retired \subseteq Keys(known)
    /\ writer \in {"idle", "recorded", "flushed", "flushing"} /\ hit \in Names
    /\ seen \subseteq Names /\ buffered \subseteq Names /\ sinkErr \in BOOLEAN
    /\ pending \subseteq retired
    /\ flush \in [Flushers -> [step : {"idle", "taken", "read", "renamed"},
                               batch : SUBSET Names, content : SUBSET Names]]
    /\ stamp \in 0 .. version
    /\ watcher \in {"starting", "waiting", "loading"}
    /\ lastSeen \in 0 .. version /\ saved \in 0 .. version /\ mingled \in BOOLEAN
    /\ pruned \subseteq Names /\ dropped \subseteq Names /\ unread \subseteq Names
    /\ overlapped \in BOOLEAN
    /\ saves \in Nat /\ faults \in Nat /\ starts \in Nat

\* A name the tool has ever taken out of the usernames file stands in
\* available.txt, in one spelling or another: through failed writes, crashes between
\* any two steps and restarts, one of the two files holds it (pruner.go, flush;
\* main.go, record).
PrunedIsRecorded == pruned \subseteq Keys(Recorded)

\* available.txt, which every run appends to, never repeats a line, neither when a
\* name is found again after a crash kept it in the list, nor when the user puts it
\* back; but for lines a start could not read back (main.go, loadSeen and record).
RecordedOnce == \A n \in Names \ unread : lines[n] <= 1

\* After a clean end without an edit by the user, the names found in that run that are
\* left in the usernames file are those of batches that failed, and no others, unless
\* two rewrites overlapped (pruner.go, flush and stop).
CleanStopPrunes ==
    running = "ended" /\ ~keepList /\ saves = 0 /\ ~overlapped
        => retired \cap Keys(file) \subseteq dropped

\* Once the watcher has gone past a version of the file, because it has read it or
\* because it took it for the pruner's, the names still watched are those the file
\* holds, unless the user saved before the watcher's first look, during a rewrite, or so
\* that the rewrite came before the watcher's look (main.go, watchList; pruner.go, note).
\* An empty file is ignored, and names found long ago may come back into one when two
\* rewrites overlap.
SeenFileIsLoaded ==
    /\ ~Ended /\ faults = 0 /\ ~mingled /\ watcher = "waiting" /\ lastSeen = version
    /\ file # {} /\ (overlapped => Keys(file) \ retired # {})
    => Keys(file) \ retired = Keys(loaded) \ retired
=============================================================================
