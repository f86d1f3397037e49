------------------------------ MODULE Pipeline ------------------------------
(***************************************************************************)
(* One run of the checker (main.go, runPipeline): workers pull names from  *)
(* the worklist and send results over a bounded channel, a single writer   *)
(* consumes them and owns the list's lifecycle, the file watcher swaps     *)
(* edited lists in, and the main goroutine shuts everything down in order. *)
(* What a check asks the network is abstracted to its verdict.             *)
(***************************************************************************)
EXTENDS Worklist

CONSTANTS
    Workers,    \* the -t worker goroutines
    Invalid,    \* the names validUsername rejects
    Idle, Gone, \* a worker at the top of its loop, a worker that returned
    MaxEdits,   \* bound: re-reads of an edited file in one behaviour
    CountCap    \* bound: the per-name counters stop here

ASSUME PipelineAssumption ==
    /\ IsFiniteSet(Workers) /\ Workers # {}
    /\ Invalid \subseteq Names
    /\ Idle # Gone /\ Idle \notin Names /\ Gone \notin Names
    /\ MaxEdits \in Nat /\ CountCap \in Nat /\ CountCap >= 2

\* "taken" stands for every status that leaves the name in rotation: taken,
\* unknown and error are counted and written to files of their own, no more.
Statuses == {"available", "taken", "invalid"}
Results == [name : Names, status : Statuses]
NoResult == [name |-> CHOOSE n \in Names : TRUE, status |-> "taken"]

VARIABLES
    at,             \* the name each worker is checking or sending, Idle or Gone
    results,        \* the results channel
    resultsClosed,  \* close(results) has run
    cancelled,      \* runCtx is done: Ctrl-C, or the canary guard's halt
    halting,        \* the guard is between wl.close and halt
    writer,         \* the writer's position in its loop
    handling,       \* the result it is working on
    found,          \* per name: available results handled (file, hook, webhook)
    others,         \* per name: other results handled, counted in a single pass
    edits           \* edited lists read so far

pipeVars == <<at, results, resultsClosed, cancelled, halting, writer, handling,
              found, others, edits>>
vars == <<wlVars, pipeVars>>

ResultsCap == 2 * Cardinality(Workers)

Init ==
    /\ WorklistInit
    /\ at = [w \in Workers |-> Idle]
    /\ results = <<>> /\ resultsClosed = FALSE
    /\ cancelled = FALSE /\ halting = FALSE
    /\ writer = "receiving" /\ handling = NoResult
    /\ found = [n \in Names |-> 0] /\ others = [n \in Names |-> 0]
    /\ edits = 0
-----------------------------------------------------------------------------
\* runWorker.
WorkerClaim(w) ==
    /\ at[w] = Idle
    /\ \E n \in Names : Claim(n, cancelled) /\ at' = [at EXCEPT ![w] = n]
    /\ UNCHANGED <<results, resultsClosed, cancelled, halting, writer, handling, found,
                   others, edits>>

WorkerRefused(w) ==
    /\ at[w] = Idle
    /\ ClaimRefused(cancelled)
    /\ at' = [at EXCEPT ![w] = Gone]
    /\ UNCHANGED <<results, resultsClosed, cancelled, halting, writer, handling, found,
                   others, edits>>

\* The check's verdict; a name validUsername rejects is never asked about.
Verdicts(n) == IF n \in Invalid THEN {"invalid"} ELSE {"available", "taken"}

WorkerSend(w) ==
    /\ at[w] \in Names
    /\ Len(results) < ResultsCap
    /\ \E s \in Verdicts(at[w]) :
          results' = Append(results, [name |-> at[w], status |-> s])
    /\ at' = [at EXCEPT ![w] = Idle]
    /\ UNCHANGED <<wlVars, resultsClosed, cancelled, halting, writer, handling, found,
                   others, edits>>

\* The select on ctx.Done in place of the send: the result is thrown away.
WorkerAbandon(w) ==
    /\ at[w] \in Names /\ cancelled
    /\ at' = [at EXCEPT ![w] = Gone]
    /\ UNCHANGED <<wlVars, results, resultsClosed, cancelled, halting, writer, handling,
                   found, others, edits>>
-----------------------------------------------------------------------------
Bump(count, n) == [count EXCEPT ![n] = IF @ < CountCap THEN @ + 1 ELSE @]

\* Mutant of Stale: no retiredName test.
NoStaleCheck(n) == FALSE
\* runWriter: retiredName tells a copy of a check whose name is already retired.
Stale(n) == n \in retired

\* runWriter: receive one result, drop it if stale, otherwise handleResult.
WriterReceive ==
    /\ writer = "receiving" /\ results # <<>>
    /\ LET res == Head(results) IN
          IF Stale(res.name)
          THEN UNCHANGED <<writer, handling, found, others>>
          ELSE /\ handling' = IF res.status = "taken" THEN NoResult ELSE res
               /\ writer' = IF res.status = "taken" THEN "receiving" ELSE "retiring"
               /\ found' = IF res.status = "available" THEN Bump(found, res.name) ELSE found
               /\ others' = IF res.status # "available" /\ ~cycle
                            THEN Bump(others, res.name) ELSE others
    /\ results' = Tail(results)
    /\ UNCHANGED <<wlVars, at, resultsClosed, cancelled, halting, edits>>

\* runWriter: retire the name, and note whether that emptied the list.
WriterRetire ==
    /\ writer = "retiring"
    /\ Retire(handling.name)
    /\ writer' = IF handling.status = "available" /\ live' = 0
                 THEN "closing" ELSE "receiving"
    /\ handling' = NoResult
    /\ UNCHANGED <<at, results, resultsClosed, cancelled, halting, found, others, edits>>

\* runWriter: "every name in the list is available - nothing left to watch".
WriterClose ==
    /\ writer = "closing"
    /\ Close
    /\ writer' = "receiving"
    /\ UNCHANGED <<at, results, resultsClosed, cancelled, halting, handling, found, others, edits>>

\* Mutant of WriterReturn: it leaves as soon as the channel is closed.
WriterReturnUndrained ==
    /\ writer = "receiving" /\ resultsClosed
    /\ writer' = "gone"
    /\ UNCHANGED <<wlVars, at, results, resultsClosed, cancelled, halting, handling, found,
                   others, edits>>

\* runWriter: the channel is closed and drained.
WriterReturn ==
    /\ writer = "receiving" /\ results = <<>> /\ resultsClosed
    /\ writer' = "gone"
    /\ UNCHANGED <<wlVars, at, results, resultsClosed, cancelled, halting, handling, found,
                   others, edits>>
-----------------------------------------------------------------------------
\* Ctrl-C.
Cancel ==
    /\ ~cancelled /\ writer # "gone"
    /\ cancelled' = TRUE
    /\ UNCHANGED <<wlVars, at, results, resultsClosed, halting, writer, handling, found,
                   others, edits>>

\* guard.watch found the endpoint's contract broken and calls onBroken, which closes
\* the list first and cancels the run after.
GuardCloses ==
    /\ ~halting /\ ~cancelled /\ writer # "gone"
    /\ Close
    /\ halting' = TRUE
    /\ UNCHANGED <<at, results, resultsClosed, cancelled, writer, handling, found,
                   others, edits>>

GuardHalts ==
    /\ halting
    /\ cancelled' = TRUE /\ halting' = FALSE
    /\ UNCHANGED <<wlVars, at, results, resultsClosed, writer, handling, found,
                   others, edits>>

\* runPipeline's goroutine that waits for ctx.Done.
CancelCloses ==
    /\ cancelled /\ ~closed /\ writer # "gone"
    /\ Close
    /\ UNCHANGED pipeVars

\* runPipeline: wg.Wait, then close(results).
CloseResults ==
    /\ ~resultsClosed
    /\ \A w \in Workers : at[w] = Gone
    /\ resultsClosed' = TRUE
    /\ UNCHANGED <<wlVars, at, results, cancelled, halting, writer, handling, found, others, edits>>

\* watchList found an edited file; it runs only in loop mode.
WatcherBegin ==
    /\ cycle /\ writer # "gone" /\ edits < MaxEdits
    /\ \E list \in EditLists : ReplaceBegin(list)
    /\ edits' = edits + 1
    /\ UNCHANGED <<at, results, resultsClosed, cancelled, halting, writer, handling, found, others>>

WatcherSwap == ReplaceSwap /\ UNCHANGED pipeVars

Done == writer = "gone" /\ UNCHANGED vars

Next ==
    \/ \E w \in Workers : WorkerClaim(w) \/ WorkerRefused(w)
                          \/ WorkerSend(w) \/ WorkerAbandon(w)
    \/ WriterReceive \/ WriterRetire \/ WriterClose \/ WriterReturn
    \/ Cancel \/ GuardCloses \/ GuardHalts \/ CancelCloses \/ CloseResults
    \/ WatcherBegin \/ WatcherSwap
    \/ Done

\* Every goroutine of the pipeline keeps running while it can take a step; the
\* user's edits and the cancellation need never come.
Fairness ==
    /\ \A w \in Workers :
          /\ WF_vars(WorkerClaim(w) \/ WorkerRefused(w))
          /\ WF_vars(WorkerSend(w) \/ WorkerAbandon(w))
    /\ WF_vars(WriterReceive \/ WriterRetire \/ WriterClose \/ WriterReturn)
    /\ WF_vars(GuardHalts) /\ WF_vars(CancelCloses) /\ WF_vars(CloseResults)
    /\ WF_vars(WatcherSwap)

Spec == Init /\ [][Next]_vars
FairSpec == Spec /\ Fairness
-----------------------------------------------------------------------------
TypeOK ==
    /\ WorklistTypeOK
    /\ at \in [Workers -> Names \cup {Idle, Gone}]
    /\ results \in Seq(Results)
    /\ resultsClosed \in BOOLEAN /\ cancelled \in BOOLEAN /\ halting \in BOOLEAN
    /\ writer \in {"receiving", "retiring", "closing", "gone"}
    /\ handling \in Results
    /\ found \in [Names -> 0 .. CountCap] /\ others \in [Names -> 0 .. CountCap]
    /\ edits \in 0 .. MaxEdits

\* The count that decides when the run is over is never higher than the entries
\* still to be watched, whatever retirements land between replace's two critical
\* sections: a run whose list is used up always sees live = 0 (worklist.go, replace).
LiveNeverOver == live <= Cardinality(Watched)

\* However many copies of a check are in flight, in the channel or claimed again
\* before the first answer is handled, one name is reported found at most once
\* (main.go, runWriter's retiredName test and retire).
FoundOnce == \A n \in Names : found[n] <= 1

\* A single pass that neither Ctrl-C nor the canary guard stopped has, when the writer
\* returns, handled exactly one result for every name of the list: none lost in the
\* channel at shutdown, none handed out twice (worklist.go, claim; main.go, runPipeline).
Halted == cancelled \/ halting
SinglePassExact ==
    writer = "gone" /\ ~cycle /\ ~Halted =>
        \A i \in DOMAIN names : found[names[i]] + others[names[i]] = 1

\* Loop mode, as long as workers run: a name that stays unretired is asked about again
\* and again, whichever names are retired around the rotation cursor and however the
\* list is edited under it, until the run is told to stop (worklist.go, claim and
\* replace).  An edit may end every worker early: the refused run shows how.
EveryWatchedNameAsked ==
    \A n \in Names :
        []<>( \/ ~cycle \/ cancelled \/ closed
              \/ edits > 0 /\ \A w \in Workers : at[w] = Gone
              \/ n \notin {names[i] : i \in Watched}
              \/ \E w \in Workers : at[w] = n)

\* The run ends: after a cancellation, at the end of a single pass, and when no
\* unretired name is left and no edit brings one back.  Workers, writer and main
\* never wait on each other for ever (main.go, runPipeline).
UsedUp == Watched = {} /\ staged = NoReplace /\ edits = MaxEdits
RunEnds == cancelled \/ closed \/ ~cycle \/ UsedUp ~> writer = "gone"

\* What the comment on claim says of loop mode: no worker is refused a name (and so
\* ended for good) while any name of the list is live.
NeverRefusedWhileLive ==
    [][\A w \in Workers :
          at[w] = Idle /\ at'[w] = Gone /\ cycle /\ ~closed /\ ~cancelled
              => Watched = {}]_vars
=============================================================================
