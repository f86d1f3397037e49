----------------------------- MODULE Preflight -----------------------------
(***************************************************************************)
(* The proxy test before a run (proxycheck.go; main.go, main): a few       *)
(* workers ask one question through every proxy of proxies.txt, and those  *)
(* that failed are moved: appended to proxies-dead.txt, then taken out of  *)
(* proxies.txt.  The user may edit the list meanwhile, Ctrl-C may cut the  *)
(* test short, and the process may be killed and started again.            *)
(*                                                                         *)
(* A file is the set of its lines, a proxy standing for every line with    *)
(* its key.  A proxy is shown, and recorded as dead, with the password of  *)
(* its credentials masked, which is a line of another proxy.               *)
(***************************************************************************)
EXTENDS Naturals

CONSTANTS
    Proxies,         \* the lines parseProxy accepts
    Shown,           \* proxySpec.String: the line each is shown as
    Broken,          \* the lines it rejects
    FirstList,       \* proxies.txt at the first start
    UserSaves,       \* the contents the user may save
    Testers,         \* checkProxies' workers
    Idle, Gone,      \* a worker at the jobs channel, a worker that returned
    MaxProxySaves,   \* bound: the user's saves
    MaxStarts        \* bound: processes started

ProxyLines == Proxies \cup Broken

ASSUME PreflightAssumption ==
    /\ Shown \in [Proxies -> Proxies] /\ \A p \in Proxies : Shown[Shown[p]] = Shown[p]
    /\ Proxies \cap Broken = {} /\ Proxies \cap {Idle, Gone} = {} /\ Idle # Gone
    /\ FirstList \subseteq ProxyLines /\ UserSaves \subseteq SUBSET ProxyLines
    /\ MaxProxySaves \in Nat /\ MaxStarts \in Nat

VARIABLES
    proxyFile, dead, \* the disk: proxies.txt, proxies-dead.txt
    savedProxies,    \* history: what the user last saved
    step,            \* the main goroutine's place
    keepDead,        \* cfg.keepDeadProxies
    pool,            \* pool.items
    queue,           \* the proxies not handed out yet
    jobsClosed,      \* close(jobs) has run
    testing,         \* the proxy each worker is testing, Idle or Gone
    reports,         \* what each report says: "untested", "ok" or "failed"
    draft,           \* the lines pruneProxies is about to write
    interrupted,     \* ctx is done
    cut,             \* history: tests that failed only because ctx was done
    overwritten,     \* history: the user saved between prune's read and its rename
    proxySaves, starts

diskVars == <<proxyFile, dead>>
userVars == <<savedProxies, overwritten, proxySaves>>
testVars == <<queue, jobsClosed, testing, reports, cut>>
preflightVars == <<diskVars, userVars, testVars, step, keepDead, pool, draft, interrupted, starts>>

\* "testing": in checkProxies.  "tested": it returned.  "recorded": writeDeadProxies
\* did its work.  "rewriting": pruneProxies has read the list.  "over": main is past
\* the test, or the program has ended.
Steps == {"testing", "tested", "recorded", "rewriting", "over", "killed"}

\* With no proxy there is nothing to test.
AfterLoad(list) == IF list = {} THEN "over" ELSE "testing"

TestInit ==
    /\ proxyFile = FirstList /\ dead = {}
    /\ savedProxies = proxyFile /\ overwritten = FALSE /\ proxySaves = 0
    /\ keepDead \in BOOLEAN
    /\ pool = proxyFile \cap Proxies /\ step = AfterLoad(pool)
    /\ queue = pool /\ jobsClosed = FALSE
    /\ testing = [w \in Testers |-> Idle]
    /\ reports = [p \in Proxies |-> "untested"]
    /\ draft = {} /\ interrupted = FALSE /\ cut = {} /\ starts = 1

\* main loads the list again.
Restart ==
    /\ step \in {"over", "killed"} /\ starts < MaxStarts
    /\ pool' = proxyFile \cap Proxies /\ step' = AfterLoad(pool')
    /\ queue' = pool' /\ jobsClosed' = FALSE
    /\ testing' = [w \in Testers |-> Idle]
    /\ reports' = [p \in Proxies |-> "untested"]
    /\ draft' = {} /\ interrupted' = FALSE /\ cut' = {} /\ starts' = starts + 1
    /\ UNCHANGED <<diskVars, userVars, keepDead>>
-----------------------------------------------------------------------------
\* checkProxies: the jobs channel has no buffer, so a proxy goes to a worker that
\* waits for one.  The select may prefer this to a ctx that is done.
HandOut(w) ==
    /\ step = "testing" /\ ~jobsClosed /\ testing[w] = Idle
    /\ \E p \in queue :
          /\ testing' = [testing EXCEPT ![w] = p]
          /\ queue' = queue \ {p}
    /\ UNCHANGED <<diskVars, userVars, step, keepDead, pool, jobsClosed, reports, draft,
                   interrupted, cut, starts>>

CloseTests ==
    /\ step = "testing" /\ ~jobsClosed
    /\ queue = {} \/ interrupted
    /\ jobsClosed' = TRUE
    /\ UNCHANGED <<diskVars, userVars, step, keepDead, pool, queue, testing, reports, draft,
                   interrupted, cut, starts>>

\* testProxy filled its report in, with tested set before anything was asked.
Reports(w, result) ==
    /\ step = "testing" /\ testing[w] \in Proxies
    /\ reports' = [reports EXCEPT ![testing[w]] = result]
    /\ testing' = [testing EXCEPT ![w] = Idle]
    /\ UNCHANGED <<diskVars, userVars, step, keepDead, pool, queue, jobsClosed, draft,
                   interrupted, starts>>

\* The proxy told the truth; it lied, refused, or did not answer in time.
TestPasses(w) == Reports(w, "ok") /\ UNCHANGED cut
TestFails(w) == Reports(w, "failed") /\ UNCHANGED cut

\* The request was cancelled: an error like any other.
TestCut(w) ==
    /\ interrupted /\ Reports(w, "failed")
    /\ cut' = cut \cup {testing[w]}

WorkerLeaves(w) ==
    /\ jobsClosed /\ testing[w] = Idle
    /\ testing' = [testing EXCEPT ![w] = Gone]
    /\ UNCHANGED <<diskVars, userVars, step, keepDead, pool, queue, jobsClosed, reports, draft,
                   interrupted, cut, starts>>

Goes(place) ==
    step' = place /\ UNCHANGED <<userVars, testVars, keepDead, pool, interrupted, starts>>

TestsDone ==
    /\ step = "testing" /\ \A w \in Testers : testing[w] = Gone
    /\ Goes("tested") /\ UNCHANGED <<diskVars, draft>>
-----------------------------------------------------------------------------
\* Mutant of Failed: a report never filled in counts as a failure.
FailedUntested == {p \in pool : reports[p] # "ok"}
\* The proxies tested and not ok: what both files are told.
Failed == {p \in pool : reports[p] = "failed"}

\* What writeDeadProxies writes of some proxies.
Written(proxies) == {Shown[p] : p \in proxies}

\* writeDeadProxies.
Record ==
    /\ step = "tested" /\ ~keepDead /\ Failed # {}
    /\ dead' = dead \cup Written(Failed)
    /\ Goes("recorded") /\ UNCHANGED <<proxyFile, draft>>

\* Mutant of RecordFails: main does not look at the error.
RecordFailsUnseen ==
    /\ step = "tested" /\ ~keepDead /\ Failed # {}
    /\ \E part \in SUBSET Failed : dead' = dead \cup Written(part)
    /\ Goes("recorded") /\ UNCHANGED <<proxyFile, draft>>
\* It failed, perhaps halfway: the list is left as it is.
RecordFails ==
    /\ step = "tested" /\ ~keepDead /\ Failed # {}
    /\ \E part \in SUBSET Failed : dead' = dead \cup Written(part)
    /\ Goes("over") /\ UNCHANGED <<proxyFile, draft>>

NothingToMove ==
    /\ step = "tested" /\ (keepDead \/ Failed = {})
    /\ Goes("over") /\ UNCHANGED <<diskVars, draft>>

\* Mutant of Kept: the list is written back as it was loaded.
KeptOfLoaded == pool \ Failed
\* pruneProxies: the list as it is now, without the failed and the unreadable.
Kept == (proxyFile \cap Proxies) \ Failed

PruneRead ==
    /\ step = "recorded"
    /\ draft' = Kept
    /\ Goes("rewriting") /\ UNCHANGED diskVars

PruneRename ==
    /\ step = "rewriting"
    /\ proxyFile' = draft /\ draft' = {}
    /\ Goes("over") /\ UNCHANGED dead

\* A read, a write or the rename failed.
PruneFails ==
    /\ step \in {"recorded", "rewriting"}
    /\ draft' = {}
    /\ Goes("over") /\ UNCHANGED diskVars
-----------------------------------------------------------------------------
UserSave ==
    /\ proxySaves < MaxProxySaves
    /\ proxyFile' \in UserSaves /\ savedProxies' = proxyFile'
    /\ proxySaves' = proxySaves + 1
    /\ overwritten' = (overwritten \/ step = "rewriting")
    /\ UNCHANGED <<dead, testVars, step, keepDead, pool, draft, interrupted, starts>>

Running == step \notin {"over", "killed"}

\* Ctrl-C; main notices only in checkProxies, and goes on to the files.
CancelTest ==
    /\ Running /\ ~interrupted
    /\ interrupted' = TRUE
    /\ UNCHANGED <<diskVars, userVars, testVars, step, keepDead, pool, draft, starts>>

\* Killed, by a second Ctrl-C for one.
Crash ==
    /\ Running
    /\ step' = "killed" /\ draft' = {}
    /\ testing' = [w \in Testers |-> Gone]
    /\ UNCHANGED <<diskVars, userVars, queue, jobsClosed, reports, cut, keepDead, pool,
                   interrupted, starts>>

TestNext ==
    \/ \E w \in Testers :
          HandOut(w) \/ TestPasses(w) \/ TestFails(w) \/ TestCut(w) \/ WorkerLeaves(w)
    \/ CloseTests \/ TestsDone
    \/ Record \/ RecordFails \/ NothingToMove
    \/ PruneRead \/ PruneRename \/ PruneFails
    \/ UserSave \/ CancelTest \/ Crash \/ Restart

TestSpec == TestInit /\ [][TestNext]_preflightVars
-----------------------------------------------------------------------------
TestTypeOK ==
    /\ proxyFile \subseteq ProxyLines /\ savedProxies \subseteq ProxyLines
    /\ draft \subseteq Proxies
    /\ dead \subseteq Proxies /\ pool \subseteq Proxies /\ cut \subseteq Proxies
    /\ queue \subseteq pool
    /\ step \in Steps
    /\ keepDead \in BOOLEAN /\ jobsClosed \in BOOLEAN
    /\ interrupted \in BOOLEAN /\ overwritten \in BOOLEAN
    /\ testing \in [Testers -> pool \cup {Idle, Gone}]
    /\ reports \in [Proxies -> {"untested", "ok", "failed"}]
    /\ \A w \in Testers : testing[w] \in pool => testing[w] \notin queue
    /\ proxySaves \in 0 .. MaxProxySaves /\ starts \in Nat

\* Whatever fails and wherever the process is killed, a proxy of the user's list stands
\* in it or, as it is shown, among the dead; only a save between prune's read and its
\* rename may be lost (proxycheck.go, writeDeadProxies and pruneProxies; main.go, main).
NoProxyLost ==
    ~overwritten =>
        \A p \in savedProxies \cap Proxies : p \in proxyFile \/ Shown[p] \in dead

TakenOut == (proxyFile \ proxyFile') \cap Proxies

\* A proxy that was never asked, because the test was interrupted or because the user
\* added it while it ran, is not taken out of the list (proxycheck.go, pruneProxies).
UntestedStays ==
    [][PruneRename /\ ~overwritten => \A p \in TakenOut : reports[p] # "untested"]_preflightVars

\* What the comment on pruneProxies promises of a Ctrl-C: only proxies proven dead go.
OnlyProvenDeadGo ==
    [][PruneRename /\ ~overwritten => TakenOut \cap cut = {}]_preflightVars
=============================================================================
