# Mighty: models, checks and proofs

TLA+ modules for the username checker in `src/`, the TLC runs that check them
on small instances, and proofs that TLAPS checks for every value of the
constants. `PROJECT.json` lists the runs, the mutants that show each property
can fail, the map from definitions to source lines, the hazards, the findings
and the theorems.

To check a run: `tlc -config MCPipeline.cfg MCPipeline.tla`. To check proofs:
`tlapm Pipeline_proofs.tla`.

## The system

The program reads a list of usernames and asks Instagram's sign-up endpoint
about each, through a pool of proxies, from many goroutines. Names that are
free go to `available.txt` and leave the list. In loop mode (`-loop`) the list
is watched for ever.

| component | state it keeps | operations | talks to |
| --- | --- | --- | --- |
| worklist (`worklist.go`) | names, retired keys, `live`, two cursors, `retireGen`, `closed` | `claim`, `retire`, `retiredName`, `replace`, `close` | workers, the writer, the file watcher |
| pipeline (`main.go`: `runPipeline`, `runWorker`, `runWriter`) | the results channel, the run's context | hand out, check, send, record, retire, shut down | everything below |
| result sink (`main.go`: `resultSink`) | buffers, the names seen, the first error | `record`, `flushBucket`, `failure`, `loadSeen` | the disk |
| list pruner (`pruner.go`) | the pending batch, the stamp of its last rewrite | `add`, `flush`, `stop` | sink, usernames file, watcher |
| file watcher (`main.go`: `watchList`) | the last modification time and size | poll, load, `replace` | worklist, stamp |
| adaptive limiter (`tuning.go`) | cap, in-flight count, waiters, streak, edge, ceiling | `acquire`, `release`, `onClean`, `onThrottle`, `probe`, `setCeiling`, poke | every attempt, the writer's refresh |
| proxy pool (`proxy.go`) | rotation, quarantine, latency, skipped turns, `healthyN` | `next`, `nextExcluding`, `markOK`, `markFail`, `healthy` | every attempt, proxy test, ceiling |
| check of a name (`main.go`: `checkWithRetries`, `attemptOnce`) | two budgets, the last proxy | retry, confirm through another proxy | pool, limiter |
| contract guard (`canary.go`) | the counters of one verify | startup check, watch during the run | check, worklist, the run's context |
| proxy test (`proxycheck.go`) | one report per proxy | test, record the dead, prune the list | pool, two files |
| watch by id (`watchid.go`) | the active targets | rounds of lookups, freed targets | hook |
| hook and claimer (`hook.go`, `claimer.go`) | names fired, slots; accounts and their flags, `claimed.json` | `fire`, `stop`; `takeAccount`, `tryRename`, `burn`, `saveUsed` | server, disk |
| id resolver (`resolve.go`) | the lines read, an id per line, the jobs channel | resolve all or fill gaps, rewrite the file | usernames file, `ids.txt`, pool, limiter; the watch and the check read its result |
| SOCKS dialing (`socks.go`, `proxy.go`: `clientFor`, `dialContext`) | a socket and its deadline, a watchdog | dial, negotiate, hand over | the HTTP transport, the proxy |
| webhook, per-IP rate limiter, retry pause, classification, update, console, flags | | | not modelled, see below |

What is hard here: the worklist is edited while checks of its names are in
flight; one hit is written to two files by two goroutines of which either may
fail or be killed; waiters sit in a condition variable no context can
interrupt; quarantine and its count are kept up incrementally by many users;
two retry budgets run in one loop with a second opinion inside; accounts,
names and a state file must agree across concurrent claims, lost answers and
restarts; a file the user owns is rewritten from what was read minutes ago; a
watchdog sets deadlines on a socket that is about to be someone else's; and
Ctrl-C may come at each of these points.

## Modules

`X.tla` is a component, `MCX.tla` with its `.cfg` files its instance for TLC,
`X_proofs.tla` its theorems. `Startup_proofs` holds those of `Resolve` and of
`Preflight`, the two things `main` may do before the run.

| module | models | composition |
| --- | --- | --- |
| `Worklist` | `worklist.go`; one operator per critical section, `replace` in its two | extended by `Pipeline` |
| `Pipeline` | workers, writer, watcher, main and the cancellation around the worklist | |
| `ListSync` | result sink, pruner, watcher, user and disk | |
| `Limiter` | the adaptive limiter with its poke goroutine and the goroutines that use it | |
| `ProxyPool` | the pool and the attempts that use it | |
| `Verdict` | what a check promises: the abstract specification | implemented by `Checker` |
| `Checker` | `checkWithRetries` over a pool of routes | implements `Verdict`; extended by `Canary` |
| `Canary` | the contract guard over an endpoint that may drift and a route that may lie; without the guard, the run's own checks | implements `Checker` |
| `Claimer` | one claim, from `hook.fire` to `claimed.json` | extended by `WatchIDs` |
| `WatchIDs` | the watch, the server, the user, kills and restarts around the claims | |
| `Preflight` | the proxy test and the two files it moves proxies between | |
| `Tunnel` | what a dial promises the transport: the abstract specification | implemented by `Socks` |
| `Socks` | one dial through a SOCKS5, SOCKS4a or SOCKS4 proxy, with its watchdog | implements `Tunnel` |
| `Resolve` | filling ids into the usernames file, the user's edits, and what a watch or a check makes of the result | |

Names of variables and actions follow the code; each action is one critical
section or one step between two points where another goroutine may run.

**Worklist, Pipeline.** `at[w]` is what worker `w` is checking; a check's
network part is abstracted to its verdict (`Verdicts`). `results` is the
channel with its real bound. The writer's step is split where the code leaves
the list's mutex: `WriterReceive` (the `retiredName` test and `handleResult`),
`WriterRetire`, `WriterClose`. `ReplaceBegin` and `ReplaceSwap` are the two
critical sections of `replace`; any action may come between them. A starting
list may name a name twice, because `main` strips `:id` after `loadLines`
removed duplicates. The guard's halt is `GuardCloses` and then `GuardHalts`, the
order of `main`'s callback; in between workers may leave and the writer may
return from a run that is closed and not yet cancelled. `Canary`, which has no
pipeline, takes the halt for one step.

**ListSync.** A file is the set of its names with a version (modification
time and size). Recording a hit, flushing the bucket, retiring and queueing
are separate steps of the writer. A flush is four: take the batch, read the
list after asking the sink for failures, rename, note the stamp. Three
goroutines may run it. Every write may fail. `Crash` loses what was buffered;
`Restart` reads both files again, `available.txt` perhaps only in part (`unread`).
Names are lines as they are spelled, with a `Key`, their lower case: the sink goes
by the line, the lists by the key. `saved` and `mingled` are history: they tell
apart the saves that a rewrite of the pruner can hide from the watcher. The
other buckets' files, torn lines, power loss and `name:id` lines are left out.

**Limiter.** Amounts are integers in units of a slot's fraction (`Slot` units
are 1.0), and the code's multiplications are rounded down to a unit. Time is counted in probe intervals since the last cut
and growth. `Signal` wakes any waiter where Go wakes the first: the model has
more behaviours.

**ProxyPool.** Latency has two levels beside "never measured". Whether
`refreshLocked` is due, and which quarantines have run out, is a choice.
`best` is then as stale as the code's.

**Verdict, Checker, Canary.** A route is a proxy, or the direct connection
when there is no pool. `said` remembers what each route answered about the
name; `Verdict` allows an outcome only if `said` justifies it, and `Checker`
is shown to implement it. `Canary` puts the guard's loop around the same
check, with the truth about the endpoint as its environment; with
`-no-self-test` (`guard = "off"`) the same check runs over the user's names and
routes that may answer anything, so one run checks both.

**Claimer, WatchIDs.** The server is `holder`: who holds each name. An
answer may be lost after the rename was done (`Inconclusive`). `saveUsed` is
two steps, because it unlocks before it writes; the temporary file and its
rename are one step. That step may write nothing, and a start may read nothing,
unreadable or torn: nobody is told, only the history variable `faulted` knows.
A round launches its lookups one by one (`Launch`) and stops doing so on Ctrl-C.
The loop that waits at exit may be cut by Ctrl-C; that affects only a printed
count.

**Preflight.** A file is the set of its lines, a proxy standing for every line
with its key. `Shown` is the form `proxySpec.String` gives, the password masked;
it is what the dead list gets (`Written`). The names it declares are not those of `Resolve`, so that
`Startup_proofs` can extend both. The marks the test leaves in the pool are `ProxyPool`'s
`MarkOK` and `MarkFail`, and are not repeated.

**Tunnel, Socks.** A dial is one goroutine that writes and reads on a socket,
and one watchdog that turns the end of the context into a deadline in the past.
The bytes of the negotiation are kept as `owed`: how many the RFC says are
still to come, against how many the code reads (`BoundLen`). What the proxy
sends is chosen freely, including nothing. The transport strips the request's
cancellation, so only `dialContext`'s own bound ends the context. `Tunnel`
knows four things: how the dial ended, whether the socket is open, whether a
goroutine may still touch it, whether it has a deadline.

**Resolve.** A file is a sequence of lines, each with a name (or a comment) and
perhaps an id, since order, comments and doubled names are what the rewrite
must keep. `Loaded` is what `loadLines` and the loop after it make of a list.
Workers take indices from the bounded channel and write `idFor`; one request
with its retries and pauses is one step whose outcome is a choice. Its line may
fail to reach `ids.txt`, unnoticed (`Note`). A line is `name` or `name:id`; one
with another suffix (`name:note`), which the rewrite cuts off, is left out. The write of
the temporary file and its rename are two steps. `mode` is `-resolve-ids` or
the filling of gaps before a watch or a check; what these do next is only
modelled as far as it touches the file (`Hit` and `Pruned`). `told`, `saved`,
`found`, `edited`, `clobbered` and `wrote` are history.

## Runs

| run | what it shows | bounds |
| --- | --- | --- |
| `pipeline` | `live` never exceeds what is to be watched; a name is found once; a single pass counts every name exactly; loop mode goes on asking for every name still watched; every run ends | 2 workers, 3 names of which one is invalid in a single pass, 2 names and one edit in loop mode, which shortens the list |
| `pipeline_refused` | violation: a worker is refused with a name still to be watched | the same |
| `list_sync` | a name leaves the list only when recorded; no line is recorded twice; a clean stop leaves only the names of failed batches; what is watched is what the file holds, except where a save and a rewrite meet | 4 names, one in two spellings, batches of 2, 2 upsets (saves, faults, restarts); the user saves a new list, one name anew spelled, or an empty file |
| `limiter` | cap in range, exact slots, poke alive while anybody waits, cancellation frees waiters, no waiter beside a free slot for ever, recovery | 4 goroutines, cap 2 to 3 slots, two ceilings |
| `proxy_pool` | exact healthy count, earned quarantine, no slow proxy skipped for ever | 2 users, 1 or 2 proxies, 2 failures to sleep, every second turn probes |
| `canary` | a check implements `Verdict`, keeps its two budgets apart and ends; a sound endpoint is not condemned by one liar; an open one does not pass; what is caught stops the run | direct, 1 or 2 proxies, 2 canaries of each kind, 2 answers, 1 spare try |
| `watch_ids` | one claim per name, a caught name is kept, no target lost before Ctrl-C, every claim fired ends | 2 targets, with 2 names or one, 2 accounts, 2 slots, 2 tries, 2 processes |
| `watch_ids_unsaved` | violation: `claimed.json` forgets a burned account | as `watch_ids` |
| `preflight` | a proxy is in the list or, as it is shown, among the dead; one not asked stays | 2 workers, 3 proxies, two of them shown alike, and an unreadable line, 2 saves, 2 processes |
| `preflight_cut` | violation: Ctrl-C moves the proxies being tested | the same |
| `socks` | a dial implements `Tunnel`; the reply is read to its end; no tunnel without a grant; every dial ends | three kinds of proxy, with and without credentials and `-timeout`, bound names of 0, 1, 4 and 255 bytes |
| `resolve` | ids are right; the list survives; answers are kept; known ids stay; resolving ends | 1 or 2 workers, 2 names, 2 accounts, lists with a comment, doubled names, known and stale ids; 1 save, 1 rename, 1 answer not written, 2 processes |

Why the bounds are enough: each hazard needs two of the thing that races (two
workers with one name, two flushers, two claims, two entries of one name) and
one of the third party that comes between (an edit, a save, a crash, a
cancellation). Two processes are enough for what a restart forgets.
What the bounds leave thin: with two entries and two slots a queued claim may
be dropped on Ctrl-C but is never kept waiting by another; the one edit of
`pipeline` may end every worker (`pipeline_refused`), and `EveryWatchedNameAsked` then
asks nothing more; a ceiling that is raised again above the floor plays
little part in `CapRecovers`; and `InflightExact` takes every way an attempt ends
for one release, so it would not find a path of `attemptOnce` that has none.

`CHECK_DEADLOCK FALSE` stands where the modelled part may stop: a process that
has ended and may not be started again, a cancelled limiter or check, a dial
that is over.
`Pipeline` has an explicit `Done` and is checked for deadlock; so is
`ProxyPool`.

### Fairness

Weak fairness, per goroutine, of its own steps: the Go scheduler runs a
goroutine that can run, and every wait of an attempt, a claim or a probe has a
deadline (`-timeout`, `hookTimeout`, tickers). No fairness is assumed of the
user, the server, faults, crashes or cancellations. `Limiter` assumes none of
requests being answered where the property is about waiters after a
cancellation. `Socks` assumes that time passes a socket's deadline and that the
operating system ends a connect or a look-up, and nothing of what the proxy
sends: `DialEnds` rests on the deadline alone. `Resolve` assumes only that main
goes on and that some worker does, because an attempt and its pauses end.

## Proofs

| module | theorem | says |
| --- | --- | --- |
| `Pipeline_proofs` | `TypeCorrect`, `FoundOnceHolds`, `LiveNeverOverHolds`, `SinglePassExactHolds` | for every list, number of workers and sequence of edits; the last two for lists that start without duplicates |
| `ListSync_proofs` | `PrunedIsRecordedHolds`, `RecordedOnceHolds`, `CleanStopPrunesHolds`, `SeenFileIsLoadedHolds`, `TypeCorrect` | through failures, edits, crashes and restarts |
| `Limiter_proofs` | `CapInRangeHolds`, `InflightExactHolds`, `WaitersCoveredHolds`, `TypeCorrect` | for any number of goroutines |
| `ProxyPool_proofs` | `HealthyExactHolds`, `QuarantineEarnedHolds`, `TypeCorrect` | for any list of proxies and users |
| `Canary_proofs` | `KeepsPromiseHolds`, `FullHearingHolds`; `CanaryIsChecked`, `SoundNotCondemnedHolds`, `OpenNeverPassesHolds`, `GuardTypeCorrect` | for any pool and budgets a check implements `Verdict`; the guard implements `Checker`; for any pool and number of canaries |
| `WatchIDs_proofs` | `OneClaimPerNameHolds`, `CaughtIsKeptHolds`, `TargetsKeptHolds`, `TypeCorrect` | for any list, accounts and number of processes |
| `Startup_proofs` | `RightIdsHolds`, `AnswersKeptHolds`, `KnownIdsStayHolds`, `ListSurvivesHolds`, `ResolveTypeCorrect` | of `Resolve`: for lists of every length, any accounts, workers, saves, renames and processes |
| | `NoProxyLostHolds`, `UntestedStaysHolds`, `PreflightTypeCorrect` | of `Preflight`: for any list, workers, saves and processes |
| `Socks_proofs` | `KeepsPromiseHolds`, `StreamAlignedHolds`, `TunnelIsGrantedHolds`, `TypeCorrect` | for bound names of every length; the first is the refinement of `Tunnel` |

The assumptions are the named `ASSUME`s of the components, which TLC evaluates
in every run: sets are finite where they are counted, sentinels are not
values, bounds are natural numbers, an edited list names no name twice.

The inductive invariants, and why they are needed:

- `FoundOnce`: a name found is retired, or the writer is about to retire it.
- `LiveNeverOver`: a list names no name twice, and a staged `replace` whose
  generation is still current holds the current retired set, so that the count
  it took outside the lock is right when it is installed. It is proved
  for starting lists without duplicates: with one, `retire` takes one off for
  two entries, and `live` is too high.
- `SinglePassExact`: in a single pass a name handed out is with one worker, once
  in the channel or handled once (`Flow`, `Coverage`), and `live` counts exactly
  the entries not handled yet, so the list closes only when all are (`Ending`), or
  when the guard has begun its halt, which the property excludes with `Halted`.
  It too is proved for starting lists without duplicates.
- `PrunedIsRecorded`: while no write has failed, what is seen is recorded or
  buffered, and what is pending is recorded; a batch whose file has been read
  was taken while that held, and stays recorded whatever fails later.
- `RecordedOnce`: what stands in the file or the buffer has been seen, in this
  process or when the file was read back, unless it could not be, and no line is
  in both.
- `CleanStopPrunes`: while nobody saves and no two rewrites overlap, a found name
  still in the file is pending, in a flusher's batch or dropped with one, and a
  batch whose rewrite is done is out of the file (`Pruning`). After a clean end nothing is
  pending and no flusher carries anything (`Settled`).
- `SeenFileIsLoaded`: a flusher carries found names only (`Settled`). Unless a save
  and a rewrite met, a save the watcher has yet to see is the latest version, with
  no rewrite past its reading, and a rewrite under way has read what the file
  holds, found names apart (`Undisturbed`); so what is watched is the file of the
  version seen, or the file holds no name but found ones (`Synced`).
- `CapInRange`: cap, edge and ceiling together, because each bounds the
  others in some step. `InflightExact` also needs that a slot was free when
  it was taken.
- `WaitersCovered`: `waiters` counts the parked and the woken, so the poke
  that sees none may go; `poking` and the goroutine's life are one thing.
- `HealthyExact`: the count is of the proxies awake, at every step.
  `QuarantineEarned` follows the streak of failures with the code's counter.
- `KeepsPromise`: what each position in the loop implies about `said`.
  `FullHearing`: tries are at least answers, and their difference is the
  connections dropped.
- `SoundNotCondemned`: while the endpoint is not open, an existing name can
  only be read as available by the liar, and a second route's agreement would
  need a second one.
- `CaughtIsKept`: an account that caught a name is burned, in memory or in
  the set about to be saved, and on disk once saved; a claim never holds a
  burned account, and no two hold the same. All of it holds while no crash lost
  a burn, no two saves overlapped and no save or read of `claimed.json` failed.
- `TargetsKept`: during a round every target has its lookup still due, under way
  or behind it, and one seen freed has fired; a round ends with lookups due only
  after Ctrl-C.
- `OpenNeverPasses`: in a verify that began after the drift, no route that does
  not lie has called an existing name taken, so `takenSeen` stays 0.
- `KeepsPromise` of `Socks`: the watchdog lives only between `guarding` and
  `closing`, and a deadline is set only there (`Guarded`); `StreamAligned` and
  `TunnelIsGranted`: what each position in the negotiation implies about what
  was agreed and what is owed (`Agreed`).
- `RightIds`, `AnswersKept`, `KnownIdsStay`: an answer is for a line that wanted
  one, was given for its name, and is in `ids.txt` if it could be written there
  (`AnswersNoted`); the workers are done before the
  file is touched (`Phase`); and while the user has not saved, the lines are the
  file's before the rewrite and their rewriting is after it (`ReadAsIs`).
  Outside of a resolving nothing of the last one is left (`Quiet`).
- `ListSurvives` is inductive with these. A hit takes one more name out of both
  lists: what is left of a list without some names, in order, does not depend on
  whether they are taken out at once, one by one, or some of them before
  (`SublistOfSublist`, `WithoutStep`, `WithoutPruned`). These rest on `Ascending`: there
  is exactly one way to put a set of positions in order, shown by a least
  counterexample where the prover has no induction.
- `NoProxyLost`: between the two writes the failed are already, as they are shown,
  in the dead file, and the draft is the list as the user left it, unless he saved since.

Only model-checked are the eleven liveness properties: `EveryWatchedNameAsked`,
`RunEnds`, `CancelFreesWaiters`, `FreeSlotIsTaken`, `CapRecovers`, `NoProxyExiled`,
`CheckEnds`, `CaughtIsStopped`, `ClaimsEnd`, `DialEnds` and `ResolveEnds`. They rest on
fairness, whose `ENABLED` is beyond the prover. Every invariant, every action
property and both refinements that the passing runs check are theorems. The type
invariants are theorems only, not properties of the runs.

## What the models found

With a run, whose counterexample is the trace:

- `pipeline_refused`: retiring a name the user deleted takes one from `live` that
  was not counted (`worklist.go:139`).
- `watch_ids_unsaved`: two saves of `claimed.json` in the wrong order lose a burned
  account (`claimer.go:486`).
- `preflight_cut`: Ctrl-C moves the proxies being tested (`proxycheck.go:96`).

Without one, met while modelling the code; the models reach the first five, and the
properties say by their conditions where they stop:

- The sink tells `foo` from `FOO`, as no list does: a name found again in another
  spelling by a later run is recorded again (`main.go:279`). `RecordedOnce` is
  about lines as they are spelled.
- A rename whose answer is lost leaves an account holding a name and not burned, and
  it is renamed away for the next (`claimer.go:336`). `CaughtIsKept` is about the
  names a claim was told it has.
- A failed write of `claimed.json` and a file that cannot be read are ignored, and
  burned accounts are used again (`claimer.go:490`, `466`). `CaughtIsKept` excludes
  it by `faulted`.
- The dead list holds `***` for the password, and the live list no longer holds the
  line (`proxycheck.go:491`, `proxy.go:81`). `NoProxyLost` asks for the form shown.
- An answer `ids.txt` did not take is said to be there when the list cannot be
  rewritten either (`resolve.go:501`, `535`). `AnswersKept` sets these answers apart
  (`unwritten`).
- On Ctrl-C the targets a round has not launched are missing from the count of
  those still held (`watchid.go:303`).
- A user's save between the pruner's rename and its stat, or one the pruner
  reads before the watcher's next look, is taken for the tool's own and not
  read until the next save (`pruner.go:175`); nor is one between the loading of
  the list and the watcher's first look (`main.go:2249`). `mingled` marks
  these; without it `SeenFileIsLoaded` is violated.
- `watchList` ignores an empty file (`main.go:2279`), so a list the user cut down to
  names already found goes on being watched as it was. Two overlapping rewrites may
  then bring such a found name back into the file, whose version is taken for the
  tool's own. The search for the inductive invariant of `SeenFileIsLoaded`
  found this, and the property has a condition for it.
- After `-resolve-first` a hit is not taken out of the file, which then holds
  its line with an id (`main.go:1944`).
- A plain `socks4://` proxy has the endpoint's name looked up locally
  (`proxy.go:266`), which the repository's README rules out.
- `runResolve` does not strip a byte order mark, as `loadLines` and
  `removeFromList` do: the first name of such a file is asked for with it
  (`resolve.go:435`, `384`).
- `nextExcluding` may return the proxy it was to avoid although a slow one is
  awake (`proxy.go:462`, `477`); and when every candidate is stepped over or
  asleep it may return a sleeping one (`proxy.go:482`).
- With one usable proxy, its wrong answer given twice condemns a sound
  endpoint (`canary.go:131`): `SoundNotCondemned` needs its `alone`.
- `watchList` does not retry an edit it failed to load (`main.go:2265`).
- Raising the ceiling wakes nobody (`tuning.go:319`). At startup the ceiling
  is set from the pool without the lower bound of 1 that the refresh applies
  (`main.go:558`, `1577`); and the resolver and the watch never refresh it.
- Lines of the form `name:id` are stripped at startup only: an edit in loop
  mode makes them invalid names, and hits are not pruned from them
  (`main.go:2276`, `1944`).
- A list that holds `name` and `name:1` starts with a duplicate, for which
  `live` ends too high (`main.go:434`); `LiveNeverOver` is about lists without.
- A queued claim is dropped on Ctrl-C (`hook.go:122`).
- `add` of the webhook and of the pruner flush inline when a batch is full
  (`webhook.go:95`, `pruner.go:82`).
- An attempt cancelled by Ctrl-C counts as a failure of its proxy.
- A claim that finds no account drops its target for good.

## Not modelled, and why

- Per-IP rate limiter, `retryPause`, `rateWindow`, webhook: planned, below.
- Classification of one HTTP answer, parsing of lines: pure functions of
  strings, tested by table and by fuzzing in the repository.
- Client cache, HTTP proxies, self-update, console, flags and menu: I/O and
  set-up apart from the checking core.
- Of the resolver: the two endpoints and their answers' formats, the session
  file, and the choice between them.
- External hook commands, `-claim-hook`, dry runs, and the watch without a
  claimer.

## Plan

Done, in this order: worklist and pipeline; files and pruner; limiter; proxy
pool; check and guard; claims and watch; proxy test; SOCKS dialing; resolver.

Next, in order of weight:

1. `Canary` with `Pipeline`: what is recorded after the guard's halt.
2. Proofs: what `NoProxyLost` and `PrunedIsRecorded` have in common, a name moved from
   one file to another, as one abstract specification that `Preflight` and `ListSync`
   implement.
3. The per-IP token bucket with the limiter, timed; `retryPause` and
   `rateWindow` as operators against a reference definition.
