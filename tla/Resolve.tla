------------------------------ MODULE Resolve ------------------------------
(***************************************************************************)
(* Filling ids into the usernames file (resolve.go, runResolve; main.go,   *)
(* main): the lines are read once, workers ask for the id of each name,    *)
(* and the file is written anew from the lines read.  It is a mode of its  *)
(* own (-resolve-ids), or comes before the watch or, with -resolve-first,  *)
(* before the check, whose hits are then taken out of the file.  The user  *)
(* edits the file and Ctrl-C or a kill may come at any time; accounts are  *)
(* renamed.  How the watch and the check go on is WatchIDs and ListSync.   *)
(***************************************************************************)
EXTENDS Naturals, Sequences, FiniteSets

CONSTANTS
    Names, Ids,
    Comment,    \* what stands for the name of a comment, or of a blank line in between
    None,       \* no id; nobody
    Workers,
    Threads,    \* the sets of workers a run may have
    Lists,      \* the lists a user may begin with or save
    Holders,    \* who holds which name at the beginning
    MaxSaves, MaxMoves, MaxRuns, MaxUnwritten     \* bounds of the model

Lines == [name : Names \cup {Comment}, id : Ids \cup {None}]

ASSUME ResolveAssumption ==
    /\ Comment \notin Names /\ None \notin Ids
    /\ Lists \subseteq Seq(Lines) /\ Holders \subseteq [Names -> Ids \cup {None}]
    /\ Threads \subseteq (SUBSET Workers) \ {{}}

VARIABLES
    file, ids,  \* the usernames file; ids.txt, as a set of pairs
    mode,       \* "ids": -resolve-ids.  "fill": fillMissingOnly, before a watch or a check
    at,         \* the position in main and runResolve; "off" when nothing runs
    cancelled,  \* the context is done
    threads,    \* the workers of this run
    usernames,  \* what main loaded
    lines, inPlace, idFor,
    work,       \* the indices still to be put into jobs
    jobs, closed,
    doing,      \* each worker's index, 0 when it has none
    gone,       \* the workers that have returned
    holder,     \* the account that holds each name
    told,       \* history: the ids the user wrote or Instagram gave, with their names
    saved,      \* history: the list as the user saved it last
    found,      \* history: names found free since then
    edited,     \* history: he saved after the file was last read or written here
    clobbered,  \* history: the last write here replaced what he had saved
    wrote,      \* history: this run has written the file
    unwritten,  \* history: the answers of this run that ids.txt did not take
    saves, moves, runs

disk == <<file, ids>>
resolver == <<threads, lines, inPlace, idFor, work, jobs, closed, doing, gone, unwritten>>
process == <<mode, at, cancelled, usernames, resolver>>
user == <<saved, found, edited, clobbered>>
bounds == <<saves, moves, runs>>
vars == <<disk, process, holder, told, user, wrote, bounds>>

Resolving == {"feeding", "waiting", "writing", "renaming"}

Named(line) == line.name # Comment
Pairs(list) == {<<list[i].name, list[i].id>> : i \in {j \in DOMAIN list : list[j].id # None}}

Init ==
    /\ file \in Lists /\ ids = {} /\ holder \in Holders
    /\ mode = "ids" /\ at = "off" /\ cancelled = FALSE /\ usernames = <<>> /\ threads = {}
    /\ lines = <<>> /\ inPlace = FALSE /\ idFor = <<>> /\ work = <<>> /\ jobs = <<>>
    /\ closed = FALSE /\ gone = {} /\ wrote = FALSE /\ unwritten = {}
    /\ doing = [w \in Workers |-> 0]
    /\ told = Pairs(file) /\ saved = file /\ found = {}
    /\ edited = FALSE /\ clobbered = FALSE
    /\ saves = 0 /\ moves = 0 /\ runs = 0

\* runResolve has returned.
Forgets ==
    /\ threads' = {} /\ lines' = <<>> /\ inPlace' = FALSE /\ idFor' = <<>> /\ work' = <<>>
    /\ jobs' = <<>> /\ closed' = FALSE /\ gone' = {} /\ wrote' = FALSE /\ unwritten' = {}
    /\ doing' = [w \in Workers |-> 0]
\* The process ends.
Ends ==
    /\ mode' = "ids" /\ at' = "off" /\ cancelled' = FALSE /\ usernames' = <<>>
    /\ Forgets
    /\ UNCHANGED <<disk, holder, told, user, bounds>>
-----------------------------------------------------------------------------
\* A set of positions, in their order, and what a list holds at them.
Ascending(S) ==
    CHOOSE f \in [1 .. Cardinality(S) -> S] : \A j, k \in DOMAIN f : j < k => f[j] < f[k]
Sublist(list, S) == LET order == Ascending(S) IN [k \in DOMAIN order |-> list[order[k]]]
NamesOf(list) == [i \in DOMAIN list |-> list[i].name]

\* loadLines and the loop after it: no comments, no line twice, ids cut off.
Loaded(list) ==
    Sublist(NamesOf(list),
            {i \in DOMAIN list : Named(list[i]) /\ \A j \in 1 .. i - 1 : list[j] # list[i]})

\* main, up to runResolve; the proxies are tested meanwhile.
Start ==
    /\ at = "off" /\ runs < MaxRuns
    /\ \E i \in DOMAIN file : Named(file[i])
    /\ at' = "starting" /\ mode' \in {"ids", "fill"}
    /\ usernames' = Loaded(file)
    /\ runs' = runs + 1
    /\ UNCHANGED <<disk, cancelled, resolver, holder, told, user, wrote, saves, moves>>

\* Mutant of Wanted: it forgets -fillMissingOnly.
WantedAll(line) == Named(line)
\* Comments are skipped, and when filling gaps so is a line that has its id.
Wanted(line) == Named(line) /\ (mode = "ids" \/ line.id = None)

\* Mutant of ReadLines: the list as it is loaded elsewhere.
ReadLoaded == [k \in DOMAIN Loaded(file) |-> [name |-> Loaded(file)[k], id |-> None]]
\* The lines as they stand, comments, order, ids and all.
ReadLines == file

\* runResolve's beginning: the raw lines, or, if they cannot be read, the names main
\* has; then ids.txt is created anew.
Begin ==
    /\ at = "starting"
    /\ \/ inPlace' = TRUE /\ lines' = ReadLines /\ edited' = FALSE
       \/ /\ inPlace' = FALSE /\ UNCHANGED edited
          /\ lines' = [i \in DOMAIN usernames |-> [name |-> usernames[i], id |-> None]]
    /\ idFor' = [i \in DOMAIN lines' |-> None]
    /\ work' = Ascending({i \in DOMAIN lines' : Wanted(lines'[i])})
    /\ ids' = {}
    /\ threads' \in Threads
    /\ at' = "feeding"
    /\ UNCHANGED <<file, mode, cancelled, usernames, jobs, closed, doing, gone, unwritten,
                   holder, told, saved, found, clobbered, wrote, bounds>>

\* ids.txt cannot be created: fatalf.
BeginFails == at = "starting" /\ Ends

Queue == 2 * Cardinality(threads)
\* Mutant of Feed: it only waits for room.
FeedStubborn ==
    /\ at = "feeding" /\ work # <<>>
    /\ Len(jobs) < Queue /\ jobs' = Append(jobs, Head(work))
    /\ work' = Tail(work)
    /\ UNCHANGED <<disk, mode, at, cancelled, usernames, threads, lines, inPlace, idFor, closed,
                   doing, gone, unwritten, holder, told, user, wrote, bounds>>
\* The next job is queued, or dropped once the context is done; select may choose.
Feed ==
    /\ at = "feeding" /\ work # <<>>
    /\ \/ Len(jobs) < Queue /\ jobs' = Append(jobs, Head(work))
       \/ cancelled /\ UNCHANGED jobs
    /\ work' = Tail(work)
    /\ UNCHANGED <<disk, mode, at, cancelled, usernames, threads, lines, inPlace, idFor, closed,
                   doing, gone, unwritten, holder, told, user, wrote, bounds>>

CloseJobs ==
    /\ at = "feeding" /\ work = <<>>
    /\ closed' = TRUE /\ at' = "waiting"
    /\ UNCHANGED <<disk, mode, cancelled, usernames, threads, lines, inPlace, idFor, work, jobs,
                   doing, gone, unwritten, holder, told, user, wrote, bounds>>

Works(w) == w \in threads \ gone
Worker(w) ==
    UNCHANGED <<file, mode, at, cancelled, usernames, threads, lines, inPlace, work, closed,
                holder, user, wrote, bounds>>

\* A worker takes a job, and returns instead of doing it after Ctrl-C.
Take(w) ==
    /\ Works(w) /\ doing[w] = 0 /\ jobs # <<>>
    /\ jobs' = Tail(jobs)
    /\ IF cancelled THEN gone' = gone \cup {w} /\ UNCHANGED doing
                    ELSE doing' = [doing EXCEPT ![w] = Head(jobs)] /\ UNCHANGED gone
    /\ Worker(w) /\ UNCHANGED <<ids, told, unwritten, idFor>>

Leave(w) ==
    /\ Works(w) /\ doing[w] = 0 /\ jobs = <<>> /\ closed
    /\ gone' = gone \cup {w}
    /\ Worker(w) /\ UNCHANGED <<ids, told, unwritten, idFor, jobs, doing>>

Asks(w) == Works(w) /\ doing[w] # 0
NextJob(w) == doing' = [doing EXCEPT ![w] = 0]

\* Mutant of SlotOf: answers are numbered by the work, not by the lines.
SlotOfWork(w) == Cardinality({i \in 1 .. doing[w] : Wanted(lines[i])})
\* The line an answer belongs to.
SlotOf(w) == doing[w]

\* A line for ids.txt; that it cannot be written goes unnoticed.
Note(answer) ==
    \/ ids' = ids \cup {answer} /\ UNCHANGED unwritten
    \/ Cardinality(unwritten) < MaxUnwritten
       /\ unwritten' = unwritten \cup {answer} /\ UNCHANGED ids

\* The name has an account: its id is kept for the line and put into ids.txt.
Answered(w) ==
    LET name == lines[doing[w]].name IN
    /\ Asks(w) /\ holder[name] # None
    /\ idFor' = [idFor EXCEPT ![SlotOf(w)] = holder[name]]
    /\ told' = told \cup {<<name, holder[name]>>}
    /\ Note(<<name, holder[name]>>)
    /\ NextJob(w) /\ Worker(w) /\ UNCHANGED <<jobs, gone>>

\* No such name, none this session may see, or the last attempt failed; Ctrl-C fails
\* attempts and the pauses between them.
Unanswered(w) ==
    /\ Asks(w)
    /\ NextJob(w) /\ Worker(w) /\ UNCHANGED <<ids, told, unwritten, idFor, jobs, gone>>

\* Mutant of Joined: the rewrite does not wait for the workers.
JoinedNone == TRUE
\* wg.Wait.
Joined == threads \subseteq gone
Wait ==
    /\ at = "waiting" /\ Joined
    /\ at' = IF inPlace THEN "writing" ELSE "after"
    /\ UNCHANGED <<disk, mode, cancelled, usernames, resolver, holder, told, user, wrote, bounds>>

\* The temporary file is written, or cannot be.
WriteTmp ==
    /\ at = "writing" /\ at' \in {"renaming", "after"}
    /\ UNCHANGED <<disk, mode, cancelled, usernames, resolver, holder, told, user, wrote, bounds>>

\* Every resolved line gets its id; the others are as they were read.
Rewritten ==
    [i \in DOMAIN lines |-> IF idFor[i] = None THEN lines[i] ELSE [lines[i] EXCEPT !.id = idFor[i]]]
Rename ==
    /\ at = "renaming"
    /\ file' = Rewritten
    /\ clobbered' = (clobbered \/ edited) /\ edited' = FALSE
    /\ wrote' = TRUE /\ at' = "after"
    /\ UNCHANGED <<ids, mode, cancelled, usernames, resolver, holder, told, saved, found, bounds>>
RenameFails ==
    /\ at = "renaming" /\ at' = "after"
    /\ UNCHANGED <<disk, mode, cancelled, usernames, resolver, holder, told, user, wrote, bounds>>

\* What main does next: return, watch, or load the list again and check it.
Returns == at = "after" /\ mode = "ids" /\ Ends
Watches ==
    /\ at = "after" /\ mode = "fill" /\ at' = "watching"
    /\ Forgets /\ UNCHANGED <<disk, mode, cancelled, usernames, holder, told, user, bounds>>
Checks ==
    /\ at = "after" /\ mode = "fill" /\ at' = "checking"
    /\ usernames' \in {Loaded(file), usernames} /\ usernames' # <<>>
    /\ Forgets /\ UNCHANGED <<disk, mode, cancelled, holder, told, user, bounds>>

\* Taking a name out of the list compares it with whole lines.
Pruned(list, n) ==
    Sublist(list, {i \in DOMAIN list : list[i] # [name |-> n, id |-> None]})
\* A name comes back free and is pruned (how is ListSync's).
Hit ==
    /\ at = "checking"
    /\ \E n \in {usernames[i] : i \in DOMAIN usernames} \ found :
         /\ holder[n] = None
         /\ found' = found \cup {n}
         /\ file' = Pruned(file, n)
    /\ UNCHANGED <<ids, process, holder, told, saved, edited, clobbered, wrote, bounds>>

Exit == at \in {"watching", "checking"} /\ Ends

\* Ctrl-C, and a kill.
Cancel ==
    /\ at # "off" /\ ~cancelled /\ cancelled' = TRUE
    /\ UNCHANGED <<disk, mode, at, usernames, resolver, holder, told, user, wrote, bounds>>
Kill == at # "off" /\ Ends

\* The user saves another list.
Save ==
    /\ saves < MaxSaves /\ saves' = saves + 1
    /\ file' \in Lists \ {file}
    /\ saved' = file' /\ found' = {} /\ edited' = TRUE /\ clobbered' = FALSE
    /\ told' = told \cup Pairs(file')
    /\ UNCHANGED <<ids, process, holder, wrote, moves, runs>>

\* An account leaves its name, for a free one or for none of these.
Move ==
    /\ moves < MaxMoves /\ moves' = moves + 1
    /\ \E n \in Names :
         /\ holder[n] # None
         /\ \/ holder' = [holder EXCEPT ![n] = None]
            \/ \E m \in Names : holder[m] = None
                 /\ holder' = [holder EXCEPT ![n] = None, ![m] = holder[n]]
    /\ UNCHANGED <<disk, process, told, user, wrote, saves, runs>>

Main == Begin \/ BeginFails \/ Feed \/ CloseJobs \/ Wait \/ WriteTmp \/ Rename \/ RenameFails
        \/ Returns \/ Watches \/ Checks
Work(w) == Take(w) \/ Leave(w) \/ Answered(w) \/ Unanswered(w)
SomeWorker == \E w \in Workers : Work(w)

Next == Main \/ SomeWorker \/ Start \/ Hit \/ Exit \/ Cancel \/ Kill
        \/ Save \/ Move

Spec == Init /\ [][Next]_vars

\* Goroutines run, and an attempt ends by its timeout; that some worker always does
\* its next step is enough.
FairSpec == Spec /\ WF_vars(Main) /\ WF_vars(SomeWorker)
-----------------------------------------------------------------------------

\* The lines a run asks for.
Due == {i \in DOMAIN lines : Wanted(lines[i])}

TypeOK ==
    /\ file \in Seq(Lines) /\ saved \in Seq(Lines) /\ lines \in Seq(Lines)
    /\ usernames \in Seq(Names)
    /\ ids \subseteq Names \X Ids /\ told \subseteq (Names \cup {Comment}) \X Ids
    /\ holder \in [Names -> Ids \cup {None}] /\ found \subseteq Names
    /\ idFor \in [DOMAIN lines -> Ids \cup {None}]
    /\ work \in Seq(Due) /\ jobs \in Seq(Due) /\ doing \in [Workers -> Due \cup {0}]
    /\ threads \subseteq Workers /\ gone \subseteq threads
    /\ mode \in {"ids", "fill"}
    /\ at \in Resolving \cup {"off", "starting", "after", "watching", "checking"}
    /\ inPlace \in BOOLEAN /\ closed \in BOOLEAN /\ cancelled \in BOOLEAN
    /\ edited \in BOOLEAN /\ clobbered \in BOOLEAN /\ wrote \in BOOLEAN
    /\ unwritten \subseteq Names \X Ids
    /\ saves \in Nat /\ moves \in Nat /\ runs \in Nat

\* An id in the list is one the user put there or Instagram gave for that very name,
\* whatever he does to the list while it is being resolved: a wrong one would have
\* another account watched and its rename taken for the wanted name's (resolve.go,
\* runResolve).
RightIds == Pairs(file) \subseteq told

\* The names and comments of a list in order, without those found free.
Entries(list) == Sublist(NamesOf(list), {i \in DOMAIN list : list[i].name \notin found})
\* Nothing the user wrote is lost, moved or doubled but the names found, unless he
\* saved between the read and the rewrite (resolve.go, runResolve).
ListSurvives == ~clobbered => Entries(file) = Entries(saved)

\* Filling gaps changes no id that is there (resolve.go: "nothing is pulled or changed
\* for it").
KnownIdsStay ==
    [][at = "renaming" /\ at' = "after" /\ mode = "fill" /\ ~edited
        => \A i \in DOMAIN file : file[i].id # None => file'[i] = file[i]]_vars

Answers == {<<lines[i].name, idFor[i]>> : i \in {j \in DOMAIN lines : idFor[j] # None}}

\* What was answered before Ctrl-C, or by the slowest worker, is in ids.txt, but for the
\* lines that could not be written there, and, when the file could be written, on its
\* line of the list (resolve.go, runResolve).
AnswersKept ==
    at = "after" =>
        /\ Answers \subseteq ids \cup unwritten
        /\ wrote /\ ~edited => \A i \in DOMAIN lines :
              idFor[i] # None => file[i] = [lines[i] EXCEPT !.id = idFor[i]]

\* Resolving comes to an end, also when Ctrl-C finds the queue full and the workers
\* leaving (resolve.go, runResolve).
ResolveEnds == at \in Resolving ~> at \notin Resolving
=============================================================================
