-------------------------------- MODULE Jobs --------------------------------
(***************************************************************************)
(* The background decodes: one pool of threads for every library's jobs    *)
(* (scanner/src/pool.rs), what a pass makes of a file it could not decode  *)
(* (scanner/src/jobs.rs), and the store's queue of files still without a   *)
(* result (server/src/db/store/jobs.rs).                                   *)
(*                                                                         *)
(* A job stands for a library's analysis; its placeholders run the same    *)
(* pass on images, keyed by their content.  Files are numbered in the      *)
(* order the queue hands them out.  What a decode measures is the version  *)
(* of the file on disk.  Problems are left out but for the store call that *)
(* records or clears one, which may fail; the server is not stopped.       *)
(***************************************************************************)
EXTENDS Integers, FiniteSets

CONSTANTS
    Job,        \* 0 .. n - 1
    LibraryOf,  \* the library of each job
    Files,      \* the files of each job
    Broken,     \* those no decoder can read
    Place,      \* what may go out of reach: <<"file", f>> and <<"root", library>>
    Size,       \* the pool's size
    Limit,      \* how many files a pass decodes
    MaxEdits,   \* bound: edits of files' contents
    MaxFaults   \* bound: outages, decodes and store calls that fail, panics

ASSUME JobsAssumption ==
    /\ IsFiniteSet(Job) /\ Job = 0 .. Cardinality(Job) - 1
    /\ \A j \in Job : Files[j] \subseteq Nat
    /\ \A i, j \in Job : i # j => Files[i] \cap Files[j] = {}
    /\ Size \in Nat \ {0} /\ Limit \in Nat
    /\ MaxEdits \in Nat /\ MaxFaults \in Nat

VARIABLES
    threads,    \* what each thread of the pool runs
    next,       \* Due.next
    running,    \* Due.running
    resting,    \* the jobs not due yet
    rows,       \* the version each file's row is of, and the one its result measures, if any
    struck, waiting,  \* Retries
    disk,       \* the version of each file on disk
    away,       \* the files and libraries' roots out of reach
    edits, faults

retries == <<struck, waiting>>
schedule == <<next, running, resting>>
nature == <<disk, away, edits>>
jobVars == <<threads, schedule, rows, retries, nature, faults>>

Library == {LibraryOf[j] : j \in Job}
File == UNION {Files[j] : j \in Job}
JobOf(f) == CHOOSE j \in Job : f \in Files[j]

\* Slip: as many threads as the pool's size, whatever the libraries.
SlipThreads == 1 .. Size

Threads == 1 .. (IF Cardinality(Library) > 1 THEN Size + 1 ELSE Size)

None == 0       \* no result
Empty == -1     \* the result of a file judged broken

Free == [job |-> 0, step |-> "free", claims |-> {}, said |-> "none", made |-> 0, measured |-> None]

JobsInit ==
    /\ threads = [t \in 1 .. Size + 1 |-> Free]
    /\ next = 0 /\ running = [l \in Library |-> 0] /\ resting = {}
    /\ rows = [f \in File |-> [version |-> 1, measured |-> None]]
    /\ struck = {} /\ waiting = {}
    /\ disk = [f \in File |-> 1] /\ away = {}
    /\ edits = 0 /\ faults = 0

Fault == faults < MaxFaults /\ faults' = faults + 1
MayFail(failed) == IF failed THEN Fault ELSE UNCHANGED faults

-----------------------------------------------------------------------------
(***************************************************************************)
(* The pool.                                                               *)
(***************************************************************************)
Open(j) == running[LibraryOf[j]] < Size
Due(j) == j \notin resting /\ Open(j)

After(j, i) == (next + i) % Cardinality(Job) = j

\* Schedule.run_next: the first job due from the one after the job last taken. Free threads
\* are alike, so the first takes it.
Picks(t) ==
    /\ threads[t].step = "free" /\ \A u \in 1 .. t - 1 : threads[u].step # "free"
    /\ \E j \in Job :
        /\ Due(j)
        /\ \E i \in Job : After(j, i) /\ \A k \in Job, h \in 0 .. i - 1 : After(k, h) => ~Due(k)
        /\ threads' = [threads EXCEPT ![t] = [Free EXCEPT !.job = j, !.step = "taking"]]
        /\ next' = (j + 1) % Cardinality(Job)
        /\ running' = [running EXCEPT ![LibraryOf[j]] = @ + 1]
    /\ UNCHANGED <<resting, rows, retries, nature, faults>>

\* The pass is over, or panicked. Its claims are given back.
Ended(t, idle) ==
    LET j == threads[t].job
    IN  /\ threads' = [threads EXCEPT ![t] = Free]
        /\ running' = [running EXCEPT ![LibraryOf[j]] = @ - 1]
        /\ resting' = IF idle THEN resting \cup {j} ELSE resting
        /\ UNCHANGED next

\* RunReport::store_failed.
StoreFailed(t) == Fault /\ Ended(t, TRUE)

Panics(t) ==
    /\ threads[t].step = "decoding" /\ Fault /\ Ended(t, TRUE)
    /\ UNCHANGED <<rows, retries, nature>>

\* A job has waited its idle time.
ComesDue(j) ==
    /\ j \in resting /\ resting' = resting \ {j}
    /\ UNCHANGED <<threads, next, running, rows, retries, nature, faults>>

-----------------------------------------------------------------------------
(***************************************************************************)
(* A pass.                                                                 *)
(***************************************************************************)
Unanalyzed(j) == {f \in Files[j] : rows[f].measured = None}

FirstOf(files, n) == {f \in files : Cardinality({g \in files : g <= f}) <= n}

Claimed(t) == {c.file : c \in threads[t].claims}

\* Slip: a file is given back once it is decoded, with its result still to store.
SlipTaken(j) == UNION {Claimed(t) : t \in {u \in Threads :
                            threads[u].job = j /\ threads[u].step \notin {"judging", "keeping"}}}

Taken(j) == UNION {Claimed(t) : t \in {u \in Threads : threads[u].job = j}}

\* Retries.take: the fetch and the taking, under the lock a claim needs to be given back.
Take(t) ==
    LET j     == threads[t].job
        share == Limit + 2 * Cardinality(waiting \cap Files[j])
        found == FirstOf(Unanalyzed(j), share + Cardinality(Taken(j)))
        free  == FirstOf(found \ (waiting \cup Taken(j)), share)
    IN  /\ threads[t].step = "taking"
        /\ \/ /\ threads' = [threads EXCEPT ![t].step = "next",
                                ![t].claims = {[file |-> f, version |-> rows[f].version] : f \in free}]
              /\ UNCHANGED <<schedule, faults>>
           \/ StoreFailed(t)
        /\ UNCHANGED <<rows, retries, nature>>

Current(t) == CHOOSE c \in threads[t].claims : \A d \in threads[t].claims : c.file <= d.file

Reachable(f) == away \cap {<<"file", f>>, <<"root", LibraryOf[JobOf(f)]>>} = {}
RootUp(f) == <<"root", LibraryOf[JobOf(f)]>> \notin away

\* The next file, unless the pass has made what it may or has none.
Begins(t) ==
    /\ threads[t].step = "next"
    /\ IF threads[t].made >= Limit \/ threads[t].claims = {}
       THEN Ended(t, threads[t].made = 0)
       ELSE /\ threads' = [threads EXCEPT ![t].step =
                              IF Reachable(Current(t).file) THEN "decoding" ELSE "judging",
                              ![t].said = IF Reachable(Current(t).file) THEN "none" ELSE "open"]
            /\ UNCHANGED schedule
    /\ UNCHANGED <<rows, retries, nature, faults>>

\* The decode ends. A file that went away is as one whose content is broken; an attempt may
\* fail, and so may the host.
Decodes(t) ==
    LET f == Current(t).file
    IN  /\ threads[t].step = "decoding"
        /\ \E said \in {"ok", "content", "attempt", "host"} :
            /\ said = "ok" => Reachable(f) /\ f \notin Broken
            /\ said = "content" => ~Reachable(f) \/ f \in Broken
            /\ MayFail(said \in {"attempt", "host"})
            /\ threads' = [threads EXCEPT ![t].step = "judging", ![t].said = said,
                              ![t].measured = IF said = "ok" THEN disk[f] ELSE Empty]
        /\ UNCHANGED <<schedule, rows, retries, nature>>

\* The file is done with and given back.
Drops(t, made) ==
    threads' = [threads EXCEPT ![t].step = "next", ![t].claims = @ \ {Current(t)},
                    ![t].said = "none", ![t].measured = None, ![t].made = @ + made]

ToKeep(t) == threads' = [threads EXCEPT ![t].step = "keeping"] /\ UNCHANGED schedule

\* Retries.succeeded: the problem is cleared first, and a store error leaves the file.
Succeeded(t) ==
    LET f == Current(t).file
    IN  /\ threads[t].step = "judging" /\ threads[t].said = "ok"
        /\ \/ StoreFailed(t) /\ UNCHANGED retries
           \/ /\ ToKeep(t) /\ UNCHANGED faults
              /\ struck' = struck \ {f} /\ waiting' = waiting \ {f}
        /\ UNCHANGED <<rows, nature>>

\* Retries.judge: what says nothing of the file, and what says as much a second time.
Strikes(t) == threads[t].said = "attempt" /\ RootUp(Current(t).file)

BacksOff(t) ==
    \/ threads[t].said = "host"
    \/ threads[t].said = "attempt" /\ (Strikes(t) => Current(t).file \notin struck)
    \/ /\ threads[t].said \in {"open", "content"} /\ ~RootUp(Current(t).file)

Broke(t) ==
    \/ Strikes(t) /\ Current(t).file \in struck
    \/ threads[t].said = "content" /\ Reachable(Current(t).file)

Failed(t) ==
    LET f == Current(t).file
    IN  /\ threads[t].step = "judging" /\ threads[t].said # "ok"
        /\ \/ /\ BacksOff(t) /\ Ended(t, TRUE)
              /\ struck' = IF Strikes(t) THEN struck \cup {f} ELSE struck
              /\ UNCHANGED <<waiting, faults>>
           \/ /\ Broke(t)
              /\ struck' = IF Strikes(t) THEN struck \ {f} ELSE struck
              /\ \/ StoreFailed(t) /\ UNCHANGED waiting
                 \/ ToKeep(t) /\ waiting' = waiting \ {f} /\ UNCHANGED faults
           \/ /\ ~BacksOff(t) /\ ~Broke(t) /\ UNCHANGED struck
              /\ \/ StoreFailed(t) /\ UNCHANGED waiting
                 \/ /\ Drops(t, 0) /\ UNCHANGED <<schedule, faults>>
                    /\ waiting' = waiting \cup {f}
        /\ UNCHANGED <<rows, nature>>

StillPicked(c) == rows[c.file].version = c.version

\* store_analysis: nothing of a file a scan found changed since it was picked.
Keeps(t) ==
    LET c == Current(t)
    IN  /\ threads[t].step = "keeping"
        /\ \/ StoreFailed(t) /\ UNCHANGED rows
           \/ /\ Drops(t, 1) /\ UNCHANGED <<schedule, faults>>
              /\ rows' = IF StillPicked(c) THEN [rows EXCEPT ![c.file].measured = threads[t].measured]
                         ELSE rows
        /\ UNCHANGED <<retries, nature>>

-----------------------------------------------------------------------------
(***************************************************************************)
(* What the passes meet.                                                   *)
(***************************************************************************)
\* A file that could not be opened has waited its hour.
WaitIsOver(f) ==
    /\ f \in waiting /\ waiting' = waiting \ {f}
    /\ UNCHANGED <<threads, schedule, rows, struck, nature, faults>>

Changes(f) ==
    /\ Reachable(f) /\ edits < MaxEdits /\ edits' = edits + 1
    /\ disk' = [disk EXCEPT ![f] = @ + 1]
    /\ UNCHANGED <<threads, schedule, rows, retries, away, faults>>

\* A scan finds a file changed: upsert_batch.
Scans(f) ==
    /\ Reachable(f) /\ rows[f].version # disk[f]
    /\ rows' = [rows EXCEPT ![f] = [version |-> disk[f], measured |-> None]]
    /\ UNCHANGED <<threads, schedule, retries, nature, faults>>

Goes(what) ==
    /\ what \notin away /\ Fault /\ away' = away \cup {what}
    /\ UNCHANGED <<threads, schedule, rows, retries, disk, edits>>

Returns(what) ==
    /\ what \in away /\ away' = away \ {what}
    /\ UNCHANGED <<threads, schedule, rows, retries, disk, edits, faults>>

JobsNext ==
    \/ \E t \in Threads : Picks(t) \/ Panics(t) \/ Take(t) \/ Begins(t) \/ Decodes(t)
                          \/ Succeeded(t) \/ Failed(t) \/ Keeps(t)
    \/ \E j \in Job : ComesDue(j)
    \/ \E f \in File : WaitIsOver(f) \/ Changes(f) \/ Scans(f)
    \/ \E what \in Place : Goes(what) \/ Returns(what)

JobsSpec == JobsInit /\ [][JobsNext]_jobVars

-----------------------------------------------------------------------------
(* No file is decoded by two threads at once, nor again once another has   *)
(* decoded and stored it, however a fetch, a decode and a file given back  *)
(* fall together (Retries.take).                                           *)
NothingIsDecodedTwice ==
    \A t \in Threads : threads[t].step \in {"decoding", "judging", "keeping"} =>
        /\ \A u \in Threads \ {t} : Current(t).file \notin Claimed(u)
        /\ LET row == rows[Current(t).file]
           IN  row.measured # None => row.version # Current(t).version

(* A library whose passes all hang leaves a thread for the others          *)
(* (Schedule.new, run_next).                                               *)
ALibraryLeavesAThread ==
    \A l \in Library : Cardinality(Library) > 1 =>
        \E t \in Threads : threads[t].step = "free" \/ LibraryOf[threads[t].job] # l
=============================================================================
