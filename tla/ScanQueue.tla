----------------------------- MODULE ScanQueue -----------------------------
(***************************************************************************)
(* One library's scan queue (crates/scanner/src/queue.rs, queue/request.rs *)
(* and queue/worker.rs): the requests of the watcher, the schedule, the    *)
(* plugins and the start of the server; the worker thread that runs the    *)
(* scans one at a time; the rows the store keeps of them; and what a crash *)
(* or a shutdown between any two of those steps leaves for the next start. *)
(*                                                                         *)
(* A scan is the number of its creation.  New scans join the back of the   *)
(* queue and a restart lists the rows by created_at, so the first to run   *)
(* is always the least number queued.  Clock time is left out: a retry is  *)
(* due whenever the worker finds it so.                                    *)
(***************************************************************************)
EXTENDS Scopes, FiniteSets

CONSTANTS
    Requests,     \* the sets of scopes the triggers ask for
    MaxScans,     \* bound: scans created over a behaviour
    MaxFailures,  \* bound: store writes and reads that fail
    MaxStops      \* bound: crashes and shutdowns

ASSUME RequestsAssumption == Requests \subseteq SUBSET Scope
ASSUME BoundsAssumption == {MaxScans, MaxFailures, MaxStops} \subseteq Nat

VARIABLES
    up,         \* whether the process runs
    shutdown,   \* Inner.shutdown
    booting,    \* the startup scan is still to be requested
    queued,     \* Queue.queued: the scans waiting, by number
    cursor,     \* the scans whose copy in memory has a cursor
    retry,      \* Queue.retry: its scopes, {} for none
    phase,      \* where the worker thread is
    current,    \* Queue.running while a scan runs
    inHand,     \* scopes the worker carries: a retry taken, or what did not answer
    saving,     \* who has replaced scans still to save as cancelled
    created,    \* how many scans were ever created
    scopes,     \* Scan.scopes, by number
    row,        \* the state the store holds for each scan
    rowCursor,  \* the scans whose row holds a cursor
    failures,
    stops
(***************************************************************************)
(* History, read by no guard: what the accepted requests are still owed.   *)
(***************************************************************************)
VARIABLES
    waiting,    \* scopes asked for, and no scan covering them started since
    walks,      \* the scopes each started scan took on from waiting
    away,       \* scopes that did not answer, and are to be asked for again
    dormant,    \* scopes owed by rows the last start could not list
    before      \* how many scans were created before the last start

memory == <<up, shutdown, booting, queued, cursor, retry, phase, current, inHand, saving>>
store  == <<created, scopes, row, rowCursor>>
owed   == <<waiting, walks, away, dormant, before>>
vars   == <<memory, store, failures, stops, owed>>

Scan  == 1 .. MaxScans
NoScan == 0
Library == {RootScope(r) : r \in Root}

Live     == {"queued", "running"}
Terminal == {"suspended", "completed", "cancelled"}
Phase    == {"idle", "retrying", "popped", "walking", "ended"}
Caller   == {"caller", "worker"}

TypeOK ==
    /\ up \in BOOLEAN /\ shutdown \in BOOLEAN /\ booting \in BOOLEAN
    /\ queued \subseteq Scan /\ cursor \subseteq Scan
    /\ retry \subseteq Scope /\ inHand \subseteq Scope
    /\ phase \in Phase /\ current \in Scan \cup {NoScan}
    /\ saving \in [Caller -> SUBSET Scan]
    /\ created \in 0 .. MaxScans
    /\ scopes \in [Scan -> SUBSET Scope]
    /\ row \in [Scan -> Live \cup Terminal \cup {"none"}]
    /\ rowCursor \subseteq Scan
    /\ failures \in 0 .. MaxFailures /\ stops \in 0 .. MaxStops
    /\ waiting \subseteq Scope /\ away \subseteq Scope /\ dormant \subseteq Scope
    /\ walks \in [Scan -> SUBSET Scope] /\ before \in 0 .. MaxScans

Init ==
    /\ up = FALSE /\ shutdown = FALSE /\ booting = FALSE
    /\ queued = {} /\ cursor = {} /\ retry = {} /\ inHand = {}
    /\ phase = "idle" /\ current = NoScan
    /\ saving = [c \in Caller |-> {}]
    /\ created = 0
    /\ scopes = [i \in Scan |-> {}]
    /\ row = [i \in Scan |-> "none"]
    /\ rowCursor = {}
    /\ failures = 0 /\ stops = 0
    /\ waiting = {} /\ away = {} /\ dormant = {} /\ before = 0
    /\ walks = [i \in Scan |-> {}]

\* The store answers, or fails and uses up one of the failures allowed.
StoreFails   == failures < MaxFailures /\ failures' = failures + 1
StoreAnswers == UNCHANGED failures

\* The scopes of S that scan i covers.
CoveredBy(i, S) == {s \in S : \E t \in scopes[i] : Covers(t, s)}

-----------------------------------------------------------------------------
(***************************************************************************)
(* A request for work (Inner::request).  The row of a new scan is written  *)
(* under the queue's lock; the rows of those it replaces, later and one by *)
(* one, once the lock is let go.                                           *)
(***************************************************************************)
\* Slip: a resumed scan is taken for one that has not started.
SlipJoinAnyQueued(q) == q \in queued

\* A scan takes new work only while it waits and has no cursor.
Joinable(q) == q \in queued /\ q \notin cursor

Joins(S) == \E q \in queued : Joinable(q) /\ CoversAll(scopes[q], S)

\* Slip: a running scan is replaced too.
SlipReplacesRunning(S) ==
    {q \in queued \cup ({current} \ {NoScan}) : CoversAll(S, scopes[q])}

\* Slip: nothing is taken off the queue.
SlipReplacesNone(S) == {}

ReplacedBy(S) == {q \in queued : CoversAll(S, scopes[q])}

Owe(S) == waiting' = waiting \cup S /\ dormant' = dormant \ S

\* A queued scan that has not started covers S already.
Join(S) ==
    /\ Joins(S)
    /\ Owe(S)
    /\ UNCHANGED <<queued, saving, store, failures, walks>>

\* The scan about to be created.
NewScan == created + 1

Create(S, c) ==
    /\ ~Joins(S)
    /\ created < MaxScans
    /\ StoreAnswers
    /\ created' = created + 1
    /\ scopes' = [scopes EXCEPT ![NewScan] = S]
    /\ row' = [row EXCEPT ![NewScan] = "queued"]
    /\ queued' = (queued \ ReplacedBy(S)) \cup {NewScan}
    /\ saving' = [saving EXCEPT ![c] = @ \cup ReplacedBy(S)]
    /\ Owe(S)
    /\ UNCHANGED <<rowCursor, walks>>

\* The store cannot record a new scan, or the bound on scans is reached: the
\* work waits for the next trigger.
Refuse(S) ==
    /\ ~Joins(S)
    /\ \/ StoreFails
       \/ created = MaxScans /\ StoreAnswers
    /\ UNCHANGED <<queued, saving, store, waiting, walks, dormant>>

Ask(S, c) == Join(S) \/ Create(S, c) \/ Refuse(S)

\* A trigger, once the library's startup scan has been asked for.
Request(S) ==
    /\ up /\ ~booting
    /\ Ask(Coalesce(S), "caller")
    /\ UNCHANGED <<up, shutdown, booting, cursor, retry, phase, current, inHand, stops, away, before>>

\* A row that cannot be saved stays queued in the store.
Cancel(c) == \E i \in saving[c] :
    /\ up
    /\ saving' = [saving EXCEPT ![c] = @ \ {i}]
    /\ \/ StoreAnswers /\ row' = [row EXCEPT ![i] = "cancelled"]
       \/ StoreFails /\ UNCHANGED row
    /\ UNCHANGED <<up, shutdown, booting, queued, cursor, retry, phase, current, inHand,
                   created, scopes, rowCursor, stops, owed>>

-----------------------------------------------------------------------------
(***************************************************************************)
(* The worker thread (worker.rs, run): it requests a due retry, or runs    *)
(* the first scan, and settles what the scan left.                         *)
(***************************************************************************)
WorkerFree == up /\ phase = "idle" /\ saving["worker"] = {}

\* The retry leaves the queue under the lock, and is requested after it.
TakeRetry ==
    /\ WorkerFree /\ ~shutdown
    /\ retry # {}
    /\ phase' = "retrying" /\ inHand' = retry /\ retry' = {}
    /\ UNCHANGED <<up, shutdown, booting, queued, cursor, current, saving, store, failures,
                   stops, owed>>

RequestRetry ==
    /\ up /\ phase = "retrying"
    /\ Ask(Coalesce(inHand), "worker")
    /\ phase' = "idle" /\ inHand' = {}
    /\ away' = {s \in away : ~CoversAll(inHand, {s})}
    /\ UNCHANGED <<up, shutdown, booting, cursor, retry, current, stops, before>>

First(Q) == CHOOSE i \in Q : \A j \in Q : i <= j

\* What a scan that walks from its start takes on: all that is owed and it covers.
TakesOn(i) == CoveredBy(i, waiting \cup UNION {walks[j] : j \in Scan})

Undertake(i) ==
    IF i \in cursor THEN UNCHANGED <<waiting, walks, dormant>>
    ELSE /\ waiting' = waiting \ TakesOn(i)
         /\ dormant' = dormant \ TakesOn(i)
         /\ walks' = [j \in Scan |-> IF j = i THEN TakesOn(i) ELSE walks[j] \ TakesOn(i)]

Pop ==
    /\ WorkerFree /\ ~shutdown
    /\ queued # {}
    /\ current' = First(queued) /\ queued' = queued \ {First(queued)}
    /\ phase' = "popped"
    /\ Undertake(First(queued))
    /\ UNCHANGED <<up, shutdown, booting, cursor, retry, inHand, saving, store, failures, stops,
                   away, before>>

\* run_scan saves the row running before it walks.
StartWalk ==
    /\ up /\ phase = "popped"
    /\ row' = [row EXCEPT ![current] = "running"]
    /\ phase' = "walking"
    /\ UNCHANGED <<up, shutdown, booting, queued, cursor, retry, current, inHand, saving,
                   created, scopes, rowCursor, failures, stops, owed>>

\* The first flush that passes a folder saves the cursor with the batch.
Flush ==
    /\ up /\ phase = "walking" /\ current \notin rowCursor
    /\ rowCursor' = rowCursor \cup {current} /\ cursor' = cursor \cup {current}
    /\ UNCHANGED <<up, shutdown, booting, queued, retry, phase, current, inHand, saving,
                   created, scopes, row, failures, stops, owed>>

\* The walk ends; the roots of the scopes in U did not answer.
EndWalk(U) ==
    /\ up /\ phase = "walking" /\ ~shutdown
    /\ row' = [row EXCEPT ![current] = IF U = {} THEN "completed" ELSE "suspended"]
    /\ phase' = "ended" /\ inHand' = U
    /\ away' = away \cup {s \in walks[current] : CoversAll(U, {s})}
    /\ walks' = [walks EXCEPT ![current] = {}]
    /\ UNCHANGED <<up, shutdown, booting, queued, cursor, retry, current, saving, created,
                   scopes, rowCursor, failures, stops, waiting, dormant, before>>

\* Slip: a scan stopped for a shutdown ends like one that stopped for good.
SlipSuspendAtStop == [row EXCEPT ![current] = "suspended"]

\* A shutdown leaves the row as the last flush wrote it.
RowAtStop == row

StopWalk ==
    /\ up /\ phase = "walking" /\ shutdown
    /\ row' = RowAtStop
    /\ phase' = "ended" /\ inHand' = {}
    /\ UNCHANGED <<up, shutdown, booting, queued, cursor, retry, current, saving, created,
                   scopes, rowCursor, failures, stops, owed>>

\* A store failure, a panic or a bad exclude pattern ends the scan suspended with
\* nothing to retry, its row saved or not.  Each uses up one of the failures.
GiveUp ==
    /\ up /\ phase \in {"popped", "walking"}
    /\ StoreFails
    /\ \/ row' = [row EXCEPT ![current] = "suspended"]
       \/ UNCHANGED row
    /\ phase' = "ended" /\ inHand' = {}
    /\ walks' = [walks EXCEPT ![current] = {}]
    /\ UNCHANGED <<up, shutdown, booting, queued, cursor, retry, current, saving, created,
                   scopes, rowCursor, stops, waiting, away, dormant, before>>

\* Slip: a suspension while a retry waits takes its place.
SlipRetryReplaces(old, new) == Coalesce(new)

\* retry_later: a retry already waiting takes the scopes in.
RetryLater(old, new) == Coalesce(old \cup new)

Settle ==
    /\ up /\ phase = "ended"
    /\ phase' = "idle" /\ current' = NoScan /\ inHand' = {}
    /\ retry' = IF inHand = {} THEN retry ELSE RetryLater(retry, inHand)
    /\ UNCHANGED <<up, shutdown, booting, queued, cursor, saving, store, failures, stops, owed>>

-----------------------------------------------------------------------------
(***************************************************************************)
(* The process: it stops as asked (ScannerThread::stop, then its drop      *)
(* waits for the worker), or crashes, and starts again from the rows.      *)
(***************************************************************************)
Forget ==
    /\ up' = FALSE /\ shutdown' = FALSE /\ booting' = FALSE
    /\ queued' = {} /\ cursor' = {} /\ retry' = {} /\ inHand' = {}
    /\ phase' = "idle" /\ current' = NoScan
    /\ saving' = [c \in Caller |-> {}]
    /\ away' = {} /\ dormant' = {}
    /\ UNCHANGED <<store, failures, waiting, walks, before>>

Stop ==
    /\ up /\ ~shutdown /\ ~booting
    /\ stops < MaxStops /\ stops' = stops + 1
    /\ shutdown' = TRUE
    /\ UNCHANGED <<up, booting, queued, cursor, retry, phase, current, inHand, saving, store,
                   failures, owed>>

\* The worker has seen the flag at the top of its loop and returned.
Exit == WorkerFree /\ shutdown /\ Forget /\ UNCHANGED stops

Crash == up /\ stops < MaxStops /\ stops' = stops + 1 /\ Forget

Interrupted == {i \in Scan : row[i] \in Live}

\* Slip: the cursors are not read back.
SlipForgetsCursors == {}

ResumedCursors == rowCursor

\* Scanner::start: the interrupted scans queue again with their cursors, or none
\* do if the store cannot list them.
Start ==
    /\ ~up
    /\ up' = TRUE /\ booting' = TRUE
    /\ cursor' = ResumedCursors /\ before' = created
    /\ \/ StoreAnswers /\ queued' = Interrupted /\ dormant' = {}
       \/ StoreFails /\ queued' = {} /\ dormant' = waiting \cup UNION {walks[i] : i \in Scan}
    /\ UNCHANGED <<shutdown, retry, phase, current, inHand, saving, store, stops, waiting,
                   walks, away>>

\* Scanning::start asks for the whole library before it starts the triggers; the
\* worker may have taken a resumed scan by then.
StartupRequest ==
    /\ up /\ booting
    /\ booting' = FALSE
    /\ Ask(Coalesce(Library), "caller")
    /\ UNCHANGED <<up, shutdown, cursor, retry, phase, current, inHand, stops, away, before>>

-----------------------------------------------------------------------------
WorkerCancels == Cancel("worker")
CallerCancels == Cancel("caller")

WalkEnds == current # NoScan /\ \E U \in SUBSET scopes[current] : EndWalk(U)

Next ==
    \/ \E S \in Requests : Request(S)
    \/ WorkerCancels \/ CallerCancels
    \/ TakeRetry \/ RequestRetry \/ Pop \/ StartWalk \/ Flush
    \/ WalkEnds \/ StopWalk \/ GiveUp \/ Settle
    \/ Stop \/ Exit \/ Crash \/ Start \/ StartupRequest

Spec == Init /\ [][Next]_vars

(***************************************************************************)
(* The worker thread always goes on, a scan's walk ends, and a process     *)
(* that is down is started again.  A retry that is due is taken before     *)
(* the next scan, so it is not passed over for ever.  Nothing makes a      *)
(* trigger fire, a caller save its cancelled rows, or a failure happen.    *)
(***************************************************************************)
Fairness ==
    /\ WF_vars(WorkerCancels) /\ WF_vars(RequestRetry) /\ WF_vars(Pop)
    /\ WF_vars(StartWalk) /\ WF_vars(WalkEnds) /\ WF_vars(StopWalk) /\ WF_vars(Settle)
    /\ WF_vars(Exit) /\ WF_vars(Start) /\ WF_vars(StartupRequest)
    /\ SF_vars(TakeRetry)

FairSpec == Spec /\ Fairness

-----------------------------------------------------------------------------
\* A scan in memory that will walk s from its start.
Fresh(s) == \E q \in queued : Joinable(q) /\ CoversAll(scopes[q], {s})

\* Each part of what is owed has its keeper.
WaitingIsFresh == \A s \in waiting \ dormant : Fresh(s)

WalksAreKept == \A i \in Scan : \A s \in walks[i] \ dormant :
    shutdown \/ i \in queued \cup {current} \/ Fresh(s)

AwayIsRetried == \A s \in away : CoversAll(retry \cup inHand, {s})

(* Work accepted is never dropped while the process runs: each scope asked *)
(* for is covered by a queued scan that has not started (never by one that *)
(* is running or resumed, whose walk may have passed it); what a scan took *)
(* on, by that scan or one that replaced it; and each scope whose root did *)
(* not answer, by the retry.  Left out is what only the store still holds: *)
(* after a failed listing, and of a scan that stopped for the shutdown.    *)
AcceptedWorkIsQueued == up => WaitingIsFresh /\ WalksAreKept /\ AwayIsRetried

\* A row the next start queues again, to walk s from its start.
FreshRow(s) == \E i \in Scan : /\ row[i] \in Live /\ i \notin rowCursor
                               /\ CoversAll(scopes[i], {s})

(* Work accepted survives a crash at any step: there is a queued row to    *)
(* walk each scope asked for, and the row of each scan that took one on    *)
(* is still live, or another covers it (Inner::request: "a crash between   *)
(* never leaves their work without a queued row").                         *)
AcceptedWorkIsRecorded ==
    /\ \A s \in waiting : FreshRow(s)
    /\ \A i \in Scan : \A s \in walks[i] : row[i] \in Live \/ FreshRow(s)

(* What the worker runs next is what the store would resume: a scan queued *)
(* in memory has a live row with the same cursor, and the row of a scan    *)
(* replaced is never that of one queued or running.                        *)
QueueMatchesRows ==
    up => /\ \A i \in queued : row[i] \in Live /\ (i \in cursor <=> i \in rowCursor)
          /\ phase \in {"popped", "walking"} => row[current] \in Live
          /\ (saving["caller"] \cup saving["worker"]) \cap (queued \cup {current}) = {}

(* A trigger repeated while a scan runs queues one follow-up scan, not one *)
(* each time: nothing queued since the start covers a scan queued before   *)
(* it, or is covered by one that could have taken its work in.             *)
OneFollowUp ==
    \A i, j \in queued :
        (i < j /\ j > before) =>
            /\ ~CoversAll(scopes[j], scopes[i])
            /\ (i \in cursor \/ ~CoversAll(scopes[i], scopes[j]))

(* A row that has ended never changes its state again, whatever was still  *)
(* to be saved when it ended: no scan is run twice or resumed once done.   *)
EndedRowsStay == [][\A i \in Scan : row[i] \in Terminal => row'[i] = row[i]]_vars

(* Scopes asked for are walked, given up or forgotten by a failed listing: *)
(* no scan waits for ever behind others, and no retry is left unrequested. *)
Owed == (waiting \cup away \cup UNION {walks[i] : i \in Scan}) \ dormant
AcceptedWorkEnds == \A s \in Scope : []<>(s \notin Owed)

-----------------------------------------------------------------------------
(***************************************************************************)
(* The inductive invariant: what else holds between the worker's place,    *)
(* memory and the store, so that each step keeps the invariants above.     *)
(***************************************************************************)
\* A scan not created yet is nowhere.
Numbers == \A i \in Scan : i > created =>
    /\ row[i] = "none" /\ walks[i] = {}
    /\ i \notin queued /\ i \notin cursor /\ i \notin rowCursor
    /\ i \notin saving["caller"] /\ i \notin saving["worker"]
    /\ i # current

Down == ~up =>
    /\ ~shutdown
    /\ queued = {} /\ cursor = {} /\ retry = {} /\ inHand = {} /\ away = {} /\ dormant = {}
    /\ phase = "idle" /\ current = NoScan
    /\ saving["caller"] = {} /\ saving["worker"] = {}

Worker ==
    /\ phase \in {"popped", "walking", "ended"} => current \in Scan \ queued
    /\ phase \in {"idle", "retrying"} => current = NoScan
    /\ phase \in {"idle", "popped", "walking"} => inHand = {}

\* Only a scan stopped for a shutdown ends with work left, and its row is still live.
Ended == (phase = "ended" /\ walks[current] # {}) => (row[current] \in Live /\ shutdown)

\* A row still to be saved as cancelled has not ended, and one thread alone saves it.
SavedOnce ==
    /\ saving["caller"] \cap saving["worker"] = {}
    /\ \A i \in saving["caller"] \cup saving["worker"] : row[i] \in Live

\* What a scan took on lies within it, so what replaces it covers that too.
TookOnItsOwn == \A i \in Scan : \A s \in walks[i] : CoversAll(scopes[i], {s})

\* A live row that nobody in memory knows or will save.
Untouched(i) == /\ row[i] \in Live
                /\ i \notin queued /\ i # current
                /\ i \notin saving["caller"] /\ i \notin saving["worker"]

UntouchedFresh(s) ==
    \E i \in Scan : Untouched(i) /\ i \notin rowCursor /\ CoversAll(scopes[i], {s})

\* While the process runs no pending save can take away the last row that owes a scope.
WaitingIsSafe == \A s \in waiting : Fresh(s) \/ UntouchedFresh(s)

WalksAreSafe == \A i \in Scan : \A s \in walks[i] :
    i \in queued \cup {current} \/ Untouched(i) \/ Fresh(s) \/ UntouchedFresh(s)

RowsAreSafe == up => WaitingIsSafe /\ WalksAreSafe

(* The conjunction that every step preserves: type correctness, the        *)
(* invariants about the queue and accepted work, and what they rest on.    *)
QueueInductive ==
    /\ TypeOK /\ Numbers /\ Down /\ Worker
    /\ QueueMatchesRows /\ Ended /\ SavedOnce /\ TookOnItsOwn
    /\ OneFollowUp /\ RowsAreSafe
    /\ AcceptedWorkIsQueued /\ AcceptedWorkIsRecorded
=============================================================================
