----------------------------- MODULE QueueStore -----------------------------
(***************************************************************************)
(* One account's queues on the server (crates/server/src/queue/store.rs,   *)
(* edit.rs, keep.rs, save.rs): the active queue and the queues parked      *)
(* since the last save in memory, the lists not yet saved, and the rows of *)
(* the database.                                                           *)
(*                                                                         *)
(* The database has one writer, which runs one job at a time: the job's    *)
(* body, which takes what it needs from memory under the lock, and then    *)
(* its commit, which may fail.  What the caller does about the outcome     *)
(* runs in the caller's own task some time after, or never, if the task    *)
(* was dropped.  Edits take the lock alone, between any of these.          *)
(*                                                                         *)
(* A queue is its edits in the order applied, whether it was adjusted and  *)
(* the lists it references; its version is how many edits it had.  The     *)
(* context, the tracks and the position playback was left at are left out. *)
(* The save writes each account in a savepoint of its own, so one account  *)
(* stands for all but for a failed commit, which marks them all changed.   *)
(* The parked queues are a set: they are found by ID, and their order      *)
(* tells only between two of one ID, which a delayed caller may leave.     *)
(***************************************************************************)
EXTENDS Naturals, SequencesExt

CONSTANTS
    Queue,        \* the queueIds devices choose
    List,         \* list hashes
    Edit,         \* the editIds devices choose
    Client,       \* requests that restore or delete, one at a time each
    None,         \* no queue, or no caller
    Base,         \* Queue -> the list it starts from
    On,           \* Edit -> the queue it is for
    Adds,         \* Edit -> the lists it brings: one, or none
    Drops,        \* Edit -> the lists no row reads once it is applied
    Adjusting,    \* Edit -> whether it adjusts the queue
    RememberedEdits, \* REMEMBERED: how many of the latest edits are kept
    MaxEdits,     \* bound: edits applied between two starts of the server
    MaxFaults     \* bound: failed statements and commits, dropped tasks and crashes

ASSUME QueueStoreAssumptions ==
    /\ None \notin Queue \cup Client \cup {"saver"} /\ "saver" \notin Client
    /\ Base \in [Queue -> List] /\ On \in [Edit -> Queue]
    /\ Adds \in [Edit -> SUBSET List] /\ Drops \in [Edit -> SUBSET List]
    /\ Adjusting \in [Edit -> BOOLEAN]
    /\ RememberedEdits \in Nat \ {0}
    /\ MaxEdits \in Nat /\ MaxFaults \in Nat

VARIABLES
    active,    \* the account's active queue, NoQueue if it has none
    parked,    \* Account.parked: queues replaced and not yet saved
    held,      \* Account.lists: lists the database may not hold yet
    done,      \* Account.done: the latest edits applied, oldest first
    changed,   \* Account.changed
    db,        \* what is committed: the queues, which is active, the lists
    tx,        \* the job on the writer whose body has run, and what it wrote
    ended,     \* caller -> the outcome its task has yet to act on
    faults     \* counts towards MaxFaults
(***************************************************************************)
(* History.  edits counts towards MaxEdits; no guard reads the others.     *)
(***************************************************************************)
VARIABLES
    edits,     \* how many edits were applied since the server started
    overtaken, \* the writer has begun a job before a caller acted on its outcome
    abandoned, \* a task was dropped whose write failed
    borrowed   \* an edit brought a list a job was storing, for another queue alone

memory       == <<active, parked, held, done, changed>>
queueHistory == <<edits, overtaken, abandoned, borrowed>>
queueVars    == <<memory, db, tx, ended, faults, queueHistory>>

Saver  == "saver"
Caller == {Saver} \cup Client

QueueContent == [id : Queue, edits : Seq(Edit), adjusted : BOOLEAN, lists : SUBSET List]
NoQueue == [id |-> None, edits |-> <<>>, adjusted |-> FALSE, lists |-> {}]
Fresh(q) == [id |-> q, edits |-> <<>>, adjusted |-> FALSE, lists |-> {Base[q]}]

HasAccount == active # NoQueue
Ids(qs) == {p.id : p \in qs}
Names(q) == active.id = q \/ q \in Ids(parked)
Without(qs, ids) == {p \in qs : p.id \notin ids}

Stored(q) == db.queues[q] # NoQueue
KeptRow(q) == Stored(q) /\ db.active # q
(***************************************************************************)
(* A job's outcome, as its caller needs it: the lists and the parked       *)
(* queues the write stored, and for a restore or a delete what to put back *)
(* if the commit fails: the parked queue it took, and the active queue it  *)
(* replaced.                                                               *)
(***************************************************************************)
Idle == [job |-> "none", ok |-> TRUE, stored |-> {}, wrote |-> {},
         target |-> {}, previous |-> NoQueue]
NoTx == [caller |-> None, outcome |-> Idle,
         db |-> [queues |-> [q \in Queue |-> NoQueue], active |-> None, lists |-> {}]]

WriterFree == tx = NoTx
Unsettled == {c \in Caller : ended[c] # Idle}
(***************************************************************************)
(* The writer begins a job: whoever has not acted on an earlier one is     *)
(* overtaken, and so is whoever's queue expires while still parked.        *)
(***************************************************************************)
BeginsOver(expired) ==
    /\ WriterFree
    /\ overtaken' = (overtaken \/ Unsettled # {} \/ expired \cap Ids(parked) # {})
    /\ UNCHANGED <<ended, edits, abandoned, borrowed>>
Begins == BeginsOver({})
Fault == faults < MaxFaults /\ faults' = faults + 1

QueuesInit ==
    /\ active = NoQueue /\ parked = {} /\ held = {} /\ done = <<>> /\ changed = FALSE
    /\ db = NoTx.db /\ tx = NoTx
    /\ ended = [c \in Caller |-> Idle]
    /\ faults = 0
    /\ edits = 0 /\ overtaken = FALSE /\ abandoned = FALSE /\ borrowed = FALSE

(***************************************************************************)
(* Queues::start_in: refused if any queue of the account has the ID.       *)
(* park_for parks the queue it replaces.  It writes nothing, so its commit *)
(* cannot fail.                                                            *)
(***************************************************************************)
\* Slip: only memory is asked for the ID.
SlipStartUnread(q) ==
    /\ Begins
    /\ ~Names(q)
    /\ active' = Fresh(q)
    /\ parked' = IF HasAccount THEN parked \cup {active} ELSE {}
    /\ held' = held \cup {Base[q]}
    /\ changed' = TRUE
    /\ UNCHANGED <<done, db, tx, faults>>
Start(q) ==
    /\ Begins
    /\ ~Stored(q) /\ ~Names(q)
    /\ active' = Fresh(q)
    /\ parked' = IF HasAccount THEN parked \cup {active} ELSE {}
    /\ held' = held \cup {Base[q]}
    /\ changed' = TRUE
    /\ UNCHANGED <<done, db, tx, faults>>

(***************************************************************************)
(* Queues::apply.  The core refuses an add whose source the queue has, an  *)
(* edit for another queue is refused, and one among the latest is answered *)
(* and not applied: all of these change nothing.                           *)
(***************************************************************************)
Latest32(e) ==
    Append(IF Len(done) = RememberedEdits THEN Tail(done) ELSE done, e)
HasSource(e) == Adds[e] # {} /\ Adds[e] \subseteq active.lists
(***************************************************************************)
(* A list an edit brings may be one that a job is storing for another      *)
(* queue: committed lets go of it, though the row of the queue edited does *)
(* not use it yet, and it goes with the other queue's row.                 *)
(***************************************************************************)
Storing == tx.outcome.stored \cup UNION {ended[c].stored : c \in Caller}
Written == IF WriterFree THEN db ELSE tx.db
Borrows(e) == ~(Adds[e] \cap Storing \subseteq Written.queues[On[e]].lists)
Apply(e) ==
    /\ edits < MaxEdits
    /\ active.id = On[e]
    /\ e \notin ToSet(done)
    /\ ~HasSource(e)
    /\ active' = [active EXCEPT !.edits = Append(@, e),
                                !.adjusted = @ \/ Adjusting[e],
                                !.lists = (@ \ Drops[e]) \cup Adds[e]]
    /\ held' = held \cup Adds[e]
    /\ changed' = TRUE
    /\ done' = Latest32(e)
    /\ edits' = edits + 1
    /\ borrowed' = (borrowed \/ Borrows(e))
    /\ UNCHANGED <<parked, db, tx, ended, faults, overtaken, abandoned>>

-----------------------------------------------------------------------------
(***************************************************************************)
(* What a write of the account does to the rows (write_statements): the    *)
(* parked queues first, each kept or deleted, then the lists, then the     *)
(* active queue, and then the lists no queue uses go.                      *)
(***************************************************************************)
UsedLists(queues) == UNION {queues[q].lists : q \in Queue}
DropUnused(d) == [d EXCEPT !.lists = @ \cap UsedLists(d.queues)]

The(q, ps) == CHOOSE p \in ps : p.id = q

\* Slip: INSERT OR IGNORE, which leaves the row of a queue that was active as it was.
SlipParkUnlessStored(d, ps) ==
    [d EXCEPT !.queues = [q \in Queue |->
                             IF q \notin Ids(ps) THEN d.queues[q]
                             ELSE IF ~The(q, ps).adjusted THEN NoQueue
                             ELSE IF d.queues[q] # NoQueue THEN d.queues[q] ELSE The(q, ps)],
              !.active = IF @ \in Ids(ps) THEN None ELSE @]
WriteParked(d, ps) ==
    [d EXCEPT !.queues = [q \in Queue |->
                             IF q \notin Ids(ps) THEN d.queues[q]
                             ELSE IF The(q, ps).adjusted THEN The(q, ps) ELSE NoQueue],
              !.active = IF @ \in Ids(ps) THEN None ELSE @]
WriteQueue(d, a) ==
    [d EXCEPT !.queues[a.id] = a, !.active = a.id]
WriteAccount(d, a, ps, lists) ==
    DropUnused(WriteQueue([WriteParked(d, ps) EXCEPT !.lists = @ \cup lists], a))

\* Account::take: the held lists that the queues to be kept reference.
\* Slip: only the active queue's.
SlipTakenOfActive(a, ps) == held \cap a.lists
Taken(a, ps) ==
    held \cap (a.lists \cup UNION {p.lists : p \in {r \in ps : r.adjusted}})

Writing(c, outcome, d) == tx' = [caller |-> c, outcome |-> outcome, db |-> d]

(***************************************************************************)
(* The background save, and the last one as the server stops: the job is   *)
(* write_changed.  An account whose savepoint fails stays changed.         *)
(***************************************************************************)
Save ==
    /\ Begins
    /\ ended[Saver] = Idle
    /\ HasAccount /\ changed
    /\ LET lists == Taken(active, parked) IN
         \/ /\ changed' = FALSE
            /\ Writing(Saver, [Idle EXCEPT !.job = "save", !.stored = lists,
                                           !.wrote = Ids(parked)],
                       WriteAccount(db, active, parked, lists))
            /\ UNCHANGED faults
         \/ Fault /\ UNCHANGED <<changed, tx>>
    /\ UNCHANGED <<active, parked, held, done, db>>

(***************************************************************************)
(* Queues::restore_in: a parked queue is taken from memory, any other from *)
(* its row.  A statement that fails puts memory back there and then.       *)
(***************************************************************************)
IsKept(q) ==
    IF q \in Ids(parked) THEN The(q, parked).adjusted ELSE KeptRow(q)
FromMemory(q) == IF q \in Ids(parked) THEN {The(q, parked)} ELSE {}

\* put_back of `previous`, which a restore replaced, and of the parked queue it took.
\* Slip: the account is not marked changed.
SlipUnmarked(rest, target, previous) ==
    /\ active' = previous
    /\ parked' = Without(rest, {previous.id}) \cup target
    /\ changed' = FALSE
    /\ UNCHANGED <<held, done>>
PutBack(rest, target, previous) ==
    IF previous = NoQueue
    THEN /\ active' = NoQueue /\ parked' = {} /\ held' = {} /\ done' = <<>>
         /\ changed' = FALSE
    ELSE /\ active' = previous
         /\ parked' = Without(rest, {previous.id}) \cup target
         /\ changed' = TRUE
         /\ UNCHANGED <<held, done>>

Restore(c, q) ==
    /\ Begins
    /\ ended[c] = Idle
    /\ active.id # q /\ IsKept(q)
    /\ LET from   == FromMemory(q)
           target == IF from # {} THEN The(q, parked) ELSE db.queues[q]
           rest   == IF HasAccount THEN (parked \ from) \cup {active} ELSE {}
           lists  == Taken(target, rest)
       IN  \/ /\ active' = target /\ parked' = rest /\ changed' = FALSE
              /\ Writing(c, [job |-> "restore", ok |-> TRUE, stored |-> lists,
                             wrote |-> Ids(rest), target |-> from, previous |-> active],
                         WriteAccount(db, target, rest, lists))
              /\ UNCHANGED <<held, done, faults>>
           \/ Fault /\ PutBack(rest, from, active) /\ UNCHANGED tx
    /\ UNCHANGED db

(***************************************************************************)
(* Queues::delete_in.  A parked queue leaves memory first; a statement     *)
(* that fails puts it back there and then.                                 *)
(***************************************************************************)
WithoutRow(d, q) ==
    DropUnused([d EXCEPT !.queues[q] = NoQueue, !.active = IF @ = q THEN None ELSE @])
Delete(c, q) ==
    /\ Begins
    /\ ended[c] = Idle
    /\ active.id # q
    /\ IF q \in Ids(parked) THEN The(q, parked).adjusted ELSE Stored(q)
    /\ changed' = (changed \/ q \in Ids(parked))
    /\ LET from == FromMemory(q) IN
         \/ /\ parked' = parked \ from
            /\ Writing(c, [Idle EXCEPT !.job = "delete", !.target = from],
                       WithoutRow(db, q))
            /\ UNCHANGED faults
         \/ Fault /\ UNCHANGED <<parked, tx>>
    /\ UNCHANGED <<active, held, done, db>>

(***************************************************************************)
(* The retention sweep's jobs, each committed or not at once: nothing in   *)
(* memory depends on them.                                                 *)
(***************************************************************************)
Expire(q) ==
    /\ BeginsOver({q})
    /\ KeptRow(q)
    /\ db' = [db EXCEPT !.queues[q] = NoQueue]
    /\ UNCHANGED <<memory, tx, faults>>
SweepLists ==
    /\ Begins
    /\ db' = DropUnused(db)
    /\ UNCHANGED <<memory, tx, faults>>

-----------------------------------------------------------------------------
\* The job's commit, and the outcome on its way to the caller, if it still waits.
Reply(outcome) ==
    /\ ended' = IF tx.caller \in Caller THEN [ended EXCEPT ![tx.caller] = outcome] ELSE ended
    /\ tx' = NoTx
Commit ==
    /\ ~WriterFree
    /\ db' = tx.db
    /\ Reply(tx.outcome)
    /\ UNCHANGED <<memory, faults, queueHistory>>
FailCommit ==
    /\ ~WriterFree /\ Fault
    /\ Reply([tx.outcome EXCEPT !.ok = FALSE])
    /\ abandoned' = (abandoned \/ tx.caller = None)
    /\ UNCHANGED <<memory, db, edits, overtaken, borrowed>>

(***************************************************************************)
(* Queues::committed: the parked queues written leave memory, and a held   *)
(* list stays only if it was added since and is still to be written.       *)
(***************************************************************************)
\* Slip: every held list is let go of.
SlipClearing(outcome) ==
    /\ parked' = Without(parked, outcome.wrote)
    /\ held' = {}
    /\ UNCHANGED <<active, done, changed>>
Committed(outcome) ==
    LET left == Without(parked, outcome.wrote)
        referenced == active.lists \cup UNION {p.lists : p \in left}
    IN  /\ parked' = left
        /\ held' = {l \in held : changed /\ l \in referenced /\ l \notin outcome.stored}
        /\ UNCHANGED <<active, done, changed>>

Settle(c) ==
    /\ ended[c] # Idle
    /\ ended' = [ended EXCEPT ![c] = Idle]
    /\ LET o == ended[c] IN
         CASE ~HasAccount -> UNCHANGED memory
           [] HasAccount /\ o.ok /\ o.job \in {"save", "restore"} -> Committed(o)
           [] HasAccount /\ ~o.ok /\ o.job = "save" ->
                changed' = TRUE /\ UNCHANGED <<active, parked, held, done>>
           [] HasAccount /\ ~o.ok /\ o.job = "restore" -> PutBack(parked, o.target, o.previous)
           [] HasAccount /\ o.job = "delete" ->
                /\ parked' = IF o.ok THEN parked ELSE parked \cup o.target
                /\ UNCHANGED <<active, held, done, changed>>
    /\ UNCHANGED <<db, tx, faults, queueHistory>>

(***************************************************************************)
(* A client hangs up, which drops its request's task, or the server stops, *)
(* which aborts the background save: the write goes on, and nothing acts   *)
(* on its outcome.                                                         *)
(***************************************************************************)
HangUp(c) ==
    /\ Fault
    /\ \/ /\ tx.caller = c /\ tx' = [tx EXCEPT !.caller = None]
          /\ UNCHANGED <<ended, abandoned>>
       \/ /\ ended[c] # Idle /\ ended' = [ended EXCEPT ![c] = Idle]
          /\ abandoned' = (abandoned \/ ~ended[c].ok)
          /\ UNCHANGED tx
    /\ UNCHANGED <<memory, db, edits, overtaken, borrowed>>

\* The process ends at any step, and load reads the active queue at the next start.
Crash ==
    /\ Fault
    /\ active' = IF db.active = None THEN NoQueue ELSE db.queues[db.active]
    /\ parked' = {} /\ held' = {} /\ done' = <<>> /\ changed' = FALSE
    /\ tx' = NoTx /\ ended' = [c \in Caller |-> Idle]
    /\ edits' = 0
    /\ UNCHANGED <<db, overtaken, abandoned, borrowed>>

QueuesNext ==
    \/ \E q \in Queue : Start(q) \/ Expire(q)
    \/ \E q \in Queue, c \in Client : Restore(c, q) \/ Delete(c, q)
    \/ \E e \in Edit : Apply(e)
    \/ \E c \in Caller : Settle(c) \/ HangUp(c)
    \/ Save \/ SweepLists \/ Commit \/ FailCommit \/ Crash

QueuesSpec == QueuesInit /\ [][QueuesNext]_queueVars

-----------------------------------------------------------------------------
Row == QueueContent \cup {NoQueue}
Database == [queues : [Queue -> Row], active : Queue \cup {None}, lists : SUBSET List]
Outcome == [job : {"none", "save", "restore", "delete"}, ok : BOOLEAN,
            stored : SUBSET List, wrote : SUBSET Queue,
            target : SUBSET QueueContent, previous : Row]
(***************************************************************************)
(* Types; a row has its own ID, the active one is stored, and at most one  *)
(* task waits on the writer.                                               *)
(***************************************************************************)
QueuesTypeOK ==
    /\ active \in Row /\ parked \subseteq QueueContent /\ held \subseteq List
    /\ done \in Seq(Edit) /\ Len(done) <= RememberedEdits /\ changed \in BOOLEAN
    /\ db \in Database
    /\ \A q \in Queue : Stored(q) => db.queues[q].id = q
    /\ db.active # None => Stored(db.active)
    /\ tx \in [caller : Caller \cup {None}, outcome : Outcome, db : Database]
    /\ ended \in [Caller -> Outcome]
    /\ edits \in 0 .. MaxEdits /\ overtaken \in BOOLEAN /\ abandoned \in BOOLEAN
    /\ borrowed \in BOOLEAN
    /\ faults \in 0 .. MaxFaults
-----------------------------------------------------------------------------
(***************************************************************************)
(* What a save, a restore or a delete does in memory about its outcome is  *)
(* done off the writer (keep.rs:161-171, 274-279, save.rs:90-99).  The     *)
(* properties below are of the executions in which that is done, and done  *)
(* before the writer's next job, and in which no edit brings a list that a *)
(* job is storing for another queue; the README shows what others may do.  *)
(***************************************************************************)
InTurn == ~overtaken /\ ~abandoned
Prompt == InTurn /\ ~borrowed

(***************************************************************************)
(* Every row of the database, and the active one above all, has all its    *)
(* lists there: a save writes a list before the row that uses it, removes  *)
(* only what no row uses, and lets go of a held list only once stored      *)
(* (save.rs:259-293, 136-158).                                             *)
(***************************************************************************)
StoredQueuesAreWhole ==
    Prompt => UsedLists(db.queues) \subseteq db.lists

(***************************************************************************)
(* Every list that the active queue or a parked queue to be kept reads is  *)
(* held in memory or stored, whatever edits, saves, restores and failed    *)
(* commits come between (save.rs:136-158, keep.rs:239-253).                *)
(***************************************************************************)
ToBeKept == {p \in parked : p.adjusted}
MemoryIsWhole ==
    Prompt => UNION {p.lists : p \in {active} \cup ToBeKept} \subseteq held \cup db.lists

(***************************************************************************)
(* "A list is written in the same write as the queue that uses it, so none *)
(* is unused for being new" (db/retention.rs:196-197), and a held list is  *)
(* let go of once "stored or no longer used" (save.rs:134-135): so, in any *)
(* turn of events, the active queue's lists are in memory or stored.       *)
(***************************************************************************)
NoneIsUnusedForBeingNew ==
    InTurn => active.lists \subseteq held \cup db.lists

(***************************************************************************)
(* A change is never forgotten: once every job has ended and been acted    *)
(* on, an account that is not marked changed is stored as it is in memory. *)
(* A queue still parked, as when a client hung up, is stored too if it is  *)
(* to be kept, and has no row if it is not (store.rs:51, save.rs:85-158).  *)
(***************************************************************************)
Quiet == WriterFree /\ Unsettled = {}
Settled(p) == db.queues[p.id] = IF p.adjusted THEN p ELSE NoQueue
UnsavedIsNoticed ==
    Prompt /\ Quiet /\ HasAccount /\ ~changed =>
        /\ db.active = active.id /\ db.queues[active.id] = active
        /\ \A p \in parked : Settled(p)

(***************************************************************************)
(* "A queue the database holds as kept is never playing" (keep.rs:147),    *)
(* or it would expire under its listener and a start would find its ID     *)
(* taken, except while a restore of it is under way.                       *)
(***************************************************************************)
KeptIsNotPlaying ==
    Prompt /\ Quiet /\ HasAccount => ~KeptRow(active.id)

(***************************************************************************)
(* No step but its own deletion or expiry, a fault, or putting back what a *)
(* failed restore replaced, loses an edit of an adjusted queue: not a      *)
(* save, which may take it, park it or write it while it is edited, nor a  *)
(* start or a restore in its place (save.rs:136-158, keep.rs:83-140).      *)
(***************************************************************************)
Latest(q) ==
    CASE active.id = q -> active
      [] active.id # q /\ q \in Ids(parked) -> The(q, parked)
      [] OTHER -> db.queues[q]
Removed(q) ==
    \/ Expire(q) \/ \E c \in Client : Delete(c, q)
    \/ tx.outcome.job = "delete" /\ tx.db.queues[q] = NoQueue /\ tx' = NoTx
PutsBack == \E c \in Caller : ~ended[c].ok /\ ended'[c].ok
LosesNoEdit(q) ==
    IsPrefix(Latest(q).edits, Latest(q)'.edits) /\ Latest(q)'.adjusted
EditsOutliveJobs ==
    [][\A q \in Queue :
         Latest(q).adjusted /\ Prompt' /\ faults' = faults /\ ~Removed(q) /\ ~PutsBack =>
             LosesNoEdit(q)]_queueVars
=============================================================================
