------------------------------- MODULE Hooks -------------------------------
(***************************************************************************)
(* The delivery of hook events to one plugin                               *)
(* (crates/server/src/plugins/hooks.rs, hooks/*.rs, turns.rs, run.rs,      *)
(* install.rs, grants.rs).  A poll finds what is due in one read; each     *)
(* delivery claims its key, waits for the plugin's turn in the library,    *)
(* then for one of the slots, reads its event if it is still due, runs it, *)
(* and writes how it went.  Admins add libraries, edit the grants, and     *)
(* enable, disable, run, install and uninstall the plugin at any step.     *)
(*                                                                         *)
(* A key is a library, a hook and a user, None for a library hook.  Times  *)
(* are kept as ages, in ticks: of failing, until a retry, and since a run. *)
(* clock numbers the milliseconds in which something happened, which is    *)
(* all that the position of scanFinished and a connection's start compare. *)
(***************************************************************************)
EXTENDS Integers, Sequences, SequencesExt

CONSTANTS
    Library,        \* the libraries there may be, by their IDs
    Key,            \* the hooks the manifest asks for, by library and user
    Required,       \* the hooks whose permission the manifest requires
    Grants,         \* the sets of hooks an admin grants
    Slots,          \* deliveries at once (Plugins::hook_slots)
    Batch,          \* events of one delivery (BATCH)
    Backoff,        \* ticks of BACKOFF_MS, MAX_BACKOFF_MS and MAX_FAILING_MS
    MaxBackoff,
    MaxFailing,
    MaxChances      \* bound on the events, on what admins and users do,
                    \* and on failures and restarts, all together

None == 0   \* no user (a library hook's is stored as 0), no time

ASSUME HooksAssumption ==
    /\ Library \subseteq Nat \ {0} /\ Library # {}
    /\ Key \subseteq [library : Library, user : Nat,
                      hook : {"changed", "finished", "played"}]
    /\ \A k \in Key : (k.user = None) <=> (k.hook # "played")
    /\ Required \subseteq {k.hook : k \in Key}
    /\ Grants \subseteq SUBSET {k.hook : k \in Key}
    /\ Slots \in Nat \ {0} /\ Batch \in Nat \ {0}
    /\ {Backoff, MaxBackoff, MaxFailing} \subseteq Nat
    /\ 0 < Backoff /\ Backoff <= MaxBackoff /\ MaxBackoff <= MaxFailing

Hook == {k.hook : k \in Key}
User == {k.user : k \in Key} \ {None}

VARIABLES
    libraries,      \* the libraries there are
    installed,      \* the plugin has its row
    enabled,        \* the libraries it is enabled in
    granted,        \* the hooks granted to it
    connected,      \* per user, the millisecond since when, 0 for not
    feed,           \* per key, the milliseconds of its events, in order
    cursor,         \* per key, its position, how long it has been failing,
                    \* -1 if it is not, and the ticks until a retry
    clock,          \* the millisecond now
    found,          \* what the poll under way has found due and not started
    task,           \* per key, its delivery under way, if any
    turns,          \* per library, who holds (first) and awaits its turn
    slots,          \* who holds (the first Slots) and awaits a slot
    manual,         \* Run now: the libraries left, and whether it runs there
    uninstall,      \* the libraries whose turn an uninstall has yet to take
    levels,         \* those it read, whose turns it takes and holds
    stopped,        \* the hooks are stopped
    spent,          \* how many of the chances have been taken
    done,           \* history: per key, the events handled, as recorded
    rest,           \* history: per key, the ticks until it may run again
    over            \* history: the keys whose position a run of a former
                    \* installation has recorded over the plugin's own

admin == <<libraries, installed, enabled, granted, connected>>
queues == <<task, turns, slots>>
others == <<manual, uninstall, levels>>
history == <<done, rest, over>>
vars == <<admin, feed, cursor, clock, found, queues, others, stopped,
          spent, history>>

\* What happens by chance, as often as MaxChances.
Chance == spent < MaxChances /\ spent' = spent + 1

Idle == [at |-> "none"]
NoRun == [left |-> {}, runs |-> FALSE]
Fresh == [position |-> 0, failing |-> -1, retry |-> 0]

Init ==
    /\ libraries \in SUBSET Library \ {{}}
    /\ installed = TRUE /\ enabled = libraries /\ granted = Hook
    /\ connected = [u \in User |-> 1]
    /\ feed = [k \in Key |-> <<>>] /\ cursor = [k \in Key |-> Fresh]
    /\ clock = 1 /\ found = {} /\ task = [k \in Key |-> Idle]
    /\ turns = [l \in Library |-> <<>>] /\ slots = <<>>
    /\ manual = NoRun /\ uninstall = {} /\ levels = {} /\ stopped = FALSE
    /\ spent = 0
    /\ done = [k \in Key |-> {}] /\ rest = [k \in Key |-> 0] /\ over = {}

-----------------------------------------------------------------------------
(* What is due.                                                            *)

\* Where an event is for its hook's position: when its scan finished, or
\* its place in the feed.
Place(k, i) == IF k.hook = "finished" THEN feed[k][i] ELSE i

Least(ns) == CHOOSE n \in ns : \A m \in ns : n <= m

\* The events the hook's query sees: scans that finished before now, and
\* plays that ended since the user connected.
Visible(k) ==
    {i \in DOMAIN feed[k] :
        CASE k.hook = "finished" -> feed[k][i] < clock
          [] k.hook = "played"   -> feed[k][i] >= connected[k.user]
          [] OTHER               -> TRUE}

\* Those past position p.
Past(k, p) == {i \in Visible(k) : Place(k, i) > p}

\* The pair is enabled there, the hook granted, its user connected, no
\* retry awaited, and something past its position.
Due(k) ==
    /\ installed /\ k.library \in enabled /\ k.hook \in granted
    /\ k.user # None => connected[k.user] # 0
    /\ cursor[k].retry = 0
    /\ Past(k, cursor[k].position) # {}

\* What one delivery reads: all scans finished, or a batch of the others.
NextBatch(k, p) ==
    IF k.hook = "finished" THEN Past(k, p)
    ELSE {i \in Past(k, p) : i < Batch + Least(Past(k, p))}

\* The position once the events of a batch are handled.
After(k, batch) == CHOOSE p \in {Place(k, i) : i \in batch} :
                      \A i \in batch : Place(k, i) <= p

-----------------------------------------------------------------------------
(* Turns and slots, both first come first served.                          *)

\* Run now and an uninstall take turns beside the deliveries.
RunNow == [l \in Library |-> [library |-> l, hook |-> "run", user |-> None]]
Uninstall == [l \in Library |-> [library |-> l, hook |-> "uninstall", user |-> None]]

HasTurn(who) == turns[who.library] # <<>> /\ Head(turns[who.library]) = who
HasSlot(k) == \E n \in DOMAIN slots : n <= Slots /\ slots[n] = k

Without(queue, who) == SelectSeq(queue, LAMBDA w : w # who)

\* Lets k's slot go, and its turn, which is the first.
LetGo(k) ==
    /\ turns' = [turns EXCEPT ![k.library] = Tail(@)]
    /\ slots' = Without(slots, k)

\* Slip: the turn is not let go.
SlipEnd(k) == task' = [task EXCEPT ![k] = Idle]
              /\ slots' = Without(slots, k) /\ UNCHANGED turns

\* Ends k's delivery: its claim, its turn and its slot.
End(k) == task' = [task EXCEPT ![k] = Idle] /\ LetGo(k)

-----------------------------------------------------------------------------
(* Deliveries.                                                             *)

\* dispatch reads everything due at once.
Poll ==
    /\ ~stopped /\ found = {}
    /\ \E k \in Key : Due(k)
    /\ found' = {[key |-> k, position |-> cursor[k].position] : k \in {c \in Key : Due(c)}}
    /\ UNCHANGED <<admin, feed, cursor, clock, queues, others, stopped,
                   spent, history>>

\* dispatch starts one of those found, unless its key is claimed.
Start(d) ==
    /\ d \in found /\ found' = found \ {d}
    /\ IF task[d.key] = Idle
       THEN /\ task' = [task EXCEPT ![d.key] = [at |-> "turn", position |-> d.position]]
            /\ turns' = [turns EXCEPT ![d.key.library] = Append(@, d.key)]
       ELSE UNCHANGED <<task, turns>>
    /\ UNCHANGED <<admin, feed, cursor, clock, slots, others, stopped,
                   spent, history>>

TakeTurn(k) ==
    /\ task[k].at = "turn" /\ HasTurn(k)
    /\ task' = [task EXCEPT ![k].at = "slot"]
    /\ slots' = Append(slots, k)
    /\ UNCHANGED <<admin, feed, cursor, clock, found, turns, others, stopped,
                   spent, history>>

\* Slip: due, from whatever position.
SlipStillDue(k) == Due(k)

StillDue(k) == Due(k) /\ cursor[k].position = task[k].position

\* With its turn and a slot, reads what it delivers and starts the run; one
\* no longer due ends.
Read(k) ==
    /\ task[k].at = "slot" /\ HasSlot(k)
    /\ IF ~stopped /\ StillDue(k)
       THEN /\ LET batch == NextBatch(k, task[k].position) IN
               task' = [task EXCEPT ![k] = [at |-> "run", batch |-> batch,
                                            next |-> After(k, batch), former |-> FALSE]]
            /\ UNCHANGED <<turns, slots>>
       ELSE End(k)
    /\ UNCHANGED <<admin, feed, cursor, clock, found, others, stopped,
                   spent, history>>

\* The store cannot read it: it is due again at the next poll.
ReadFails(k) ==
    /\ task[k].at = "slot" /\ HasSlot(k) /\ Chance /\ End(k)
    /\ UNCHANGED <<admin, feed, cursor, clock, found, others, stopped, history>>

\* The run succeeds, or nothing of the batch is left to hand over.
\* former tells a run of an installation that is gone, as an uninstall lets it be.
Handle(k) ==
    /\ task[k].at = "run" /\ installed
    /\ cursor' = [cursor EXCEPT ![k] =
           [position |-> task[k].next, failing |-> -1, retry |-> 0]]
    /\ End(k)
    /\ done' = [done EXCEPT ![k] = IF task[k].former THEN @ ELSE @ \cup task[k].batch]
    /\ rest' = [rest EXCEPT ![k] = 0]
    /\ over' = IF task[k].former THEN over \cup {k} ELSE over
    /\ UNCHANGED <<admin, feed, clock, found, others, stopped, spent>>

FailingFor(since) == IF since = -1 THEN 0 ELSE since

BackoffAfter(since) ==
    CASE FailingFor(since) < Backoff    -> Backoff
      [] FailingFor(since) > MaxBackoff -> MaxBackoff
      [] OTHER                          -> FailingFor(since)

\* The run fails: it is retried after a wait, and a library hook that has
\* been failing for too long disables the plugin in the library.
Fail(k) ==
    LET since == FailingFor(cursor[k].failing) IN
    /\ task[k].at = "run" /\ installed /\ Chance
    /\ cursor' = [cursor EXCEPT ![k].failing = since, ![k].retry = BackoffAfter(since)]
    /\ enabled' = IF since >= MaxFailing /\ k.user = None
                  THEN enabled \ {k.library} ELSE enabled
    /\ End(k) /\ rest' = [rest EXCEPT ![k] = Backoff]
    /\ UNCHANGED <<libraries, installed, granted, connected, feed, clock, found,
                   others, stopped, done, over>>

\* The server cannot run it: it is retried after a wait, and fails no longer.
Unrun(k) ==
    /\ task[k].at = "run" /\ installed /\ Chance
    /\ cursor' = [cursor EXCEPT ![k].retry = BackoffAfter(cursor[k].failing)]
    /\ End(k) /\ rest' = [rest EXCEPT ![k] = Backoff]
    /\ UNCHANGED <<admin, feed, clock, found, others, stopped, done, over>>

\* Slip: the claim is let go with the turn and the slot.
SlipUnrecorded(k) ==
    /\ task[k].at = "run"
    /\ \/ ~installed /\ UNCHANGED spent
       \/ installed /\ Chance
    /\ End(k) /\ rest' = [rest EXCEPT ![k] = Backoff]
    /\ UNCHANGED <<admin, feed, cursor, clock, found, others, stopped,
                   done, over>>

\* How it went cannot be written, such as once the plugin's row is gone: the
\* turn and the slot are let go, the claim is kept for a while.
Unrecorded(k) ==
    /\ task[k].at = "run"
    /\ \/ ~installed /\ UNCHANGED spent
       \/ installed /\ Chance
    /\ task' = [task EXCEPT ![k] = [at |-> "pause", left |-> Backoff]]
    /\ LetGo(k) /\ rest' = [rest EXCEPT ![k] = Backoff]
    /\ UNCHANGED <<admin, feed, cursor, clock, found, others, stopped,
                   done, over>>

Resume(k) ==
    /\ task[k].at = "pause" /\ task[k].left = 0
    /\ task' = [task EXCEPT ![k] = Idle]
    /\ UNCHANGED <<admin, feed, cursor, clock, found, turns, slots, others,
                   stopped, spent, history>>

-----------------------------------------------------------------------------
(* Run now and uninstalling.                                               *)

\* Waits for the plugin's turn in the first of the libraries ls, after the
\* turn queues q.
Await(who, ls, q) ==
    IF ls = {} THEN q ELSE [q EXCEPT ![Least(ls)] = Append(@, who[Least(ls)])]

\* Runs it in each library it is enabled in.
StartRun ==
    /\ Chance /\ manual = NoRun /\ installed /\ enabled # {}
    /\ manual' = [left |-> enabled, runs |-> FALSE]
    /\ turns' = Await(RunNow, enabled, turns)
    /\ UNCHANGED <<admin, feed, cursor, clock, found, task, slots, uninstall,
                   levels, stopped, history>>

\* Its turn in a library is over: it goes on to the libraries ls.
NextRun(l, ls) ==
    /\ manual' = [left |-> ls, runs |-> FALSE]
    /\ turns' = Await(RunNow, ls, [turns EXCEPT ![l] = Tail(@)])

\* In its turn it runs where it is still enabled, and passes on elsewhere.
BeginRun ==
    /\ manual.left # {} /\ ~manual.runs
    /\ LET l == Least(manual.left) IN
       /\ HasTurn(RunNow[l])
       /\ IF l \in enabled THEN manual' = [manual EXCEPT !.runs = TRUE] /\ UNCHANGED turns
          ELSE NextRun(l, manual.left \ {l})
    /\ UNCHANGED <<admin, feed, cursor, clock, found, task, slots, uninstall,
                   levels, stopped, spent, history>>

\* An error on the server's side ends it everywhere.
EndRun ==
    /\ manual.runs
    /\ LET l == Least(manual.left) IN
       \/ NextRun(l, manual.left \ {l}) /\ UNCHANGED spent
       \/ Chance /\ NextRun(l, {})
    /\ UNCHANGED <<admin, feed, cursor, clock, found, task, slots, uninstall,
                   levels, stopped, history>>

\* Reads the libraries there are, and takes the turns there in order.
StartUninstall ==
    /\ Chance /\ uninstall = {} /\ uninstall' = libraries /\ levels' = libraries
    /\ turns' = Await(Uninstall, libraries, turns)
    /\ UNCHANGED <<admin, feed, cursor, clock, found, task, slots, manual,
                   stopped, history>>

NextTurn ==
    /\ uninstall # {} /\ HasTurn(Uninstall[Least(uninstall)])
    /\ LET left == uninstall \ {Least(uninstall)} IN
       /\ left # {} /\ uninstall' = left
       /\ turns' = Await(Uninstall, left, turns)
    /\ UNCHANGED <<admin, feed, cursor, clock, found, task, slots, manual,
                   levels, stopped, spent, history>>

\* With every turn it takes, its row goes, and its positions, connections and
\* libraries with it; its grants stay.  A run in a library added since the
\* libraries were read goes on, as one of a former installation.  The write
\* may fail.
DeleteRow ==
    /\ uninstall # {} /\ uninstall' = {} /\ levels' = {}
    /\ LET l == Least(uninstall) IN uninstall = {l} /\ HasTurn(Uninstall[l])
    /\ turns' = [l \in Library |-> IF l \in levels THEN Tail(turns[l]) ELSE turns[l]]
    /\ \/ /\ installed' = FALSE /\ enabled' = {}
          /\ connected' = [u \in User |-> 0]
          /\ cursor' = [k \in Key |-> Fresh]
          /\ task' = [k \in Key |-> IF task[k].at = "run" /\ k.library \notin levels
                                    THEN [task[k] EXCEPT !.former = TRUE] ELSE task[k]]
          /\ done' = [k \in Key |-> {}]
          /\ rest' = [k \in Key |-> 0] /\ over' = {}
          /\ UNCHANGED spent
       \/ /\ installed /\ Chance
          /\ UNCHANGED <<installed, enabled, connected, cursor, task, history>>
    /\ UNCHANGED <<libraries, granted, feed, clock, found, slots, manual,
                   stopped>>

-----------------------------------------------------------------------------
(* What admins and users do.                                               *)

unworked == <<feed, clock, found, queues, others, stopped>>

\* An admin adds a library, as often as one of them is left.
NewLibrary ==
    /\ \E l \in Library \ libraries : libraries' = libraries \cup {l}
    /\ UNCHANGED <<installed, enabled, granted, connected, cursor, history,
                   spent, unworked>>

\* As often as it has been uninstalled.
Install ==
    /\ ~installed /\ installed' = TRUE
    /\ UNCHANGED <<libraries, enabled, granted, connected, cursor, history, spent, unworked>>

\* Enabling gives the hooks there a fresh start.
Enable(l) ==
    /\ Chance /\ installed /\ l \in libraries /\ Required \subseteq granted
    /\ enabled' = enabled \cup {l}
    /\ cursor' = [k \in Key |->
           IF k.library = l THEN [cursor[k] EXCEPT !.failing = -1, !.retry = 0]
           ELSE cursor[k]]
    /\ rest' = [k \in Key |-> IF k.library = l /\ task[k].at # "pause" THEN 0 ELSE rest[k]]
    /\ UNCHANGED <<libraries, installed, granted, connected, done, over, unworked>>

Disable(l) ==
    /\ Chance /\ installed /\ l \in enabled /\ enabled' = enabled \ {l}
    /\ UNCHANGED <<libraries, installed, granted, connected, cursor, history, unworked>>

\* Losing a required permission disables it.
SetGrants(hooks) ==
    /\ Chance /\ installed /\ hooks # granted /\ granted' = hooks
    /\ enabled' = IF Required \subseteq hooks THEN enabled ELSE {}
    /\ UNCHANGED <<libraries, installed, connected, cursor, history, unworked>>

Connect(u) ==
    /\ Chance /\ installed /\ connected[u] = 0
    /\ connected' = [connected EXCEPT ![u] = clock]
    /\ UNCHANGED <<libraries, installed, enabled, granted, cursor, history, unworked>>

Disconnect(u) ==
    /\ Chance /\ connected[u] # 0
    /\ connected' = [connected EXCEPT ![u] = 0]
    /\ UNCHANGED <<libraries, installed, enabled, granted, cursor, history, unworked>>

-----------------------------------------------------------------------------
(* What happens around them.                                               *)

\* A track changes, a scan finishes, or a user ends a play.
Happen(k) ==
    /\ Chance /\ k.library \in libraries
    /\ feed' = [feed EXCEPT ![k] = Append(@, clock)]
    /\ UNCHANGED <<admin, cursor, clock, found, queues, others, stopped,
                   history>>

Older(age, most) == IF age < most THEN age + 1 ELSE age
Nearer(ticks) == IF ticks > 0 THEN ticks - 1 ELSE 0

\* Something is at the millisecond now that a later one is told from.
Stamped == \/ \E k \in Key : feed[k] # <<>> /\ Last(feed[k]) = clock
           \/ \E u \in User : connected[u] = clock

Tick ==
    /\ clock' = IF Stamped THEN clock + 1 ELSE clock
    /\ cursor' = [k \in Key |->
           [position |-> cursor[k].position,
            failing |-> IF cursor[k].failing = -1 THEN -1
                        ELSE Older(cursor[k].failing, MaxFailing),
            retry |-> Nearer(cursor[k].retry)]]
    /\ task' = [k \in Key |-> IF task[k].at = "pause"
                              THEN [task[k] EXCEPT !.left = Nearer(@)] ELSE task[k]]
    /\ rest' = [k \in Key |-> Nearer(rest[k])]
    /\ UNCHANGED <<admin, feed, found, turns, slots, others, stopped,
                   spent, done, over>>

\* The server stops: what still waits runs nothing.
Stop ==
    /\ Chance /\ ~stopped /\ stopped' = TRUE
    /\ UNCHANGED <<admin, feed, cursor, clock, found, queues, others, history>>

\* It ends, by a crash too, and starts again: the database is what is left.
Restart ==
    /\ Chance
    /\ found' = {} /\ task' = [k \in Key |-> Idle]
    /\ turns' = [l \in Library |-> <<>>] /\ slots' = <<>>
    /\ manual' = NoRun /\ uninstall' = {} /\ levels' = {} /\ stopped' = FALSE
    /\ rest' = [k \in Key |-> cursor[k].retry]
    /\ UNCHANGED <<admin, feed, cursor, clock, done, over>>

-----------------------------------------------------------------------------
Deliver(k) == TakeTurn(k) \/ Read(k) \/ ReadFails(k) \/ Handle(k) \/ Fail(k)
              \/ Unrun(k) \/ Unrecorded(k) \/ Resume(k)

Next ==
    \/ Poll \/ \E d \in found : Start(d)
    \/ \E k \in Key : Deliver(k) \/ Happen(k)
    \/ StartRun \/ BeginRun \/ EndRun
    \/ StartUninstall \/ NextTurn \/ DeleteRow \/ NewLibrary \/ Install
    \/ \E l \in Library : Enable(l) \/ Disable(l)
    \/ \E hooks \in Grants : SetGrants(hooks)
    \/ \E u \in User : Connect(u) \/ Disconnect(u)
    \/ Tick \/ Stop \/ Restart

Spec == Init /\ [][Next]_vars

(***************************************************************************)
(* The hook loop polls on, its deliveries, Run now and an uninstall each   *)
(* go on when they can, a run ends, and time passes.                       *)
(***************************************************************************)
Fairness ==
    /\ WF_vars(Poll) /\ WF_vars(\E d \in found : Start(d))
    /\ \A k \in Key : WF_vars(Deliver(k))
    /\ WF_vars(BeginRun) /\ WF_vars(EndRun)
    /\ WF_vars(NextTurn) /\ WF_vars(DeleteRow)
    /\ WF_vars(Tick)

FairSpec == Spec /\ Fairness

-----------------------------------------------------------------------------
(* A position covers exactly what the plugin, as installed now, has        *)
(* handled: nothing past a failure, a crash, a late record or a finished   *)
(* scan of the same millisecond is skipped, and nothing recorded as        *)
(* handled is delivered again (hooks.rs: "nothing is lost to a crash, a    *)
(* restart"; install.rs: a reinstall "starts every position over").  Plays *)
(* from before the user connected are not the plugin's.  Left out is a key *)
(* that a run of a former installation has recorded over, in a library     *)
(* added as the uninstall waited; in any other, none may.                  *)
PositionTellsTheHandled ==
    \A k \in Key \ over :
        LET covered == {i \in DOMAIN feed[k] : Place(k, i) <= cursor[k].position}
        IN  /\ done[k] \subseteq covered
            /\ \/ k.user = None /\ covered \subseteq done[k]
               \/ k.user # None /\ (\/ connected[k.user] = 0
                                    \/ covered \cap Visible(k) \subseteq done[k])

(* A delivery that failed, could not run, or could not be recorded is not  *)
(* run again before its wait is over, whatever is polled, claimed, or      *)
(* found due meanwhile; enabling the plugin anew or a restart ends a wait  *)
(* (hooks.rs: it "waits BACKOFF_MS still holding its claim").              *)
RetriesWait ==
    [][\A k \in Key : task[k].at = "slot" /\ task'[k].at = "run" => rest[k] = 0]_vars

\* Something to deliver, now or once a wait is over.
Wanted(k) ==
    /\ installed /\ k.library \in enabled /\ k.hook \in granted /\ ~stopped
    /\ k.user # None => connected[k.user] # 0
    /\ Past(k, cursor[k].position) # {}

(* What is due is delivered, until nothing is left that the plugin may     *)
(* have: past every failure, wait for a turn or a slot, Run now, uninstall *)
(* and restart, no one waits for ever on who waits for them.               *)
DueIsDelivered == \A k \in Key : []<>~Wanted(k)

=============================================================================
