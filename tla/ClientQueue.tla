---------------------------- MODULE ClientQueue ----------------------------
(***************************************************************************)
(* A device's copy of the account's queue (web/src/lib/queue/store.ts) and *)
(* the server it keeps up with (crates/server/src/api/queue.rs, api/queue/ *)
(* start.rs, edits.rs and kept.rs, queue/edit.rs, queue/snapshot.rs): the  *)
(* queue as the server confirmed it, the device's own edits on top, one    *)
(* request at a time, and the messages of the realtime connection.         *)
(*                                                                         *)
(* Requests and answers are lost or late, the connection drops, the server *)
(* restarts with what it last saved, and other devices edit, start and     *)
(* restore queues.  A queue is the edits applied to it, in order, and its  *)
(* version is how many they are; Bars says which edits make the core       *)
(* refuse another after them.  The lists and pages of rows are left out:   *)
(* they show tracks and decide nothing here.                               *)
(*                                                                         *)
(* The device's methods are operators on its state, the record device, as  *)
(* they run to their next await without a break.                           *)
(***************************************************************************)
EXTENDS Naturals, FiniteSets, SequencesExt

CONSTANTS
    None,           \* no queue, or no edit
    First, Older,   \* the queues the account may have at first, one kept
    Past,           \* the edit that adjusted the one kept
    Own, Others,    \* the queues this device and the others start
    OwnEdit,        \* the editIds of this device's edits, and of the others'
    OtherEdit,
    Repeats,        \* the edits that turn Repeat All on
    Unshown,        \* the device's adds that only the server can resolve
    Bars,           \* <<e, f>>: the core refuses f once e is applied
    Recipes,        \* the device's queues started from a recipe
    Remembered,     \* REMEMBERED: how many edits the server answers again
    MaxChances      \* bound on what users do and what fails, all together

Queue == {First, Older} \cup Own \cup Others
Edit == OwnEdit \cup OtherEdit \cup {Past}

\* The ids are drawn at random, and the account's queues are there first.
ASSUME IdsAssumption ==
    /\ First # Older /\ Own \cap Others = {} /\ {First, Older} \cap (Own \cup Others) = {}
    /\ OwnEdit \cap OtherEdit = {} /\ Past \notin OwnEdit \cup OtherEdit
    /\ Queue \cap Edit = {} /\ None \notin Queue \cup Edit

VARIABLES
    device,     \* what the store holds
    server,     \* the account on the server, and what it saved
    http,       \* the device's request: on its way, at the server, or back
    late,       \* requests the device gave up that may still arrive
    connected,  \* the realtime connection is up
    inbox,      \* its messages on their way
    spent,      \* how many of the chances have been taken
    made,       \* history: the edits and starts users have made
    missed,     \* history: a start or restore was never announced, or this device's restore of
                \* the queue it shows was answered with another
    forgotten   \* history: what the server has lost: edits in its crashes and with the
                \* queues its saves have let go of, and those queues

clientVars == <<device, server, http, late, connected, inbox, spent, made, missed, forgotten>>

Chance == spent < MaxChances /\ spent' = spent + 1

-----------------------------------------------------------------------------
(* What is sent.                                                           *)

(***************************************************************************)
(* A queue's content: whether it took over Repeat All as it started, its   *)
(* rows as the device's view or as the server's recipe gave them, and the  *)
(* edits since.                                                            *)
(***************************************************************************)
Fresh(repeat, rows) == [repeat |-> repeat, rows |-> rows, edits |-> <<>>]
Version(content) == Len(content.edits)
Repeating(content) == content.repeat \/ ToSet(content.edits) \cap Repeats # {}

\* The core takes edit e after those of the sequence es.
Accepts(es, e) == \A i \in DOMAIN es : <<es[i], e>> \notin Bars

Edited(q, version, e) == [type |-> "queueEdit", queue |-> q, version |-> version, edit |-> e]
Replaced(q) == [type |-> "queueReplaced", queue |-> q, version |-> 0, edit |-> None]
Hello == [type |-> "hello", queue |-> None, version |-> 0, edit |-> None]

\* An ETag names the server's start, the queue and its version.
NoTag == [run |-> 0, queue |-> None, version |-> 0]
NoAnswer == [status |-> "none", version |-> 0, run |-> 0, queue |-> None,
             content |-> Fresh(FALSE, "viewed")]
Answered(status) == [NoAnswer EXCEPT !.status = status]
\* stale: a start made meanwhile has counted the epoch up.
NothingSent == [kind |-> "none", queue |-> None, edit |-> None, known |-> NoTag,
              at |-> "idle", stale |-> FALSE, answer |-> NoAnswer]
Request(kind, q, e, known) == [NothingSent EXCEPT !.kind = kind, !.queue = q, !.edit = e,
                               !.known = known, !.at = "sent"]

-----------------------------------------------------------------------------
(* The store.                                                              *)

\* The pending edits are at the places they have among those made here.
Edits(pending) == {pending[i].edit : i \in DOMAIN pending}
Sent(p) == p.version > 0
Unanswered(d) == {i \in DOMAIN d.pending : ~Sent(d.pending[i])}

\* The pending edits at the places gone go, and the user is told of them.
GiveUp(d, gone) ==
    [d EXCEPT !.pending = Restrict(@, DOMAIN @ \ gone),
              !.reported = @ \cup {d.pending[i].edit : i \in gone}]

(***************************************************************************)
(* #rebuild: each pending edit on top of the confirmed and of the earlier  *)
(* ones the view shows, less those it refuses.                             *)
(***************************************************************************)
StillApplies(d, places, e) ==
    \/ e \in Unshown
    \/ /\ Accepts(d.content.edits, e)
       /\ \A e1 \in {d.pending[i].edit : i \in places} \ Unshown : <<e1, e>> \notin Bars
Replayable(d) ==
    LET kept[i \in DOMAIN d.pending] ==
            StillApplies(d, {j \in DOMAIN d.pending : j < i /\ kept[j]}, d.pending[i].edit)
    IN {i \in DOMAIN d.pending : kept[i]}
Rebuild(d) == GiveUp(d, DOMAIN d.pending \ Replayable(d))

\* #confirm: the next edit, which is then no longer pending if it was ours.
Confirm(d, m) ==
    IF Accepts(d.content.edits, m.edit)
    THEN Rebuild([d EXCEPT !.content.edits = Append(@, m.edit),
                           !.pending = Restrict(@, {i \in DOMAIN @ : @[i].edit # m.edit})])
    ELSE [d EXCEPT !.refetch = TRUE]

\* #heard, with no fetch under way.
Heard(d, m) ==
    IF m.queue = d.queue /\ m.version = Version(d.content) + 1 THEN Confirm(d, m)
    ELSE IF m.queue = d.queue /\ m.version <= Version(d.content) THEN d
    ELSE [d EXCEPT !.refetch = TRUE]
HeardAll(d, messages) ==
    LET heard[n \in 0 .. Len(messages)] ==
            IF n = 0 THEN d ELSE Heard(heard[n - 1], messages[n])
    IN heard[Len(messages)]

(***************************************************************************)
(* #caughtUp.  An answered edit the confirmed queue is not behind is not   *)
(* pending any more; of the others, unless there is more to fetch, what    *)
(* was answered was lost.                                                  *)
(***************************************************************************)
\* Slip: answered edits stay pending until their message is heard.
SlipCaughtUp(d, messages) ==
    Rebuild(HeardAll(d, messages))
CaughtUp(d, messages) ==
    LET behind == {i \in DOMAIN d.pending : d.pending[i].version > Version(d.content)}
        heard == HeardAll([d EXCEPT !.pending = Restrict(@, Unanswered(d) \cup behind)], messages)
    IN Rebuild(IF heard.refetch THEN heard
               ELSE GiveUp(heard, DOMAIN heard.pending \ Unanswered(heard)))

\* #install, once the stored lists are read.
Install(d, answer) ==
    GiveUp([d EXCEPT !.queue = answer.queue, !.content = answer.content],
           {i \in DOMAIN d.pending : d.pending[i].queue # answer.queue})

\* #clear: the account has no queue.
\* Slip: what was pending goes unsaid.
SlipClear(d) ==
    [d EXCEPT !.queue = None, !.content = Fresh(FALSE, "viewed"), !.pending = Restrict(@, {})]
Clear(d) == GiveUp([d EXCEPT !.queue = None, !.content = Fresh(FALSE, "viewed")], DOMAIN d.pending)

\* edit: with a fresh editId, on the queue shown.
Made(d, e) ==
    LET place == d.count + 1
    IN [d EXCEPT !.count = place, !.pending = [i \in DOMAIN @ \cup {place} |->
           IF i = place THEN [edit |-> e, queue |-> d.queue, version |-> 0] ELSE @[i]]]

(***************************************************************************)
(* #next: the start, the first edit not answered, the restore, a fetch;    *)
(* #drain sends it if none is under way, and a fetch begins to hold what   *)
(* is heard.                                                               *)
(***************************************************************************)
Earliest(d) == d.pending[Min(Unanswered(d))]
Known(d) == IF d.run = 0 \/ d.queue = None THEN NoTag
            ELSE [run |-> d.run, queue |-> d.queue, version |-> Version(d.content)]
Work(d) ==
    IF d.starting # None THEN Request("start", d.starting, None, NoTag)
    ELSE IF Unanswered(d) # {} THEN Request("edit", Earliest(d).queue, Earliest(d).edit, NoTag)
    ELSE IF d.restoring # None THEN Request("restore", d.restoring, None, NoTag)
    ELSE IF d.refetch THEN Request("fetch", None, None, Known(d))
    ELSE NothingSent
Drain(d) ==
    /\ http' = Work(d)
    /\ device' = IF Work(d).kind = "fetch" THEN [d EXCEPT !.refetch = FALSE] ELSE d
Handled(d) ==
    IF http = NothingSent THEN Drain(d) ELSE device' = d /\ UNCHANGED http

-----------------------------------------------------------------------------
(* What the user does.                                                     *)

UserEdit(e) ==
    /\ Chance /\ e \notin made /\ device.queue # None
    /\ StillApplies(device, Replayable(device), e)
    /\ made' = made \cup {e}
    /\ Handled(Made(device, e))
    /\ UNCHANGED <<server, late, connected, inbox, missed, forgotten>>

(***************************************************************************)
(* start: the new queue at once, with the confirmed queue's repeat mode;   *)
(* what was pending goes, but for the latest repeat change, made again.    *)
(***************************************************************************)
Overtaken == [http EXCEPT !.stale = TRUE]
UserStart(q) ==
    LET tapped == Edits(device.pending) \cap Repeats # {}
        dropped == {i \in DOMAIN device.pending : device.pending[i].edit \notin Repeats}
        started == [GiveUp(device, dropped) EXCEPT !.pending = Restrict(@, {}),
                    !.queue = q, !.content = Fresh(Repeating(device.content), "viewed"),
                    !.run = 0, !.refetch = FALSE, !.starting = q]
        Begun(d) == IF http = NothingSent THEN Drain(d) ELSE device' = d /\ http' = Overtaken
    IN /\ Chance /\ q \notin made
       /\ IF tapped THEN \E e \in (OwnEdit \cap Repeats) \ made :
                            made' = made \cup {q, e} /\ Begun(Made(started, e))
                    ELSE made' = made \cup {q} /\ Begun(started)
       /\ UNCHANGED <<server, late, connected, inbox, missed, forgotten>>

\* restore, of a queue the page lists: busy while another is under way.
UserRestore(q) ==
    /\ Chance /\ device.restoring = None /\ q \in DOMAIN server.queues
    /\ Handled([device EXCEPT !.restoring = q])
    /\ UNCHANGED <<server, late, connected, inbox, made, missed, forgotten>>

-----------------------------------------------------------------------------
(* The server: run is its start, queues what it holds of each queue, done  *)
(* the latest edits and the versions they made, saved what survives it,    *)
(* and telling the queues other handlers have made active and not yet      *)
(* announced.                                                              *)

ToDevice(m) == inbox' = IF connected THEN Append(inbox, m) ELSE inbox
Adjusted(content) == ~(ToSet(content.edits) \subseteq Repeats)

\* Queues::apply, once the queue is the active one and the edit is new.
Apply(e) ==
    LET q == server.active
        es == Append(server.queues[q].edits, e)
        done == Append(server.done, [edit |-> e, version |-> Len(es)])
    IN /\ server' = [server EXCEPT !.queues[q].edits = es,
             !.done = IF Len(done) > Remembered THEN Tail(done) ELSE done]
       /\ ToDevice(Edited(q, Len(es), e))

(***************************************************************************)
(* editQueue.  The answer: the version, missing without a queue, changed   *)
(* if another is active, and refused if the core refuses.                  *)
(***************************************************************************)
Done(e) == {i \in DOMAIN server.done : server.done[i].edit = e}
EditAnswer(q, e) ==
    IF server.active = None THEN Answered("missing")
    ELSE IF server.active # q THEN Answered("changed")
    ELSE IF Done(e) # {}
         THEN [Answered("again") EXCEPT
                 !.version = server.done[CHOOSE i \in Done(e) : TRUE].version]
    ELSE IF ~Accepts(server.queues[q].edits, e) THEN Answered("refused")
    ELSE [Answered("applied") EXCEPT !.version = Version(server.queues[q]) + 1]

\* start_in: the active queue's repeat mode is the new queue's.
Start(q, telling) ==
    \E rows \in {"viewed"} \cup IF q \in Recipes THEN {"resolved"} ELSE {} :
        LET repeat == server.active # None /\ Repeating(server.queues[server.active])
        IN server' = [server EXCEPT !.active = q, !.telling = telling, !.queues =
                      [p \in DOMAIN @ \cup {q} |-> IF p = q THEN Fresh(repeat, rows) ELSE @[p]]]

\* restore_in, which saves the account as it is then.
CanRestore(q) == q \in DOMAIN server.queues /\ q # server.active /\ Adjusted(server.queues[q])
Restore(q, telling) ==
    server' = [server EXCEPT !.active = q, !.telling = telling,
                             !.saved = [active |-> q, queues |-> server.queues]]

\* GET /me/queue, or the body of a restore's answer.
Snapshot == [status |-> "ok", version |-> 0, run |-> server.run, queue |-> server.active,
             content |-> server.queues[server.active]]
FetchAnswer(known) ==
    IF server.active = None THEN Answered("missing")
    ELSE IF known = [run |-> server.run, queue |-> server.active,
                     version |-> Version(server.queues[server.active])]
         THEN [Answered("same") EXCEPT !.run = server.run]
    ELSE Snapshot

-----------------------------------------------------------------------------
(* The device's request at the server.                                     *)

AtServer(kind) == http.kind = kind /\ http.at = "sent"
Answer(answer) == http' = [http EXCEPT !.at = "answered", !.answer = answer]
Elsewhere == UNCHANGED <<device, late, connected, made, forgotten>>

ServeEdit ==
    LET answer == EditAnswer(http.queue, http.edit)
    IN /\ AtServer("edit") /\ Answer(answer)
       /\ IF answer.status = "applied" THEN Apply(http.edit) ELSE UNCHANGED <<server, inbox>>
       /\ UNCHANGED <<spent, missed>> /\ Elsewhere

\* A queue the account has is answered as the first start was.
ServeStart ==
    /\ AtServer("start")
    /\ IF http.queue \in DOMAIN server.queues
       THEN Answer(Answered("ok")) /\ UNCHANGED server
       ELSE http' = [http EXCEPT !.at = "applied"] /\ Start(http.queue, server.telling)
    /\ UNCHANGED <<inbox, spent, missed>> /\ Elsewhere
\* Its tracks are out of reach by now.
RefuseStart ==
    /\ Chance /\ AtServer("start") /\ Answer(Answered("refused"))
    /\ UNCHANGED <<server, inbox, missed>> /\ Elsewhere

ServeRestore ==
    /\ AtServer("restore")
    /\ IF CanRestore(http.queue)
       THEN http' = [http EXCEPT !.at = "applied"] /\ Restore(http.queue, server.telling)
       ELSE Answer(Answered("refused")) /\ UNCHANGED server
    /\ UNCHANGED <<inbox, spent, missed>> /\ Elsewhere

\* The handler of a start or restore goes on after its write: it tells, then answers.
Told ==
    /\ http.at = "applied" /\ ToDevice(Replaced(http.queue))
    /\ Answer(IF http.kind = "restore" THEN Snapshot ELSE Answered("ok"))
    /\ missed' = \/ missed
                 \/ http.kind = "restore" /\ http.queue = device.queue /\ http.queue # server.active
    /\ UNCHANGED <<server, spent>> /\ Elsewhere

ServeFetch ==
    /\ AtServer("fetch") /\ Answer(FetchAnswer(http.known))
    /\ UNCHANGED <<server, inbox, spent, missed>> /\ Elsewhere

(***************************************************************************)
(* The request fails: before the server has it, which may still get it, or *)
(* after, when the server may drop the handler where it waits, with the    *)
(* start or restore written and not announced.                             *)
(***************************************************************************)
Lose ==
    /\ Chance /\ http.at \in {"sent", "applied", "answered"}
    /\ Answer(Answered("lost"))
    /\ \/ http.at # "applied" /\ UNCHANGED <<server, late, missed, forgotten>>
       \/ http.at = "sent" /\ http.kind # "fetch"
          /\ late' = late \cup {[kind |-> http.kind, queue |-> http.queue, edit |-> http.edit]}
          /\ UNCHANGED <<server, missed, forgotten>>
       \/ http.at = "applied" /\ server' = [server EXCEPT !.telling = @ \cup {http.queue}]
          /\ UNCHANGED <<late, missed, forgotten>>
       \/ http.at = "applied" /\ missed' = TRUE /\ UNCHANGED <<server, late>>
    /\ UNCHANGED <<device, connected, inbox, made, forgotten>>

Untold(q) == server.telling \cup {q}

\* A request the device gave up arrives: nobody hears the answer.
Arrive(r) ==
    /\ r \in late /\ late' = late \ {r}
    /\ IF r.kind = "edit" /\ EditAnswer(r.queue, r.edit).status = "applied" THEN Apply(r.edit)
       ELSE /\ UNCHANGED inbox
            /\ IF r.kind = "start" /\ r.queue \notin DOMAIN server.queues
               THEN Start(r.queue, Untold(r.queue))
               ELSE IF r.kind = "restore" /\ CanRestore(r.queue)
               THEN Restore(r.queue, Untold(r.queue))
               ELSE UNCHANGED server
    /\ UNCHANGED <<device, http, connected, spent, made, missed, forgotten>>

-----------------------------------------------------------------------------
(* Other devices, the server itself, and the realtime connection.          *)

Aside == UNCHANGED <<device, http, late, connected, forgotten>>

OtherEdits(e) ==
    /\ Chance /\ e \notin made /\ made' = made \cup {e}
    /\ server.active # None /\ Accepts(server.queues[server.active].edits, e)
    /\ Apply(e)
    /\ UNCHANGED missed /\ Aside

OtherStarts(q) ==
    /\ Chance /\ q \notin made /\ made' = made \cup {q}
    /\ Start(q, Untold(q))
    /\ UNCHANGED <<inbox, missed>> /\ Aside

OtherRestores(q) ==
    /\ Chance /\ CanRestore(q) /\ Restore(q, Untold(q))
    /\ UNCHANGED <<inbox, made, missed>> /\ Aside

Announce(q) ==
    /\ q \in server.telling /\ ToDevice(Replaced(q))
    /\ server' = [server EXCEPT !.telling = @ \ {q}]
    /\ UNCHANGED <<spent, made, missed>> /\ Aside

\* The other device hangs up, and its handler is dropped before it announces.
HangUp(q) ==
    /\ Chance /\ q \in server.telling /\ missed' = TRUE
    /\ server' = [server EXCEPT !.telling = @ \ {q}]
    /\ UNCHANGED <<inbox, made>> /\ Aside

EditsOf(q) == ToSet(server.queues[q].edits)
\* The background save; a queue replaced and never adjusted is not kept.
Save ==
    LET kept == {q \in DOMAIN server.queues : q = server.active \/ Adjusted(server.queues[q])}
        gone == DOMAIN server.queues \ kept
        queues == [q \in kept |-> server.queues[q]]
    IN /\ server.saved # [active |-> server.active, queues |-> queues]
       /\ server' = [server EXCEPT !.queues = queues,
                     !.saved = [active |-> server.active, queues |-> queues]]
       /\ forgotten' = [edits |-> forgotten.edits \cup UNION {EditsOf(q) : q \in gone},
                        queues |-> forgotten.queues \cup gone]
       /\ UNCHANGED <<device, http, late, connected, inbox, spent, made, missed>>

\* What of its messages has not been heard by now is lost with it.
Disconnect ==
    /\ Chance /\ connected /\ connected' = FALSE
    /\ inbox' = <<>>
    /\ UNCHANGED <<device, server, http, late, made, missed, forgotten>>

Reconnect ==
    /\ ~connected /\ connected' = TRUE /\ inbox' = Append(inbox, Hello)
    /\ UNCHANGED <<device, server, http, late, spent, made, missed, forgotten>>

Unsaved(q) ==
    LET kept == server.saved.queues
        n == IF q \in DOMAIN kept THEN Version(kept[q]) ELSE 0
    IN {server.queues[q].edits[i] : i \in n + 1 .. Version(server.queues[q])}
\* A crash: the server starts again with what is saved, and no request or connection.
Restart ==
    /\ Chance
    /\ server' = [server EXCEPT !.run = @ + 1, !.done = <<>>, !.telling = {},
                  !.active = server.saved.active, !.queues = server.saved.queues]
    /\ connected' = FALSE /\ late' = {}
    /\ inbox' = <<>>
    /\ http' = IF http.at \in {"sent", "applied"}
               THEN [http EXCEPT !.at = "answered", !.answer = Answered("lost")] ELSE http
    /\ forgotten' = [forgotten EXCEPT !.edits = @ \cup UNION {Unsaved(q) : q \in DOMAIN server.queues}]
    /\ UNCHANGED <<device, made, missed>>

-----------------------------------------------------------------------------
(* What the device hears: message, and the answers to its requests.        *)

Holding == http.kind = "fetch"
\* A fetch under way may answer with the queue this replaces.
\* Slip: the fetch under way is taken to answer with the new queue.
SlipOutdated(q) == q # device.queue
Outdated(q) == Holding \/ q # device.queue

Hear ==
    LET m == Head(inbox)
    IN /\ inbox # <<>> /\ inbox' = Tail(inbox)
       /\ \/ m.type = "hello" /\ Handled([device EXCEPT !.refetch = TRUE])
          \/ /\ m.type = "queueReplaced"
             /\ IF Outdated(m.queue)
                THEN Handled([device EXCEPT !.refetch = TRUE]) ELSE UNCHANGED <<device, http>>
          \/ /\ m.type = "queueEdit"
             /\ IF Holding THEN device' = [device EXCEPT !.held = Append(@, m)] /\ UNCHANGED http
                ELSE Handled(Heard(device, m))
       /\ UNCHANGED <<server, late, connected, spent, made, missed, forgotten>>

Back(kind) ==
    /\ http.kind = kind /\ http.at = "answered"
    /\ UNCHANGED <<server, late, connected, inbox, spent, made, missed, forgotten>>
Is(statuses) == http.answer.status \in statuses

\* #sendStart: of a start another has replaced, the answer says nothing.
Started(d) == [d EXCEPT !.starting = None, !.refetch = @ \/ http.queue \in Recipes]
StartAnswered ==
    /\ Back("start")
    /\ Drain(IF Is({"lost"}) \/ device.starting # http.queue THEN device
             ELSE IF Is({"ok"}) THEN Started(device)
             ELSE GiveUp([device EXCEPT !.starting = None, !.refetch = TRUE],
                         {i \in DOMAIN device.pending : device.pending[i].queue = http.queue}))

\* #sendEdit: an edit no longer pending needs no answer.
EditAnswered ==
    /\ Back("edit")
    /\ Drain(IF Is({"lost"}) \/ http.edit \notin Edits(device.pending) THEN device
             ELSE IF Is({"applied", "again"})
             THEN [device EXCEPT !.pending = [i \in DOMAIN @ |->
                      IF @[i].edit = http.edit THEN [@[i] EXCEPT !.version = http.answer.version]
                      ELSE @[i]]]
             ELSE Rebuild(GiveUp([device EXCEPT !.refetch = @ \/ Is({"changed", "missing"})],
                            {i \in DOMAIN device.pending : device.pending[i].edit = http.edit})))

\* A snapshot is installed once the lists it needs are read from storage.
Installing == http' = [http EXCEPT !.at = "installing"]
Loaded(kind) == http.kind = kind /\ http.at = "installing"

\* #sendRestore, which is not sent again.
RestoreAnswered ==
    /\ Back("restore")
    /\ IF Is({"ok"}) THEN Installing /\ device' = [device EXCEPT !.run = http.answer.run]
       ELSE Drain([device EXCEPT !.restoring = None, !.refetch = @ \/ Is({"lost"})])
RestoreInstalled ==
    /\ Loaded("restore")
    /\ LET ended == [device EXCEPT !.restoring = None]
       IN Drain(IF http.stale THEN ended ELSE CaughtUp(Install(ended, http.answer), <<>>))
    /\ UNCHANGED <<server, late, connected, inbox, spent, made, missed, forgotten>>

\* #fetchQueue: a start made meanwhile leaves nothing of it.
FetchAnswered ==
    LET ended == [device EXCEPT !.held = <<>>]
        same == [ended EXCEPT !.run = http.answer.run]
    IN /\ Back("fetch")
       /\ IF http.stale THEN Drain(ended)
          ELSE IF Is({"ok"}) THEN Installing /\ device' = [device EXCEPT !.run = http.answer.run]
          ELSE Drain(IF Is({"lost"}) THEN [ended EXCEPT !.refetch = TRUE]
                     ELSE IF Is({"missing"}) THEN Clear(ended)
                     ELSE CaughtUp(same, device.held))
FetchInstalled ==
    /\ Loaded("fetch")
    /\ LET ended == [device EXCEPT !.held = <<>>]
       IN Drain(IF http.stale THEN ended
                ELSE CaughtUp(Install(ended, http.answer), device.held))
    /\ UNCHANGED <<server, late, connected, inbox, spent, made, missed, forgotten>>

-----------------------------------------------------------------------------
(***************************************************************************)
(* A page just opened.  The account has a queue, and one it kept; the      *)
(* first may be so new that the other is saved as active, or none is.      *)
(***************************************************************************)
AtFirst(queues) ==
    [q \in queues |->
        [Fresh(FALSE, "viewed") EXCEPT !.edits = IF q = Older THEN <<Past>> ELSE <<>>]]
QueueInit ==
    /\ device = [queue |-> None, content |-> Fresh(FALSE, "viewed"), run |-> 0,
                 pending |-> [i \in {} |-> None], count |-> 0, refetch |-> FALSE, held |-> <<>>,
                 starting |-> None, restoring |-> None, reported |-> {}]
    /\ \E active \in {None, Older, First} :
          LET kept == IF active = None THEN {} ELSE {active, Older}
          IN server = [run |-> 1, active |-> First, done |-> <<>>, telling |-> {},
                       saved |-> [active |-> active, queues |-> AtFirst(kept)],
                       queues |-> AtFirst(kept \cup {First})]
    /\ http = NothingSent /\ late = {} /\ connected = FALSE /\ inbox = <<>>
    /\ spent = 0 /\ made = {} /\ missed = FALSE
    /\ forgotten = [edits |-> {}, queues |-> {}]

Serve == ServeEdit \/ ServeStart \/ ServeRestore \/ ServeFetch \/ Told
Take == StartAnswered \/ EditAnswered \/ RestoreAnswered \/ RestoreInstalled
        \/ FetchAnswered \/ FetchInstalled
QueueNext ==
    \/ \E e \in OwnEdit : UserEdit(e)
    \/ \E q \in Own : UserStart(q)
    \/ \E q \in Queue : UserRestore(q)
    \/ Serve \/ RefuseStart \/ Lose
    \/ \E r \in late : Arrive(r)
    \/ \E e \in OtherEdit : OtherEdits(e)
    \/ \E q \in Others : OtherStarts(q)
    \/ \E q \in Queue : OtherRestores(q)
    \/ \E q \in Queue : Announce(q) \/ HangUp(q)
    \/ Save \/ Disconnect \/ Reconnect \/ Restart
    \/ Hear \/ Take

QueueSpec == QueueInit /\ [][QueueNext]_clientVars
-----------------------------------------------------------------------------
(***************************************************************************)
(* Once nothing is on its way and every new queue was announced, the       *)
(* device holds the server's queue, with nothing of its own on top: no     *)
(* edit, answer, message or restart leaves it apart, whatever it missed.   *)
(***************************************************************************)
AllHeard == connected /\ inbox = <<>> /\ http = NothingSent /\ server.telling = {}
QuietIsCurrent ==
    AllHeard /\ ~missed =>
        /\ device.queue = server.active
        /\ server.active \notin forgotten.queues \cup {None} =>
              /\ Edits(device.pending) = {}
              /\ device.content.edits = server.queues[server.active].edits

(***************************************************************************)
(* An edit of this device's is never replayed over a queue that has it,    *)
(* but for one applied twice, which a crash lost and a retry made again.   *)
(***************************************************************************)
ShownOnce == Edits(device.pending) \cap ToSet(device.content.edits) \subseteq forgotten.edits

(***************************************************************************)
(* An edit that stops showing as this device's own is in the queue it      *)
(* shows, or the user is told, but for a repeat change a start made again  *)
(* and what a crash of the server lost.                                    *)
(***************************************************************************)
Gone == Edits(device.pending) \ Edits(device'.pending)
Shown == ToSet(device'.content.edits) \cup device'.reported \cup Repeats
NothingVanishes ==
    [][device.queue \notin forgotten.queues => Gone \subseteq Shown \cup forgotten.edits]_clientVars

(***************************************************************************)
(* Then a queue started here also has the repeat mode and the rows the     *)
(* server started it with.                                                 *)
(***************************************************************************)
StartsAgree ==
    AllHeard /\ ~missed /\ server.active # None =>
        LET ours == server.queues[server.active]
        IN Repeating(device.content) = Repeating(ours) /\ device.content.rows = ours.rows
=============================================================================
