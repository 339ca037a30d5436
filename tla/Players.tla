------------------------------ MODULE Players ------------------------------
(***************************************************************************)
(* One account's player (crates/server/src/api/player.rs, player/          *)
(* progress.rs) and its remote commands (player/commands.rs, player/       *)
(* commands/relay.rs), over the connections of the Hub: reports that take  *)
(* over or are refused, the state every connection is sent, commands       *)
(* passed on to one connection and answered, timed out, sent again, or     *)
(* failed because the connection has gone, and devices that log out.       *)
(*                                                                         *)
(* Under the lock of Players.accounts, and then of Players.commands, each  *)
(* operation is one step; what a connection's task does before and after   *)
(* is not.  A connection handles one message at a time (serve, handle).    *)
(* Positions, volumes, clock time and how a command went are left out: a   *)
(* state says what plays where, and at which of a few places.              *)
(***************************************************************************)
EXTENDS Hub, FiniteSets, Sequences

CONSTANTS
    Command,      \* the commandIds clients choose
    Content,      \* what each asks for: its type, device, and whether to play
    Place,        \* what a report may name: an item and a position in it
    Reports,      \* the reports clients send
    Remembered,   \* REMEMBERED: how many of the latest results are kept
    MaxWaiting,   \* MAX_WAITING: how many commands may wait at once
    Leavers,      \* bound: the devices that may log out
    MaxReports,   \* bound: reports over a behaviour
    MaxSends      \* bound: commands sent, those sent again included

Type == {"transport", "volume", "transfer"}

ASSUME CommandAssumption == IsFiniteSet(Command)
ASSUME ContentAssumption ==
    Content \in [Command -> [type : Type, device : Device \cup {NoDevice}, play : BOOLEAN]]
Status == {"playing", "paused", "stopped"}
Report == [status : Status, place : Place, start : BOOLEAN]

ASSUME ReportsAssumption == Reports \subseteq Report
ASSUME BoundsAssumption ==
    Remembered \in Nat \ {0} /\ {MaxWaiting, MaxReports, MaxSends} \subseteq Nat

VARIABLES
    signedIn,   \* the devices the database has as signed in
    revoking,   \* devices whose logout has committed and not yet told the hub
    hub,
    serve,      \* Connection -> where its task is
    caller,     \* Connection -> the device it is for
    handling,   \* Connection -> the client's message it is handling
    player,     \* the account's PlayerState
    waiting,    \* Commands.waiting: Command -> where it went, where its result goes
    finished,   \* Commands.finished: the commands of the latest results, oldest first
    late,       \* commands that ended while their timer was past its sleep
    reports,
    sends
(***************************************************************************)
(* History, read by no guard.                                              *)
(***************************************************************************)
VARIABLES
    shown,      \* Connection -> the player state last queued to it
    passedOn    \* Command -> how often it was passed on since it was last forgotten

connections == <<hub, serve, caller, handling>>
accounts    == <<signedIn, revoking>>
commands    == <<waiting, finished, late>>
history     == <<shown, passedOn>>
vars == <<accounts, connections, player, commands, reports, sends, history>>

Http   == MaxConnections + 1      \* Reply::Request, whichever request it is
NoPlace == "nowhere"

Player  == [status : Status, connection : Connection \cup {NoConnection},
            device : Device \cup {NoDevice}, place : Place \cup {NoPlace}]
Stopped == [status |-> "stopped", connection |-> NoConnection,
            device |-> NoDevice, place |-> NoPlace]

Waits == [to : Connection \cup {NoConnection}, reply : 0 .. Http, due : BOOLEAN]
NotWaiting == [to |-> NoConnection, reply |-> 0, due |-> FALSE]
Waiting == {id \in Command : waiting[id].to # NoConnection}

Nothing == [is |-> "nothing"]
Refused == [is |-> "refused"]
Handled ==
    {Nothing, Refused}
    \cup [is : {"report"}, report : Reports, step : {"reading", "read", "admitted"}]
    \cup [is : {"command", "answer"}, id : Command]

TypeOK ==
    /\ signedIn \subseteq Device /\ revoking \subseteq Device
    /\ hub \in [Connection -> Links]
    /\ serve \in [Connection -> {"unopened", "joined", "serving", "left", "ended"}]
    /\ caller \in [Connection -> Device \cup {NoDevice}]
    /\ handling \in [Connection -> Handled]
    /\ player \in Player
    /\ waiting \in [Command -> Waits]
    /\ finished \in Seq(Command) /\ Len(finished) <= Remembered
    /\ late \subseteq Command
    /\ reports \in 0 .. MaxReports /\ sends \in 0 .. MaxSends
    /\ shown \in [Connection -> Player]
    /\ passedOn \in [Command -> 0 .. MaxSends]

Init ==
    /\ signedIn = Device /\ revoking = {}
    /\ hub = [c \in Connection |-> NoLink]
    /\ serve = [c \in Connection |-> "unopened"]
    /\ caller = [c \in Connection |-> NoDevice]
    /\ handling = [c \in Connection |-> Nothing]
    /\ player = Stopped
    /\ waiting = [id \in Command |-> NotWaiting]
    /\ finished = <<>> /\ late = {}
    /\ reports = 0 /\ sends = 0
    /\ shown = [c \in Connection |-> Stopped]
    /\ passedOn = [id \in Command |-> 0]

-----------------------------------------------------------------------------
(***************************************************************************)
(* What is said of a state, under the lock of accounts.                    *)
(***************************************************************************)
\* The state goes to every connection of the account that h still counts.
Tell(h, state) ==
    /\ hub' = Broadcast(h)
    /\ shown' = [c \in Connection |-> IF hub'[c].open THEN state ELSE Stopped]

\* The state goes to c.
TellOne(h, c, state) ==
    /\ hub' = Send(h, c)
    /\ shown' = [shown EXCEPT ![c] = IF hub'[c].open THEN state ELSE Stopped]

-----------------------------------------------------------------------------
(***************************************************************************)
(* How commands end: Players::end.                                         *)
(***************************************************************************)
\* How many of the results of ids go to each connection.
ResultsTo(ids) ==
    [c \in Connection |-> Cardinality({id \in ids : waiting[id].reply = c})]

\* The orders in which the map of waiting commands may yield ids.
Orders(ids) ==
    {order \in [1 .. Cardinality(ids) -> ids] : \A id \in ids : \E i \in DOMAIN order : order[i] = id}

\* ids, remembered after those already there.
Remember(ids) ==
    LET all == finished \o ids
    IN  SubSeq(all, IF Len(all) > Remembered THEN Len(all) - Remembered + 1 ELSE 1, Len(all))

\* Slip: results are delivered and not kept.
SlipEnd(ids, fired) ==
    /\ waiting' = [id \in Command |-> IF id \in ids THEN NotWaiting ELSE waiting[id]]
    /\ late' = (late \cup {id \in ids : waiting[id].due}) \ fired
    /\ UNCHANGED <<finished, passedOn>>

\* Each of ids is taken off the waiting, its timer aborted, which does nothing to one
\* past its sleep that has not fired yet, and its result kept.
End(ids, fired) ==
    /\ waiting' = [id \in Command |-> IF id \in ids THEN NotWaiting ELSE waiting[id]]
    /\ late' = (late \cup {id \in ids : waiting[id].due}) \ fired
    /\ \E order \in Orders(ids) : finished' = Remember(order)
    /\ passedOn' = [id \in Command |->
                        IF \/ waiting'[id].to # NoConnection
                           \/ \E i \in DOMAIN finished' : finished'[i] = id
                        THEN passedOn[id] ELSE 0]

-----------------------------------------------------------------------------
(***************************************************************************)
(* Connections.                                                            *)
(***************************************************************************)
Serving(c) == serve[c] = "serving" /\ handling[c] = Nothing

\* Players::connect, for a request authenticated before: counted, with the state
\* queued first.  Of the hub's other users only a device list or a revocation may
\* come between the two.
Join(c, d) ==
    /\ serve[c] = "unopened" /\ \A b \in 1 .. c - 1 : serve[b] # "unopened"
    /\ serve' = [serve EXCEPT ![c] = "joined"]
    /\ caller' = [caller EXCEPT ![c] = d]
    /\ TellOne(Connect(hub, c, d), c, player)
    /\ UNCHANGED <<accounts, handling, player, commands, reports, sends, passedOn>>

\* signed_in once joined, and hello.
Check(c) ==
    /\ serve[c] = "joined" /\ caller[c] \in signedIn
    /\ serve' = [serve EXCEPT ![c] = "serving"]
    /\ UNCHANGED <<accounts, hub, caller, handling, player, commands, reports, sends, history>>

Deliver(c) ==
    /\ Serving(c) /\ hub[c].queued > 0
    /\ hub' = Receive(hub, c)
    /\ UNCHANGED <<accounts, serve, caller, handling, player, commands, reports, sends, history>>

\* serve's loop ends, for any reason, and drops the presence.
Leave(c) ==
    /\ serve[c] = "joined" \/ Serving(c)
    /\ serve' = [serve EXCEPT ![c] = "left"]
    /\ hub' = Drop(hub, c)
    /\ shown' = [shown EXCEPT ![c] = Stopped]
    /\ UNCHANGED <<accounts, caller, handling, player, commands, reports, sends, passedOn>>

StopsHere(c) == player.connection = c

WaitingOn(c) == {id \in Waiting : waiting[id].to = c}

AsStopped == [player EXCEPT !.status = "stopped", !.connection = NoConnection, !.device = NoDevice]

\* Slip: a connection that was not playing has nothing to settle.
SlipDisconnected(c) ==
    /\ serve[c] = "left"
    /\ serve' = [serve EXCEPT ![c] = "ended"]
    /\ IF StopsHere(c)
       THEN /\ End(WaitingOn(c), {})
            /\ player' = AsStopped
            /\ Tell(SendEach(hub, ResultsTo(WaitingOn(c))), player')
       ELSE UNCHANGED <<hub, player, commands, shown, passedOn>>
    /\ UNCHANGED <<accounts, caller, handling, reports, sends>>

\* Slip: the other connections are not told that playback stopped.
SlipNotTold(c) ==
    /\ serve[c] = "left"
    /\ serve' = [serve EXCEPT ![c] = "ended"]
    /\ End(WaitingOn(c), {})
    /\ hub' = SendEach(hub, ResultsTo(WaitingOn(c)))
    /\ player' = IF StopsHere(c) THEN AsStopped ELSE player
    /\ UNCHANGED <<accounts, caller, handling, reports, sends, shown>>

\* Players::disconnected: commands waiting on c fail, and playback over it stops.
Disconnected(c) ==
    /\ serve[c] = "left"
    /\ serve' = [serve EXCEPT ![c] = "ended"]
    /\ End(WaitingOn(c), {})
    /\ LET told == SendEach(hub, ResultsTo(WaitingOn(c)))
       IN  IF StopsHere(c)
           THEN player' = AsStopped /\ Tell(told, player')
           ELSE hub' = told /\ UNCHANGED <<player, shown>>
    /\ UNCHANGED <<accounts, caller, handling, reports, sends>>

\* logout commits, and then revokes the device's connections.
LogOut(d) ==
    /\ d \in signedIn \cap Leavers
    /\ signedIn' = signedIn \ {d} /\ revoking' = revoking \cup {d}
    /\ UNCHANGED <<connections, player, commands, reports, sends, history>>

Revoked(d) ==
    /\ d \in revoking
    /\ revoking' = revoking \ {d}
    /\ hub' = Revoke(hub, d)
    /\ UNCHANGED <<signedIn, serve, caller, handling, player, commands, reports, sends, history>>

-----------------------------------------------------------------------------
(***************************************************************************)
(* Reports: player::apply and Players::report.                             *)
(***************************************************************************)
Handle(c, message) == handling' = [handling EXCEPT ![c] = message]

At(c, step) == handling[c].is = "report" /\ handling[c].step = step

GoesTo(c, step) == Handle(c, [handling[c] EXCEPT !.step = step])

\* A report is read over an open connection; its volume and whether the queue holds
\* its item are checked at once.
ReportArrives(c, report) ==
    /\ Serving(c) /\ hub[c].open /\ reports < MaxReports
    /\ reports' = reports + 1
    /\ \/ Handle(c, [is |-> "report", report |-> report, step |-> "reading"])
       \/ Handle(c, Refused)
    /\ UNCHANGED <<accounts, hub, serve, caller, player, commands, sends, history>>

\* Whether the device is still signed in.
ReadSignedIn(c) ==
    /\ At(c, "reading")
    /\ IF caller[c] \in signedIn THEN GoesTo(c, "read") ELSE Handle(c, Refused)
    /\ UNCHANGED <<accounts, hub, serve, caller, player, commands, reports, sends, history>>

\* Whether the hub still counts the connection: otherwise the report is dropped.
StillOpen(c) ==
    /\ At(c, "read")
    /\ IF hub[c].open THEN GoesTo(c, "admitted") ELSE Handle(c, Nothing)
    /\ UNCHANGED <<accounts, hub, serve, caller, player, commands, reports, sends, history>>

Starts(report) == report.start /\ report.status # "stopped"

Reported(c, report) ==
    LET on == report.status # "stopped"
    IN  [status |-> report.status, place |-> report.place,
         connection |-> IF on THEN c ELSE NoConnection,
         device |-> IF on THEN caller[c] ELSE NoDevice]

\* Players::report: only the connection playing reports, unless it starts.
ApplyReport(c) ==
    /\ At(c, "admitted")
    /\ LET report == handling[c].report
       IN  IF Starts(report) \/ player.connection = c
           THEN /\ player' = Reported(c, report)
                /\ Tell(hub, player')
                /\ Handle(c, Nothing)
           ELSE /\ Handle(c, Refused)
                /\ UNCHANGED <<player, hub, shown>>
    /\ UNCHANGED <<accounts, serve, caller, commands, reports, sends, passedOn>>

\* A refused report is answered with the state.
SendState(c) ==
    /\ handling[c] = Refused
    /\ TellOne(hub, c, player)
    /\ Handle(c, Nothing)
    /\ UNCHANGED <<accounts, serve, caller, player, commands, reports, sends, passedOn>>

-----------------------------------------------------------------------------
(***************************************************************************)
(* Commands: Players::command and what may end one.                        *)
(***************************************************************************)
Kept(id) == \E i \in DOMAIN finished : finished[i] = id

PlaysOn(d) == player.connection # NoConnection /\ player.device = d

\* A transfer to the device already playing, which is done at once unless it is to play
\* there and is paused.
DoneAtOnce(id) ==
    /\ Content[id].type = "transfer" /\ player.place # NoPlace
    /\ PlaysOn(Content[id].device)
    /\ Content[id].play => player.status = "playing"

\* The connection that carries id out: the one playing, if it is the device's that
\* id names, or that device's newest.  A transfer needs something to move.
Target(id) ==
    LET d == Content[id].device
        wakes == \/ Content[id].type = "volume"
                 \/ Content[id].type = "transfer" /\ player.place # NoPlace
    IN  IF PlaysOn(d) \/ (Content[id].type = "transport" /\ d = NoDevice)
        THEN player.connection
        ELSE IF wakes THEN Newest(hub, d) ELSE NoConnection

New(id) == ~Kept(id) /\ id \notin Waiting

\* Players::command: one sent again is answered from what is kept, or has its result
\* go to where it was sent from last; a new one is passed on, unless it has nowhere to
\* go, is done at once, or too many wait.
Accept(id, reply) ==
    \/ Kept(id) /\ UNCHANGED <<hub, waiting, passedOn>>
    \/ /\ ~Kept(id) /\ id \in Waiting
       /\ waiting' = [waiting EXCEPT ![id].reply = reply]
       /\ UNCHANGED <<hub, passedOn>>
    \/ /\ New(id)
       /\ DoneAtOnce(id) \/ Target(id) = NoConnection \/ Cardinality(Waiting) >= MaxWaiting
       /\ UNCHANGED <<hub, waiting, passedOn>>
    \/ /\ New(id) /\ ~DoneAtOnce(id)
       /\ Target(id) # NoConnection /\ Cardinality(Waiting) < MaxWaiting
       /\ hub' = Send(hub, Target(id))
       /\ waiting' = [waiting EXCEPT ![id] = [to |-> Target(id), reply |-> reply, due |-> FALSE]]
       /\ passedOn' = [passedOn EXCEPT ![id] = @ + 1]

\* sendPlayerCommand: over HTTP.
Request(id) ==
    /\ sends < MaxSends
    /\ sends' = sends + 1
    /\ Accept(id, Http)
    /\ UNCHANGED <<accounts, serve, caller, handling, player, finished, late, reports, shown>>

\* playerCommand: over an open connection, which may be closed before the locks are had.
CommandArrives(c, id) ==
    /\ Serving(c) /\ hub[c].open /\ sends < MaxSends
    /\ sends' = sends + 1
    /\ Handle(c, [is |-> "command", id |-> id])
    /\ UNCHANGED <<accounts, hub, serve, caller, player, commands, reports, history>>

AcceptCommand(c) ==
    /\ handling[c].is = "command"
    /\ Handle(c, Nothing)
    /\ Accept(handling[c].id, c)
    /\ UNCHANGED <<accounts, serve, caller, player, finished, late, reports, sends, shown>>

\* commandResult: the connection a command went to says how it went.  An answer to one
\* that does not wait on c would change nothing.
AnswerArrives(c, id) ==
    /\ Serving(c) /\ hub[c].open /\ id \in WaitingOn(c)
    /\ Handle(c, [is |-> "answer", id |-> id])
    /\ UNCHANGED <<accounts, hub, serve, caller, player, commands, reports, sends, history>>

\* ids end, and their senders are told.
EndAndTell(ids, fired) ==
    /\ End(ids, fired)
    /\ hub' = SendEach(hub, ResultsTo(ids))

Answered(c) ==
    /\ handling[c].is = "answer"
    /\ Handle(c, Nothing)
    /\ EndAndTell({handling[c].id} \cap WaitingOn(c), {})
    /\ UNCHANGED <<accounts, serve, caller, player, reports, sends, shown>>

\* A command's timer is past its sleep: from here on, it fires even if aborted.
TimerDue(id) ==
    /\ id \in Waiting /\ ~waiting[id].due
    /\ waiting' = [waiting EXCEPT ![id].due = TRUE]
    /\ UNCHANGED <<accounts, connections, player, finished, late, reports, sends, history>>

\* Players::fail: whichever command of that ID waits now.
TimerFires(id) ==
    /\ id \in late \/ (id \in Waiting /\ waiting[id].due)
    /\ EndAndTell({id} \cap Waiting, {id})
    /\ UNCHANGED <<accounts, serve, caller, handling, player, reports, sends, shown>>

-----------------------------------------------------------------------------
Next ==
    \/ \E c \in Connection :
        \/ \E d \in Device : Join(c, d)
        \/ Check(c) \/ Deliver(c) \/ Leave(c) \/ Disconnected(c)
        \/ \E report \in Reports : ReportArrives(c, report)
        \/ ReadSignedIn(c) \/ StillOpen(c) \/ ApplyReport(c) \/ SendState(c)
        \/ \E id \in Command : CommandArrives(c, id)
        \/ AcceptCommand(c)
        \/ \E id \in Command : AnswerArrives(c, id)
        \/ Answered(c)
    \/ \E d \in Device : LogOut(d) \/ Revoked(d)
    \/ \E id \in Command : Request(id) \/ TimerDue(id) \/ TimerFires(id)

Spec == Init /\ [][Next]_vars

-----------------------------------------------------------------------------
\* The state last queued to every connection the hub counts is the account's: from its
\* joining, refused reports, changes and other connections' ends, no connection is told
\* an older state after a newer one or left with a stale one (player.rs, connect,
\* send_state, disconnected; progress.rs, report).
LastStateQueuedIsCurrent == \A c \in Counted(hub) : shown[c] = player

\* A command waits only on a connection whose end is still to be settled, so that it is
\* answered, times out, or fails at once with it, whichever of the two takes the lock
\* first (relay.rs, command, fail_commands_to).
NoCommandWaitsOnTheGone == \A id \in Waiting : serve[waiting[id].to] # "ended"

\* Playback is never over a connection that has ended: whatever report it was handling,
\* its disconnect comes after (player.rs, disconnected).
PlaysOverALiveConnection ==
    player.connection # NoConnection => serve[player.connection] # "ended"

\* However often it is sent, and wherever from, a command is passed on once for as long
\* as its result is kept (relay.rs, command, end).
PassedOnOnce == \A id \in Command : passedOn[id] <= 1
=============================================================================
