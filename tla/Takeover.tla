------------------------------ MODULE Takeover ------------------------------
(***************************************************************************)
(* One device plays at a time: the web player of each device               *)
(* (web/src/lib/player.svelte.ts, progress.ts, realtime.svelte.ts) against *)
(* the account's player on the server, which Players has in detail and      *)
(* here takes a report in one step.  A page plays its audio as soon as it  *)
(* is told to, reports it, and stops once a state names another device.    *)
(*                                                                         *)
(* Items and positions are left out: held says whether the item a page has *)
(* loaded is the one the server's queue plays, as far as the page has      *)
(* heard.  Messages go in order each way and take as long as they take.    *)
(***************************************************************************)
EXTENDS Integers, FiniteSets, Sequences

CONSTANTS
    Device,         \* each with a page open, with a player and a connection of its own
    None,           \* no device
    MaxConnections, \* bound: connections over a behaviour
    MaxCommands,    \* bound: what users ask for over a behaviour
    MaxFaults       \* bound: what the queue, the network and the browser do to it

Connection == 1 .. MaxConnections
NoConnection == 0

VARIABLES
    player,     \* Device -> its Player, Progress and audio element
    socket,     \* Device -> its connection, as far as it has noticed
    greeted,    \* Realtime.connected: the pages whose connection has said hello
    owner,      \* Connection -> the page that made it
    open,       \* the connections the server counts
    up,         \* Connection -> reports on their way to the server
    down,       \* Connection -> messages on their way to the page
    account,    \* the server's PlayerState: the connection playing, and how
    commands,
    faults

chances == <<commands, faults>>
network == <<socket, greeted, owner, open, down>>
vars == <<player, network, up, account, chances>>

Status == {"playing", "paused", "stopped"}

(***************************************************************************)
(* start and byUser say whether the next report takes over and why;        *)
(* confirm, how long a takeover sent has gone unconfirmed; active, whether *)
(* this device is the one playing as far as the server has said.  The      *)
(* audio is "waiting" from when it is asked to play until it is heard; its *)
(* events play and pause are handled in the step that causes them.         *)
(***************************************************************************)
Idle == [start |-> FALSE, byUser |-> FALSE, confirm |-> "none", active |-> FALSE,
         playing |-> FALSE, loading |-> FALSE, holds |-> FALSE, stale |-> FALSE,
         loaded |-> FALSE, held |-> FALSE, starting |-> FALSE, opening |-> FALSE,
         fetching |-> FALSE, retrying |-> FALSE, audio |-> "paused"]

TypeOK ==
    /\ player \in [Device -> [
           start : BOOLEAN, byUser : BOOLEAN, confirm : {"none", "recent", "old"},
           active : BOOLEAN, playing : BOOLEAN, loading : BOOLEAN, holds : BOOLEAN,
           stale : BOOLEAN, loaded : BOOLEAN, held : BOOLEAN, starting : BOOLEAN,
           opening : BOOLEAN, fetching : BOOLEAN, retrying : BOOLEAN,
           audio : {"paused", "waiting", "playing"}]]
    /\ socket \in [Device -> Connection \cup {NoConnection}]
    /\ greeted \subseteq Device
    /\ owner \in [Connection -> Device \cup {None}] /\ open \subseteq Connection
    /\ \A c \in Connection :
        /\ \A i \in DOMAIN up[c] : up[c][i] \in [start : BOOLEAN, status : Status]
        /\ \A i \in DOMAIN down[c] : down[c][i] \in Device \cup {None, "hello", "play"}
    /\ account \in [connection : Connection \cup {NoConnection}, status : Status]
    /\ commands \in 0 .. MaxCommands /\ faults \in 0 .. MaxFaults

Init ==
    /\ player = [t \in Device |-> Idle]
    /\ socket = CHOOSE f \in [Device -> 1 .. Cardinality(Device)] :
                   \A s, t \in Device : f[s] = f[t] => s = t
    /\ open = {socket[t] : t \in Device} /\ greeted = Device
    /\ owner = [c \in Connection |->
                  IF c \in open THEN CHOOSE t \in Device : socket[t] = c ELSE None]
    /\ up = [c \in Connection |-> <<>>] /\ down = [c \in Connection |-> <<>>]
    /\ account = [connection |-> NoConnection, status |-> "stopped"]
    /\ commands = 0 /\ faults = 0

-----------------------------------------------------------------------------
(***************************************************************************)
(* A page's player, before and after.                                      *)
(***************************************************************************)
Silence(me) == [me EXCEPT !.audio = "paused"]

\* Progress.started.
Started(me) == [me EXCEPT !.start = TRUE, !.byUser = TRUE]

\* Progress.paused: a takeover not yet sent is dropped.
Dropped(me) == [me EXCEPT !.start = @ /\ ~me.byUser, !.byUser = FALSE]

\* Player.#go: an item is loaded, to play or to wait paused.
Go(me, held, play) ==
    [Silence(me) EXCEPT !.loaded = TRUE, !.held = held, !.holds = TRUE,
        !.retrying = FALSE, !.playing = play, !.loading = play, !.stale = TRUE,
        !.fetching = TRUE]

\* Player.pause.
Pause(me) ==
    Silence([Dropped(me) EXCEPT !.retrying = FALSE, !.playing = FALSE, !.loading = FALSE])

\* Player.#yield: another device or page took over.
Yield(me) ==
    LET let == [Dropped(me) EXCEPT !.holds = FALSE, !.opening = FALSE, !.retrying = FALSE]
    IN  IF ~me.playing THEN let
        ELSE Silence([let EXCEPT !.playing = FALSE, !.loading = FALSE,
                         !.stale = @ \/ me.loading, !.fetching = @ /\ ~me.loading])

\* Player.#end: the queue has nothing more to play.
End(me) ==
    Silence([me EXCEPT !.holds = FALSE, !.retrying = FALSE, !.playing = FALSE,
                !.loading = FALSE, !.stale = TRUE])

\* What a report says by itself.
Shows(me) == IF me.playing /\ ~me.loading THEN "playing" ELSE "paused"

-----------------------------------------------------------------------------
Changes(t, me) == player' = [player EXCEPT ![t] = me]

Silently(t, me) == Changes(t, me) /\ UNCHANGED up

\* Player.#report and Progress.report: sent only for an item the server has, over a
\* connection, by a page that takes over or is the active one as far as it knows.
Says(t, me, status) ==
    LET takes == me.start /\ status # "stopped"
    IN  IF me.loaded /\ me.held /\ t \in greeted /\ (me.start \/ me.active)
        THEN /\ up' = [up EXCEPT ![socket[t]] = Append(@, [start |-> takes, status |-> status])]
             /\ Changes(t, IF takes
                           THEN [me EXCEPT !.start = FALSE, !.byUser = FALSE,
                                    !.confirm = "recent", !.active = TRUE]
                           ELSE me)
        ELSE Silently(t, me)

Reports(t, me) == Says(t, me, Shows(me))

Command == commands < MaxCommands /\ commands' = commands + 1 /\ UNCHANGED faults
Fault == faults < MaxFaults /\ faults' = faults + 1 /\ UNCHANGED commands


-----------------------------------------------------------------------------
(***************************************************************************)
(* What the user does in a page.                                           *)
(***************************************************************************)
\* Player.play: a start from a view plays at once, before the server has its queue.
Start(t) ==
    /\ Command
    /\ Reports(t, [Go(Started(player[t]), FALSE, TRUE) EXCEPT !.starting = TRUE])
    /\ UNCHANGED <<network, account>>

\* Player.pickUp: the queue's current item, from here or because a transfer asks for it.
PickUp(t, play) ==
    /\ Command
    /\ Reports(t, Go(Started(player[t]), TRUE, play))
    /\ UNCHANGED <<network, account>>

\* Player.jump, rewind, and next while it holds playback: the queue moves, and is followed.
Jump(t) ==
    /\ Command
    /\ Silently(t, [Started(player[t]) EXCEPT !.holds = TRUE, !.opening = ~player[t].starting])
    /\ UNCHANGED <<network, account>>

PausePressed(t) ==
    /\ Command /\ player[t].playing
    /\ Reports(t, Pause(player[t]))
    /\ UNCHANGED <<network, account>>

\* Player.#resume.
ResumeOf(t, me) ==
    IF me.stale THEN Reports(t, Go(me, me.held, TRUE))
    ELSE Silently(t, [me EXCEPT !.playing = TRUE, !.audio = IF @ = "paused" THEN "waiting" ELSE @])

Resume(t) ==
    /\ Command
    /\ player[t].loaded /\ ~player[t].playing
    /\ ResumeOf(t, Started(player[t]))
    /\ UNCHANGED <<network, account>>

\* Player.seek, setVolume.
Seek(t) ==
    /\ Command /\ Reports(t, player[t])
    /\ UNCHANGED <<network, account>>

-----------------------------------------------------------------------------
(***************************************************************************)
(* What the queue does to a page.                                          *)
(***************************************************************************)
\* The server answers a start: it has the item now, or the old queue comes back.
StartAnswered(t) ==
    LET me == [player[t] EXCEPT !.starting = FALSE]
    IN  /\ me.loaded /\ player[t].starting
        /\ \/ Reports(t, [me EXCEPT !.held = TRUE]) /\ UNCHANGED chances
           \/ Fault /\ Reports(t, Pause([me EXCEPT !.holds = FALSE]))
        /\ UNCHANGED <<network, account>>

\* Player.#told: the server reaches the item this page has made the current one.
Told(t) ==
    /\ player[t].loaded /\ ~player[t].held /\ player[t].holds /\ ~player[t].starting
    /\ Reports(t, [player[t] EXCEPT !.held = TRUE])
    /\ UNCHANGED <<network, account, chances>>

\* Player.#follow: another device moves the queue, or replaces it.
QueueMoves(t) ==
    LET me == player[t]
    IN  /\ Fault /\ me.loaded /\ me.held
        /\ Silently(t, [me EXCEPT !.held = FALSE, !.opening = @ \/ (me.holds /\ ~me.starting)])
        /\ UNCHANGED <<network, account>>

\* Player.#open: the item's row and track are known; the server may still lack the item.
Opened(t) ==
    /\ player[t].opening
    /\ \E held \in BOOLEAN : Reports(t, Go([player[t] EXCEPT !.opening = FALSE], held, TRUE))
    /\ UNCHANGED <<network, account, chances>>

\* A track ends, or cannot play: the queue moves on, or has nothing more.
TrackEnds(t) ==
    LET me == player[t]
    IN  /\ Fault
        /\ me.audio = "playing" \/ me.loading
        /\ ~me.opening /\ ~me.starting
        /\ \/ Silently(t, [me EXCEPT !.opening = me.holds, !.playing = FALSE,
                              !.loading = FALSE, !.audio = "paused"])
           \/ Says(t, End(me), "stopped")
        /\ UNCHANGED <<network, account>>

-----------------------------------------------------------------------------
(***************************************************************************)
(* What the browser does: events of the audio element, and what it loads.  *)
(***************************************************************************)
\* Player.#go, then: the address of the audio is here.
Arrives(t) ==
    LET me == [player[t] EXCEPT !.fetching = FALSE, !.stale = FALSE]
    IN  /\ player[t].fetching
        /\ Silently(t, IF me.loading THEN [me EXCEPT !.audio = "waiting"] ELSE me)
        /\ UNCHANGED <<network, account, chances>>

\* The event playing.
IsPlaying(t) ==
    /\ player[t].audio = "waiting"
    /\ Reports(t, [player[t] EXCEPT !.audio = "playing", !.loading = FALSE])
    /\ UNCHANGED <<network, account, chances>>

\* The browser pauses the audio by itself, which ends a play under way or to come.
Interrupted(t) ==
    /\ Fault /\ player[t].audio \in {"waiting", "playing"}
    /\ Reports(t, [Silence(player[t]) EXCEPT !.playing = FALSE, !.loading = FALSE])
    /\ UNCHANGED <<network, account>>

\* The browser will not play it, or the server is out of reach, which is tried again.
Fails(t) ==
    LET me == [player[t] EXCEPT !.playing = FALSE, !.loading = FALSE, !.fetching = FALSE]
    IN  /\ Fault /\ player[t].loading /\ player[t].fetching
        /\ \E again \in BOOLEAN : Reports(t, [me EXCEPT !.retrying = again])
        /\ UNCHANGED <<network, account>>

\* Player.#retry.
Retried(t) ==
    LET me == [player[t] EXCEPT !.retrying = FALSE]
    IN  /\ player[t].retrying
        /\ IF me.holds THEN Reports(t, Go(me, me.held, TRUE)) ELSE Silently(t, me)
        /\ UNCHANGED <<network, account, chances>>

\* Nothing is on its way to or from t.
InTouch(t) == t \in greeted /\ up[socket[t]] = <<>> /\ down[socket[t]] = <<>>

\* REPORT_EVERY_MS: by the next, what was sent has arrived.
Tick(t) ==
    /\ player[t].playing /\ \A c \in Connection : up[c] = <<>> /\ down[c] = <<>>
    /\ Reports(t, player[t])
    /\ UNCHANGED <<network, account, chances>>

\* CONFIRM_WITHIN_MS passes.
Ages(t) ==
    /\ player[t].confirm = "recent" /\ InTouch(t)
    /\ Silently(t, [player[t] EXCEPT !.confirm = "old"])
    /\ UNCHANGED <<network, account, chances>>

-----------------------------------------------------------------------------
(***************************************************************************)
(* The connection, and the server at the other end of it.                  *)
(***************************************************************************)
DevicePlaying ==
    IF account.connection = NoConnection THEN None ELSE owner[account.connection]

\* Realtime.#open, and Players::connect: hello, and the state.
Connects(t) ==
    /\ socket[t] = NoConnection
    /\ \E c \in Connection :
        /\ owner[c] = None /\ \A b \in 1 .. c - 1 : owner[b] # None
        /\ owner' = [owner EXCEPT ![c] = t]
        /\ socket' = [socket EXCEPT ![t] = c]
        /\ open' = open \cup {c}
        /\ down' = [down EXCEPT ![c] = <<"hello", DevicePlaying>>]
    /\ UNCHANGED <<player, greeted, up, account, chances>>

\* The next message for t, taken off.
Takes(t, message) ==
    LET c == socket[t]
    IN  /\ c # NoConnection /\ down[c] # <<>>
        /\ message = Head(down[c])
        /\ down' = [down EXCEPT ![c] = Tail(@)]
        /\ UNCHANGED <<socket, owner, open>>

\* Progress.connected.
Hello(t) ==
    /\ Takes(t, "hello")
    /\ greeted' = greeted \cup {t}
    /\ Silently(t, [player[t] EXCEPT !.start = TRUE, !.confirm = "none", !.active = FALSE])
    /\ UNCHANGED <<account, chances>>

\* Slip: an unconfirmed takeover is waited for however long ago it went.
SlipHeard(t, device) ==
    LET me      == player[t]
        here    == device = t
        refused == ~here /\ me.confirm = "old"
        now     == [me EXCEPT !.active = here, !.confirm = "none"]
        mayTake == ~here /\ ((device = None /\ ~refused) \/ me.byUser)
    IN  /\ Takes(t, device)
        /\ \/ ~here /\ me.confirm # "none" /\ Silently(t, me)
           \/ /\ here \/ me.confirm = "none"
              /\ \/ ~me.playing /\ Silently(t, [now EXCEPT !.start = me.byUser])
                 \/ me.playing /\ here /\ me.start /\ Reports(t, now)
                 \/ me.playing /\ here /\ ~me.start /\ Silently(t, now)
                 \/ me.playing /\ mayTake /\ Reports(t, [now EXCEPT !.start = TRUE])
                 \/ /\ me.playing /\ ~here /\ ~mayTake
                    /\ Silently(t, IF device = None THEN [now EXCEPT !.start = FALSE]
                                   ELSE Yield([now EXCEPT !.start = FALSE]))
        /\ UNCHANGED <<greeted, account, chances>>

\* Player.#heard and Progress.heard, of a state in which device plays.
Heard(t, device) ==
    LET me      == player[t]
        here    == device = t
        refused == ~here /\ me.confirm = "old"
        now     == [me EXCEPT !.active = here, !.confirm = "none"]
        mayTake == ~here /\ ((device = None /\ ~refused) \/ me.byUser)
    IN  /\ Takes(t, device)
        /\ \/ ~here /\ me.confirm = "recent" /\ Silently(t, me)
           \/ /\ here \/ me.confirm # "recent"
              /\ \/ ~me.playing /\ Silently(t, [now EXCEPT !.start = me.byUser])
                 \/ me.playing /\ here /\ me.start /\ Reports(t, now)
                 \/ me.playing /\ here /\ ~me.start /\ Silently(t, now)
                 \/ me.playing /\ mayTake /\ Reports(t, [now EXCEPT !.start = TRUE])
                 \/ /\ me.playing /\ ~here /\ ~mayTake
                    /\ Silently(t, IF device = None THEN [now EXCEPT !.start = FALSE]
                                   ELSE Yield([now EXCEPT !.start = FALSE]))
        /\ UNCHANGED <<greeted, account, chances>>

\* A remote play, carried out as the user's would be, but taking nothing over.
Execute(t) ==
    /\ Takes(t, "play")
    /\ IF player[t].loaded /\ ~player[t].playing
       THEN ResumeOf(t, player[t])
       ELSE Silently(t, player[t])
    /\ UNCHANGED <<greeted, account, chances>>

\* Realtime.#lost.
Lost(t) ==
    /\ Fault /\ socket[t] # NoConnection /\ \E c \in Connection : owner[c] = None
    /\ socket' = [socket EXCEPT ![t] = NoConnection]
    /\ greeted' = greeted \ {t}
    /\ down' = [down EXCEPT ![socket[t]] = <<>>]
    /\ UNCHANGED <<player, owner, open, up, account>>

Broadcast(counted, message) ==
    down' = [c \in Connection |-> IF c \in counted /\ socket[owner[c]] = c
                                 THEN Append(down[c], message) ELSE down[c]]

\* Players::report, of the next report over c: it starts, or comes from the connection
\* playing, and names an item of the queue.
Apply(c) ==
    /\ c \in open /\ up[c] # <<>>
    /\ up' = [up EXCEPT ![c] = Tail(@)]
    /\ LET report == Head(up[c])
           on == report.status # "stopped"
       IN  \/ /\ report.start \/ account.connection = c
              /\ account' = [connection |-> IF on THEN c ELSE NoConnection, status |-> report.status]
              /\ Broadcast(open, IF on THEN owner[c] ELSE None)
              /\ UNCHANGED chances
           \/ /\ ~report.start /\ account.connection # c
              /\ Broadcast({c}, DevicePlaying)
              /\ UNCHANGED <<account, chances>>
           \/ /\ Fault /\ report.start
              /\ Broadcast({c}, DevicePlaying)
              /\ UNCHANGED account
    /\ UNCHANGED <<player, socket, greeted, owner, open>>

\* Players::command: play goes to the connection playing.
CommandPlay ==
    /\ Command /\ account.connection # NoConnection
    /\ Broadcast({account.connection}, "play")
    /\ UNCHANGED <<player, socket, greeted, owner, open, up, account>>

\* Players::disconnected: the server notices that c has gone.
Gone(c) ==
    /\ c \in open /\ socket[owner[c]] # c
    /\ open' = open \ {c}
    /\ up' = [up EXCEPT ![c] = <<>>]
    /\ IF account.connection = c
       THEN /\ account' = [connection |-> NoConnection, status |-> "stopped"]
            /\ Broadcast(open \ {c}, None)
       ELSE UNCHANGED <<account, down>>
    /\ UNCHANGED <<player, socket, greeted, owner, chances>>

-----------------------------------------------------------------------------
\* What happens by itself once a page has been told something: nothing the user, the queue,
\* the network or the browser may also leave out.
Browser(t) ==
    \/ StartAnswered(t) \/ Told(t) \/ Opened(t)
    \/ Arrives(t) \/ IsPlaying(t) \/ Retried(t)

Hears(t) == Hello(t) \/ Execute(t) \/ \E device \in Device \cup {None} : Heard(t, device)

User(t) ==
    \/ Start(t) \/ Jump(t) \/ PausePressed(t) \/ Resume(t) \/ Seek(t)
    \/ \E play \in BOOLEAN : PickUp(t, play)

Next ==
    \/ \E t \in Device :
        \/ User(t) \/ QueueMoves(t) \/ TrackEnds(t) \/ Interrupted(t) \/ Fails(t) \/ Lost(t)
        \/ Browser(t) \/ Hears(t) \/ Tick(t) \/ Ages(t) \/ Connects(t)
    \/ CommandPlay
    \/ \E c \in Connection : Apply(c) \/ Gone(c)

Fairness ==
    /\ \A t \in Device :
        /\ WF_vars(Browser(t)) /\ WF_vars(Hears(t))
        /\ WF_vars(Tick(t)) /\ SF_vars(Ages(t)) /\ WF_vars(Connects(t))
    /\ \A c \in Connection : WF_vars(Apply(c) \/ Gone(c))

Spec == Init /\ [][Next]_vars /\ Fairness

-----------------------------------------------------------------------------
Audible == {t \in Device : player[t].audio = "playing"}

PlayingDevice == owner[account.connection]

-----------------------------------------------------------------------------
(* Exactly one device plays (requirements/realtime.md, section 2): however *)
(* takeovers, refusals and lost connections met, the pages come to be silent*)
(* but for the one the server has as playing.  A page that plays although  *)
(* its takeover was refused, or went unheard, is stopped by the first state*)
(* naming another device (Progress.report's comment).                      *)
OneDevicePlays ==
    <>[](account.status = "playing" => Audible \subseteq {PlayingDevice})

\* Everything sent has been heard and nothing is under way in a page.
Settled ==
    /\ \A c \in Connection : up[c] = <<>> /\ down[c] = <<>>
    /\ greeted = Device /\ open = {socket[t] : t \in Device}
    /\ \A t \in Device :
        /\ player[t].audio # "waiting"
        /\ ~player[t].opening /\ ~player[t].fetching /\ ~player[t].retrying
        /\ ~player[t].starting /\ (player[t].loaded => player[t].held)

(* Two devices acting at once always settle on the same state, never two   *)
(* devices confidently showing different truths (requirements/realtime.md, *)
(* section 7): once settled, a playback shown as playing plays.            *)
SettlesOnTheTruth ==
    Settled /\ account.status = "playing" => PlayingDevice \in Audible
=============================================================================
