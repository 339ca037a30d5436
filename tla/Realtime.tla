------------------------------ MODULE Realtime ------------------------------
(***************************************************************************)
(* The realtime connections of one account (crates/server/src/api/         *)
(* realtime.rs), from the request that opens one to the end of its serve,  *)
(* among devices that log in and out (login.rs, session.rs); and the       *)
(* device list every one of them is sent again at each change (devices.rs, *)
(* Hub::device_list_turn).  Connections and lists are tasks: they          *)
(* interleave at every await and every lock.                               *)
(*                                                                         *)
(* What a connection plays and is told to do is in Players.  Here only the *)
(* first message, the account's state, and device lists fill an outbox;    *)
(* the last list queued to each connection is kept in shown.               *)
(***************************************************************************)
EXTENDS Hub, FiniteSets

CONSTANTS
    SignedInFirst,  \* the devices signed in at the start
    MaxFailures     \* bound: database reads that fail

ASSUME SignedInAssumption == SignedInFirst \subseteq Device
ASSUME BoundsAssumption == MaxFailures \in Nat

VARIABLES
    row,      \* Device -> its row: absent, signed in, signed out
    call,     \* Device -> the login or logout of it that has committed and not ended
    serve,    \* Connection -> where its task is
    caller,   \* Connection -> the device its request was authenticated as
    hub,      \* the Hub
    asked,    \* tasks of devices::changed spawned and not begun
    waiting,  \* DeviceListTurn.waiting
    list,     \* the list that has the turn: its step and what it has read
    unannounced,  \* devices whose login's client hung up: no one has their token
    failures
(***************************************************************************)
(* History, read by no guard.                                              *)
(***************************************************************************)
VARIABLES
    shown,    \* Connection -> the device list last queued to it
    unread    \* whether the last list could not be read

devices == <<row, call, unannounced>>
tasks   == <<serve, caller>>
turn    == <<asked, waiting, list>>
history == <<shown, unread>>
vars    == <<devices, tasks, hub, turn, failures, history>>

Phase   == {"unopened", "upgrading", "joined", "greeting", "serving", "ending", "ended"}
ListStep == {"none", "turn", "fresh", "connected", "read"}

Lists   == [rows : SUBSET Device, connected : SUBSET Device]
NoList  == [rows |-> {}, connected |-> {}]
Idle    == [step |-> "none", connected |-> {}, rows |-> {}]

SignedIn == {d \in Device : row[d] = "in"}

TypeOK ==
    /\ row \in [Device -> {"absent", "in", "out"}]
    /\ call \in [Device -> {"none", "login", "logout"}]
    /\ serve \in [Connection -> Phase]
    /\ caller \in [Connection -> Device \cup {NoDevice}]
    /\ hub \in [Connection -> Links]
    /\ asked \in Nat /\ waiting \in BOOLEAN
    /\ list \in [step : ListStep, connected : SUBSET Device, rows : SUBSET Device]
    /\ failures \in 0 .. MaxFailures
    /\ shown \in [Connection -> Lists]
    /\ unread \in BOOLEAN /\ unannounced \subseteq Device

Init ==
    /\ row = [d \in Device |-> IF d \in SignedInFirst THEN "in" ELSE "absent"]
    /\ call = [d \in Device |-> "none"]
    /\ serve = [c \in Connection |-> "unopened"]
    /\ caller = [c \in Connection |-> NoDevice]
    /\ hub = [c \in Connection |-> NoLink]
    /\ asked = 0 /\ waiting = FALSE /\ list = Idle
    /\ failures = 0
    /\ shown = [c \in Connection |-> NoList]
    /\ unread = FALSE /\ unannounced = {}

-----------------------------------------------------------------------------
(***************************************************************************)
(* Devices signing in and out.                                             *)
(***************************************************************************)
\* devices::changed: a task is spawned to send the list.
Changed == asked' = asked + 1

\* login: the write that registers the device commits, while its request waits for it.
LogIn(d) ==
    /\ row[d] = "absent"
    /\ row' = [row EXCEPT ![d] = "in"]
    /\ call' = [call EXCEPT ![d] = "login"]
    /\ UNCHANGED <<unannounced, tasks, hub, turn, failures, history>>

\* The request goes on: the list is asked for and the token answered.
LoggedIn(d) ==
    /\ call[d] = "login"
    /\ call' = [call EXCEPT ![d] = "none"]
    /\ Changed
    /\ UNCHANGED <<row, unannounced, tasks, hub, waiting, list, failures, history>>

\* Its client hung up, which drops the request at its await.
LoginDropped(d) ==
    /\ call[d] = "login"
    /\ call' = [call EXCEPT ![d] = "none"]
    /\ unannounced' = unannounced \cup {d}
    /\ UNCHANGED <<row, tasks, hub, turn, failures, history>>

\* Whether d's client has its token, as every request but login needs.
HasToken(d) == row[d] = "in" /\ call[d] = "none" /\ d \notin unannounced

\* logout, spawned so that a hang-up does not drop it: the delete commits...
LogOut(d) ==
    /\ HasToken(d)
    /\ row' = [row EXCEPT ![d] = "out"]
    /\ call' = [call EXCEPT ![d] = "logout"]
    /\ UNCHANGED <<unannounced, tasks, hub, turn, failures, history>>

\* ...and then the device's connections are told and the list asked for.
LoggedOut(d) ==
    /\ call[d] = "logout"
    /\ call' = [call EXCEPT ![d] = "none"]
    /\ hub' = Revoke(hub, d)
    /\ Changed
    /\ UNCHANGED <<row, unannounced, tasks, waiting, list, failures, history>>

-----------------------------------------------------------------------------
(***************************************************************************)
(* One connection: open and serve.                                         *)
(***************************************************************************)
At(c, phase) == serve[c] = phase

Goes(c, phase) == serve' = [serve EXCEPT ![c] = phase]

\* The gate reads the token's device, and the upgrade begins.  Connections are
\* numbered as they are opened here, as they join in the code.
Open(c, d) ==
    /\ At(c, "unopened") /\ \A b \in 1 .. c - 1 : ~At(b, "unopened")
    /\ HasToken(d)
    /\ Goes(c, "upgrading")
    /\ caller' = [caller EXCEPT ![c] = d]
    /\ UNCHANGED <<devices, hub, turn, failures, history>>

\* Players::connect: counted, with the account's state queued first.
Join(c) ==
    /\ At(c, "upgrading")
    /\ Goes(c, "joined")
    /\ hub' = Send(Connect(hub, c, caller[c]), c)
    /\ UNCHANGED <<devices, caller, turn, failures, history>>

\* Slip: authenticated once is enough.
SlipNotChecked(c) ==
    /\ At(c, "joined")
    /\ Goes(c, "greeting")
    /\ UNCHANGED <<devices, caller, hub, turn, failures, history>>

\* signed_in, read again once joined; a read that fails counts as not.
Check(c) ==
    /\ At(c, "joined")
    /\ \/ /\ Goes(c, IF caller[c] \in SignedIn THEN "greeting" ELSE "ending")
          /\ UNCHANGED failures
       \/ /\ failures < MaxFailures
          /\ failures' = failures + 1
          /\ Goes(c, "ending")
    /\ UNCHANGED <<devices, caller, hub, turn, history>>

\* Hello is sent, and every connection is to learn of this one.
Greet(c) ==
    /\ At(c, "greeting")
    /\ Goes(c, "serving")
    /\ Changed
    /\ UNCHANGED <<devices, caller, hub, waiting, list, failures, history>>

\* presence.next: a message is received and sent.
Deliver(c) ==
    /\ At(c, "serving") /\ hub[c].queued > 0
    /\ hub' = Receive(hub, c)
    /\ UNCHANGED <<devices, tasks, turn, failures, history>>

\* presence.next: the hub let go, and all it had queued was sent.
HubClosed(c) ==
    /\ At(c, "serving") /\ LetGo(hub, c)
    /\ Goes(c, "ending")
    /\ UNCHANGED <<devices, caller, hub, turn, failures, history>>

\* The client closes, goes silent, or a send to it fails or takes too long.
ClientGoes(c) ==
    /\ serve[c] \in {"greeting", "serving"}
    /\ Goes(c, "ending")
    /\ UNCHANGED <<devices, caller, hub, turn, failures, history>>

\* The end of serve: the presence is dropped...
Leave(c) ==
    /\ At(c, "ending") /\ hub[c].device # NoDevice
    /\ hub' = Drop(hub, c)
    /\ caller' = [caller EXCEPT ![c] = NoDevice]
    /\ shown' = [shown EXCEPT ![c] = NoList]
    /\ UNCHANGED <<devices, serve, turn, failures, unread>>

\* ...and once last_seen_at is written, or not, the list is asked for.
Left(c) ==
    /\ At(c, "ending") /\ hub[c].device = NoDevice
    /\ Goes(c, "ended")
    /\ Changed
    /\ UNCHANGED <<devices, caller, hub, waiting, list, failures, history>>

-----------------------------------------------------------------------------
(***************************************************************************)
(* devices::changed, a task for each change.                               *)
(***************************************************************************)
\* Slip: a list that is being read stands for this one as well.
SlipAskTurn ==
    /\ asked > 0
    /\ asked' = asked - 1
    /\ waiting' = (waiting \/ list.step = "none")
    /\ UNCHANGED <<devices, tasks, hub, list, failures, history>>

\* A list that waits for its turn stands for this one too; otherwise this one waits.
AskTurn ==
    /\ asked > 0
    /\ asked' = asked - 1
    /\ waiting' = TRUE
    /\ UNCHANGED <<devices, tasks, hub, list, failures, history>>

\* The turn is the waiting list's: its lock is free.
TakeTurn ==
    /\ waiting /\ list.step = "none"
    /\ list' = [list EXCEPT !.step = "turn"]
    /\ UNCHANGED <<devices, tasks, hub, asked, waiting, failures, history>>

\* From here a change has a list of its own.
ClearWaiting ==
    /\ list.step = "turn"
    /\ waiting' = FALSE
    /\ list' = [list EXCEPT !.step = "fresh"]
    /\ UNCHANGED <<devices, tasks, hub, asked, failures, history>>

ReadConnected ==
    /\ list.step = "fresh"
    /\ list' = IF Counted(hub) = {} THEN Idle
               ELSE [list EXCEPT !.step = "connected", !.connected = ConnectedDevices(hub)]
    /\ UNCHANGED <<devices, tasks, hub, asked, waiting, failures, history>>

ReadRows ==
    /\ list.step = "connected"
    /\ \/ /\ list' = [list EXCEPT !.step = "read", !.rows = SignedIn]
          /\ UNCHANGED <<failures, unread>>
       \/ /\ failures < MaxFailures
          /\ failures' = failures + 1
          /\ list' = Idle
          /\ unread' = TRUE
    /\ UNCHANGED <<devices, tasks, hub, asked, waiting, shown>>

\* The list goes to every connection, and the turn to the next.
SendList ==
    /\ list.step = "read"
    /\ hub' = Broadcast(hub)
    /\ shown' = [c \in Connection |->
                    IF hub'[c].open
                    THEN [rows |-> list.rows, connected |-> list.connected \cap list.rows]
                    ELSE NoList]
    /\ unread' = FALSE
    /\ list' = Idle
    /\ UNCHANGED <<devices, tasks, asked, waiting, failures>>

-----------------------------------------------------------------------------
Next ==
    \/ \E d \in Device : LogIn(d) \/ LoggedIn(d) \/ LoginDropped(d) \/ LogOut(d) \/ LoggedOut(d)
    \/ \E c \in Connection :
        \/ \E d \in Device : Open(c, d)
        \/ Join(c) \/ Check(c) \/ Greet(c) \/ Deliver(c) \/ HubClosed(c)
        \/ ClientGoes(c) \/ Leave(c) \/ Left(c)
    \/ AskTurn \/ TakeTurn \/ ClearWaiting \/ ReadConnected \/ ReadRows \/ SendList

Spec == Init /\ [][Next]_vars

-----------------------------------------------------------------------------
\* Past its check, a connection the hub counts is a device's that is signed in, or
\* whose logout has yet to revoke it: no sign-out falls between the request's
\* authentication, the joining and the revocation (serve, logout).
SignedOutIsClosed ==
    \A c \in Counted(hub) :
        serve[c] \in {"greeting", "serving"} =>
            row[caller[c]] = "in" \/ call[caller[c]] = "logout"

\* The list last queued to c says of d what is so now.
Shows(c, d) ==
    /\ d \in shown[c].rows <=> d \in SignedIn
    /\ d \in shown[c].connected <=> d \in SignedIn \cap ConnectedDevices(hub)

\* No change is still to be sent: no list is wanted or under way, no login or
\* logout is between its commit and its end, and no connection comes or goes.
Quiet ==
    /\ asked = 0 /\ ~waiting /\ list.step = "none"
    /\ \A d \in Device : call[d] = "none"
    /\ \A c \in Connection :
        \/ serve[c] \in {"unopened", "upgrading", "ended"}
        \/ serve[c] = "serving" /\ hub[c].open

\* Once it is quiet, every connection was sent a list that shows every device as it
\* is, however the lists were coalesced, unless the last one could not be read
\* (devices::changed, Hub::device_list_turn).
QuietListsAreCurrent ==
    Quiet /\ ~unread =>
        \A c \in Counted(hub) : \A d \in Device \ unannounced : Shows(c, d)

\* The same of every device, as the comment of devices::changed has it: "Call it
\* once a change is committed: a device signing in or out".  A login whose client
\* hangs up before its commit is answered never calls it (login.rs).
EveryLoginIsShown ==
    Quiet /\ ~unread => \A c \in Counted(hub) : \A d \in Device : Shows(c, d)
=============================================================================
