-------------------------------- MODULE Hub --------------------------------
(***************************************************************************)
(* The hub of crates/server/src/api/realtime/hub.rs, for one account: which*)
(* connections it counts, whose device each is, and the bounded channel it *)
(* sends each one's messages over.  Every operation holds the hub's lock   *)
(* from its first line to its last, so it is one step: an operator from    *)
(* the hub before to the hub after.  Realtime and Players take the steps.  *)
(*                                                                         *)
(* A connection is the number of its opening (Hub::next_id).  Its link     *)
(* outlives the hub's hold on it: what was queued is still to be received. *)
(* Of its outbox only how many messages wait is kept: what the last ones   *)
(* said is kept, where a property is about it, by who sends them.          *)
(***************************************************************************)
EXTENDS Naturals

CONSTANTS
    Device,          \* the account's devices
    MaxConnections,  \* bound: connections opened over a behaviour
    Outbox           \* OUTBOX: messages a connection may have waiting

ASSUME ConnectionsAssumption == MaxConnections \in Nat
ASSUME OutboxAssumption == Outbox \in Nat \ {0}

Connection == 1 .. MaxConnections
NoConnection == 0
NoDevice == "no device"

ASSUME DeviceAssumption == NoDevice \notin Device

\* A connection that was not opened yet, or has ended.
NoLink == [device |-> NoDevice, open |-> FALSE, queued |-> 0]

Links == [device : Device \cup {NoDevice}, open : BOOLEAN, queued : 0 .. Outbox]

Counted(hub) == {c \in Connection : hub[c].open}

ConnectedDevices(hub) == {hub[c].device : c \in Counted(hub)}

\* The connection d opened last, among those it still holds.
Newest(hub, d) ==
    LET held == {c \in Counted(hub) : hub[c].device = d}
    IN  IF held = {} THEN NoConnection
        ELSE CHOOSE c \in held : \A b \in held : b <= c

\* n messages one after the other, each by try_send; the first that finds the outbox
\* full has retain let go of the connection, and the rest do not reach it.
Offer(link, n) ==
    IF link.queued + n <= Outbox
    THEN [link EXCEPT !.queued = @ + n]
    ELSE [link EXCEPT !.queued = Outbox, !.open = FALSE]

Connect(hub, c, d) ==
    [hub EXCEPT ![c] = [device |-> d, open |-> TRUE, queued |-> 0]]

\* n[c] messages to each connection c that is counted.
SendEach(hub, n) ==
    [c \in Connection |-> IF hub[c].open THEN Offer(hub[c], n[c]) ELSE hub[c]]

Broadcast(hub) == SendEach(hub, [c \in Connection |-> 1])

Send(hub, id) == SendEach(hub, [c \in Connection |-> IF c = id THEN 1 ELSE 0])

\* Every connection of d is told, if its outbox has room, and let go of either way.
Revoke(hub, d) ==
    [c \in Connection |->
        IF hub[c].open /\ hub[c].device = d
        THEN [Offer(hub[c], 1) EXCEPT !.open = FALSE]
        ELSE hub[c]]

\* Presence::next, with something queued.
Receive(hub, c) == [hub EXCEPT ![c].queued = @ - 1]

\* Presence::next answers that the hub has let go, once all queued was received.
LetGo(hub, c) == ~hub[c].open /\ hub[c].queued = 0

\* Presence::drop: no longer counted, and what was queued goes with it.
Drop(hub, c) == [hub EXCEPT ![c] = NoLink]
=============================================================================
