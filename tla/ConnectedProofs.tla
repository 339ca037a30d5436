--------------------------- MODULE ConnectedProofs ---------------------------
(***************************************************************************)
(* What holds at the ends of the server's connections, for any devices,    *)
(* connections, outboxes, plugins, hosts, limits and failures.             *)
(*                                                                         *)
(* Realtime: no device that has signed out keeps a connection past its     *)
(* check, and the device lists sent are current once nothing moves.        *)
(* Network: the requests of a scope keep their gap, a pause is kept, and   *)
(* no reply outdated by a change is kept.  The two share nothing.          *)
(***************************************************************************)
EXTENDS Realtime, HubProofs, Network, FiniteSetTheorems

\* A connection the hub counts is its caller's, and its task is between joining and
\* dropping its presence.
Present ==
    \A c \in Connection :
        hub[c].open =>
            /\ serve[c] \in {"joined", "greeting", "serving", "ending"}
            /\ caller[c] \in Device /\ hub[c].device = caller[c]

\* What the steps preserve: a request under way is its device's.
Inductive ==
    /\ TypeOK /\ Present /\ SignedOutIsClosed
    /\ \A c \in Connection : serve[c] = "upgrading" => caller[c] \in Device

-----------------------------------------------------------------------------
(* The types at the start.                                                 *)
LEMMA InductiveInit == Init => Inductive
<1> SUFFICES ASSUME Init PROVE Inductive
  OBVIOUS
<1>1. hub \in [Connection -> Links]
  BY OutboxAssumption DEF Init, NoLink, Links, OutboxAssumption
<1>2. \A c \in Connection : ~hub[c].open /\ serve[c] = "unopened"
  BY DEF Init, NoLink
<1>3. TypeOK
  <2>1. list \in [step : ListStep, connected : SUBSET Device, rows : SUBSET Device]
    BY DEF Init, Idle, ListStep
  <2>2. shown \in [Connection -> Lists]
    BY DEF Init, Lists, NoList
  <2>3. failures \in 0 .. MaxFailures
    BY BoundsAssumption DEF Init, BoundsAssumption
  <2>4. row \in [Device -> {"absent", "in", "out"}]
    BY DEF Init
  <2> QED
    BY <1>1, <2>1, <2>2, <2>3, <2>4 DEF Init, TypeOK, Phase
<1> QED
  BY <1>2, <1>3 DEF Inductive, Present, SignedOutIsClosed, Counted

(* What holds of connections while none of them moves, and the hub lets go *)
(* of some at most (Hub::broadcast, Hub::revoke).                          *)
LEMMA ConnectionsKeep ==
  ASSUME Inductive, UNCHANGED tasks, OnlyCloses(hub', hub)
  PROVE  Present' /\ \A c \in Connection : serve'[c] = "upgrading" => caller'[c] \in Device
  BY DEF Inductive, Present, OnlyCloses, tasks

(* Logins and logouts (login, logout).                                     *)
LEMMA DeviceStep ==
  ASSUME Inductive, NEW d \in Device,
         LogIn(d) \/ LoggedIn(d) \/ LoginDropped(d) \/ LogOut(d) \/ LoggedOut(d)
  PROVE  Inductive'
<1> USE DEF Inductive
<1>1. OnlyCloses(hub', hub)
  <2>1. UNCHANGED hub \/ hub' = Revoke(hub, d)
    BY DEF LogIn, LoggedIn, LoginDropped, LogOut, LoggedOut
  <2>2. UNCHANGED hub => OnlyCloses(hub', hub)
    BY DEF TypeOK, OnlyCloses
  <2> QED
    BY <2>1, <2>2, RevokeCloses DEF TypeOK
<1>2. TypeOK'
  <2>1. hub' \in [Connection -> Links]
    BY <1>1 DEF OnlyCloses
  <2> QED
    BY <2>1 DEF TypeOK, LogIn, LoggedIn, LoginDropped, LogOut, LoggedOut, Changed,
       tasks, turn, history
<1>3. UNCHANGED tasks
  BY DEF LogIn, LoggedIn, LoginDropped, LogOut, LoggedOut, tasks
<1>4. SignedOutIsClosed'
  <2> SUFFICES ASSUME NEW c \in Connection, hub'[c].open, serve'[c] \in {"greeting", "serving"}
               PROVE  row'[caller'[c]] = "in" \/ call'[caller'[c]] = "logout"
    BY DEF SignedOutIsClosed, Counted
  <2>1. /\ hub[c].open /\ caller'[c] = caller[c] /\ caller[c] \in Device
        /\ hub[c].device = caller[c]
        /\ row[caller[c]] = "in" \/ call[caller[c]] = "logout"
    BY <1>1, <1>3 DEF OnlyCloses, tasks, Present, SignedOutIsClosed, Counted
  <2>2. LogIn(d) \/ LoggedIn(d) \/ LoginDropped(d) \/ LogOut(d)
          => row'[caller[c]] = "in" \/ call'[caller[c]] = "logout"
    BY <2>1 DEF LogIn, LoggedIn, LoginDropped, LogOut, TypeOK
  <2>3. CASE LoggedOut(d)
    <3>1. caller[c] # d
      BY <2>1, <2>3, RevokeCloses DEF LoggedOut, TypeOK
    <3> QED
      BY <2>1, <2>3, <3>1 DEF LoggedOut, TypeOK
  <2> QED
    BY <2>1, <2>2, <2>3
<1> QED
  BY <1>1, <1>2, <1>3, <1>4, ConnectionsKeep

(* One connection's task (serve).                                          *)
LEMMA ConnectionStep ==
  ASSUME Inductive, NEW c \in Connection,
         \/ \E d \in Device : Open(c, d)
         \/ Join(c) \/ Check(c) \/ Greet(c) \/ Deliver(c) \/ HubClosed(c)
         \/ ClientGoes(c) \/ Leave(c) \/ Left(c)
  PROVE  Inductive'
<1> USE DEF Inductive, At, Goes
<1>1. CASE \E d \in Device : Open(c, d)
  <2>1. TypeOK'
    BY <1>1 DEF Open, TypeOK, Phase, devices, turn, history
  <2> QED
    BY <1>1, <2>1 DEF Open, TypeOK, Present, SignedOutIsClosed, Counted, devices
<1>2. CASE Join(c)
  <2> DEFINE joined == Connect(hub, c, caller[c])
  <2>1. /\ joined \in [Connection -> Links] /\ joined[c].device = caller[c]
        /\ \A b \in Connection : b # c => joined[b] = hub[b]
    <3>1. caller[c] \in Device /\ hub \in [Connection -> Links]
      BY <1>2 DEF Join, TypeOK
    <3> QED
      BY <3>1, ConnectOpens
  <2>2. OnlyCloses(hub', joined)
    BY <1>2, <2>1, SendOnlyCloses DEF Join
  <2> HIDE DEF joined
  <2>3. TypeOK'
    BY <1>2, <2>2, SMTT(20) DEF Join, OnlyCloses, TypeOK, Phase, devices, turn, history
  <2>4. Present'
    BY <1>2, <2>1, <2>2 DEF Join, OnlyCloses, TypeOK, Present
  <2>5. SignedOutIsClosed'
    BY <1>2, <2>1, <2>2 DEF Join, OnlyCloses, TypeOK, SignedOutIsClosed, Counted, devices
  <2> QED
    BY <1>2, <2>3, <2>4, <2>5 DEF Join, TypeOK
<1>3. CASE Check(c)
  <2>1. TypeOK'
    BY <1>3, BoundsAssumption
       DEF Check, TypeOK, Phase, devices, turn, history, BoundsAssumption
  <2> QED
    BY <1>3, <2>1 DEF Check, TypeOK, Present, SignedOutIsClosed, SignedIn, Counted, devices
<1>4. CASE Greet(c) \/ HubClosed(c) \/ ClientGoes(c)
  <2>1. TypeOK'
    BY <1>4 DEF Greet, HubClosed, ClientGoes, Changed, TypeOK, Phase, devices, turn, history
  <2> QED
    BY <1>4, <2>1
       DEF Greet, HubClosed, ClientGoes, TypeOK, Present, SignedOutIsClosed, Counted, devices
<1>5. CASE Deliver(c)
  <2>1. OnlyCloses(hub', hub)
    BY <1>5, ReceiveOnlyCloses DEF Deliver, TypeOK
  <2>2. TypeOK'
    BY <1>5, <2>1 DEF Deliver, OnlyCloses, TypeOK, devices, tasks, turn, history
  <2>3. SignedOutIsClosed'
    BY <1>5, <2>1 DEF Deliver, OnlyCloses, SignedOutIsClosed, Counted, devices, tasks
  <2> QED
    BY <1>5, <2>1, <2>2, <2>3, ConnectionsKeep DEF Deliver
<1>6. CASE Leave(c)
  <2>1. /\ hub' \in [Connection -> Links] /\ ~hub'[c].open
        /\ \A b \in Connection : b # c => hub'[b] = hub[b]
    BY <1>6, DropCloses DEF Leave, TypeOK
  <2>2. TypeOK'
    BY <1>6, <2>1 DEF Leave, TypeOK, Lists, NoList, devices, turn
  <2> QED
    BY <1>6, <2>1, <2>2 DEF Leave, TypeOK, Present, SignedOutIsClosed, Counted, devices
<1>7. CASE Left(c)
  <2>1. ~hub[c].open
    BY <1>7, DeviceAssumption DEF Left, Present, DeviceAssumption
  <2>2. TypeOK'
    BY <1>7 DEF Left, Changed, TypeOK, Phase, devices, history
  <2> QED
    BY <1>7, <2>1, <2>2 DEF Left, TypeOK, Present, SignedOutIsClosed, Counted, devices
<1> QED
  BY <1>1, <1>2, <1>3, <1>4, <1>5, <1>6, <1>7

(* Device lists (devices::changed).                                        *)
LEMMA ListStepKeeps ==
  ASSUME Inductive,
         AskTurn \/ TakeTurn \/ ClearWaiting \/ ReadConnected \/ ReadRows \/ SendList
  PROVE  Inductive'
<1> USE DEF Inductive
<1>1. OnlyCloses(hub', hub)
  <2>1. UNCHANGED hub \/ hub' = Broadcast(hub)
    BY DEF AskTurn, TakeTurn, ClearWaiting, ReadConnected, ReadRows, SendList
  <2>2. UNCHANGED hub => OnlyCloses(hub', hub)
    BY DEF TypeOK, OnlyCloses
  <2> QED
    BY <2>1, <2>2, BroadcastOnlyCloses DEF TypeOK
<1>2. TypeOK'
  <2>1. CASE AskTurn \/ TakeTurn \/ ClearWaiting
    <3>1. list' \in [step : ListStep, connected : SUBSET Device, rows : SUBSET Device]
      BY <2>1 DEF AskTurn, TakeTurn, ClearWaiting, TypeOK, ListStep
    <3>2. waiting' \in BOOLEAN
      BY <2>1 DEF AskTurn, TakeTurn, ClearWaiting, TypeOK
    <3>3. asked \in Nat /\ (asked' = asked \/ (asked > 0 /\ asked' = asked - 1))
      BY <2>1 DEF AskTurn, TakeTurn, ClearWaiting, TypeOK
    <3>4. asked' \in Nat
      BY <3>3
    <3> QED
      BY <2>1, <3>1, <3>2, <3>4 DEF AskTurn, TakeTurn, ClearWaiting, TypeOK, devices, tasks, history
  <2>2. CASE ReadConnected
    <3>1. ConnectedDevices(hub) \subseteq Device
      BY DEF ConnectedDevices, Counted, Present
    <3>2. list' \in [step : ListStep, connected : SUBSET Device, rows : SUBSET Device]
      BY <2>2, <3>1 DEF ReadConnected, TypeOK, ListStep, Idle
    <3> QED
      BY <2>2, <3>2 DEF ReadConnected, TypeOK, devices, tasks, history
  <2>3. CASE ReadRows
    <3>1. list' \in [step : ListStep, connected : SUBSET Device, rows : SUBSET Device]
      <4>1. /\ SignedIn \in SUBSET Device
            /\ list \in [step : ListStep, connected : SUBSET Device, rows : SUBSET Device]
        BY DEF SignedIn, TypeOK
      <4>2. list' = Idle \/ list' = [list EXCEPT !.step = "read", !.rows = SignedIn]
        BY <2>3 DEF ReadRows
      <4>3. list' = Idle \/ list' = [step |-> "read", connected |-> list.connected, rows |-> SignedIn]
        BY <4>1, <4>2
      <4> QED
        BY <4>1, <4>3 DEF ListStep, Idle
    <3>2. failures' \in 0 .. MaxFailures
      BY <2>3, BoundsAssumption DEF ReadRows, TypeOK, BoundsAssumption
    <3>3. unread' \in BOOLEAN
      BY <2>3 DEF ReadRows, TypeOK
    <3> QED
      BY <2>3, <3>1, <3>2, <3>3 DEF ReadRows, TypeOK, devices, tasks
  <2>4. CASE SendList
    <3>1. list' \in [step : ListStep, connected : SUBSET Device, rows : SUBSET Device]
      BY <2>4 DEF SendList, ListStep, Idle
    <3>2. list.rows \subseteq Device /\ list.connected \subseteq Device
      BY DEF TypeOK
    <3>3. shown' \in [Connection -> Lists]
      BY <2>4, <3>2 DEF SendList, Lists, NoList
    <3> QED
      BY <1>1, <2>4, <3>1, <3>3 DEF SendList, OnlyCloses, TypeOK, devices, tasks
  <2> QED
    BY <2>1, <2>2, <2>3, <2>4
<1>3. UNCHANGED <<devices, tasks>>
  BY DEF AskTurn, TakeTurn, ClearWaiting, ReadConnected, ReadRows, SendList
<1>4. SignedOutIsClosed'
  BY <1>1, <1>3 DEF OnlyCloses, SignedOutIsClosed, Counted, devices, tasks
<1> QED
  BY <1>1, <1>2, <1>3, <1>4, ConnectionsKeep

(* Every step keeps the inductive invariant.                               *)
LEMMA InductiveStep == Inductive /\ [Next]_vars => Inductive'
<1> SUFFICES ASSUME Inductive, [Next]_vars PROVE Inductive'
  OBVIOUS
<1>1. CASE UNCHANGED vars
  BY <1>1 DEF vars, devices, tasks, turn, history, Inductive, TypeOK, Present,
     SignedOutIsClosed, Counted
<1>2. CASE Next
  BY <1>2, DeviceStep, ConnectionStep, ListStepKeeps DEF Next
<1> QED
  BY <1>1, <1>2

(* The types of devices, connections, the hub and the device lists.        *)
THEOREM TypeCorrect == Spec => []TypeOK
<1>1. Inductive => TypeOK
  BY DEF Inductive
<1> QED
  BY <1>1, InductiveInit, InductiveStep, PTL DEF Spec

(* However a logout falls between a request's authentication, its joining  *)
(* the hub and its check, no connection past the check is counted for a    *)
(* device signed out, once its logout has revoked it (serve, logout,       *)
(* Hub::revoke).                                                           *)
THEOREM NoConnectionOfTheSignedOut == Spec => []SignedOutIsClosed
<1>1. Inductive => SignedOutIsClosed
  BY DEF Inductive
<1> QED
  BY <1>1, InductiveInit, InductiveStep, PTL DEF Spec

-----------------------------------------------------------------------------
(***************************************************************************)
(* Device lists: what has changed is shown, or some list is to show it.    *)
(***************************************************************************)
\* A list that has read nothing yet, or a task that is to send one.
Wanted == asked > 0 \/ waiting \/ list.step \in {"turn", "fresh"}

\* A connection comes or goes, and is to ask for a list once it has.
Moving ==
    \E b \in Connection :
        \/ serve[b] \in {"joined", "greeting", "ending"}
        \/ serve[b] = "serving" /\ ~hub[b].open

\* No login or logout of d is to ask for a list, nor was dropped before it did.
Announced(d) == call[d] = "none" /\ d \notin unannounced

\* What the list under way has read is still so; with none, the last one sent is.
Carried ==
    /\ list.step \in {"connected", "read"} => list.connected = ConnectedDevices(hub)
    /\ list.step = "read" =>
        \A d \in Device : Announced(d) => (d \in list.rows <=> d \in SignedIn)
    /\ list.step = "none" /\ ~unread =>
        \A c \in Counted(hub) : \A d \in Device : Announced(d) => Shows(c, d)

ListsFollow == Wanted \/ Moving \/ Carried

(* What was read of connections stays so while none is opened or let go.   *)
LEMMA SameConnected ==
  ASSUME NEW h, NEW g, \A c \in Connection : h[c].open = g[c].open /\ h[c].device = g[c].device
  PROVE  Counted(h) = Counted(g) /\ ConnectedDevices(h) = ConnectedDevices(g)
<1>1. Counted(h) = Counted(g)
  BY DEF Counted
<1> QED
  BY <1>1 DEF ConnectedDevices, Counted

(* A connection let go of while it is served comes to its end, which asks  *)
(* for a list (Hub::retain, serve).                                        *)
LEMMA LetGoIsMoving ==
  ASSUME Inductive, ~Moving, OnlyCloses(hub', hub), UNCHANGED serve
  PROVE  Moving' \/ \A c \in Connection : hub'[c].open = hub[c].open /\ hub'[c].device = hub[c].device
<1> SUFFICES ASSUME ~Moving' PROVE \A c \in Connection : hub'[c].open = hub[c].open
  BY DEF OnlyCloses
<1> SUFFICES ASSUME NEW c \in Connection PROVE hub'[c].open = hub[c].open
  OBVIOUS
<1>1. hub'[c].open \in BOOLEAN /\ hub[c].open \in BOOLEAN /\ (hub'[c].open => hub[c].open)
  BY DEF Inductive, TypeOK, OnlyCloses, Links
<1>2. hub[c].open => serve[c] = "serving"
  BY DEF Inductive, Present, Moving
<1>3. serve'[c] = "serving" => hub'[c].open
  BY DEF Moving
<1> QED
  BY <1>1, <1>2, <1>3

(* Logins and logouts (login, logout).                                     *)
LEMMA DeviceFollows ==
  ASSUME Inductive, ListsFollow, NEW d \in Device,
         LogIn(d) \/ LoggedIn(d) \/ LoginDropped(d) \/ LogOut(d) \/ LoggedOut(d)
  PROVE  ListsFollow'
<1>1. CASE LoggedIn(d) \/ LoggedOut(d)
  BY <1>1 DEF Inductive, TypeOK, LoggedIn, LoggedOut, Changed, ListsFollow, Wanted
<1>2. CASE LogIn(d) \/ LoginDropped(d) \/ LogOut(d)
  <2>1. UNCHANGED <<serve, hub, asked, waiting, list, shown, unread>>
    BY <1>2 DEF LogIn, LoginDropped, LogOut, tasks, turn, history
  <2>2. /\ ~Announced(d)'
        /\ \A e \in Device \ {d} :
              row'[e] = row[e] /\ (Announced(e)' <=> Announced(e))
    BY <1>2 DEF Inductive, TypeOK, LogIn, LoginDropped, LogOut, Announced
  <2>3. \A e \in Device \ {d} : e \in SignedIn' <=> e \in SignedIn
    BY <2>2 DEF SignedIn
  <2>4. Carried => Carried'
    BY <2>1, <2>2, <2>3 DEF Carried, Shows, Counted, ConnectedDevices
  <2> QED
    BY <2>1, <2>4 DEF ListsFollow, Wanted, Moving
<1> QED
  BY <1>1, <1>2

(* One connection's task (serve).                                          *)
LEMMA ConnectionFollows ==
  ASSUME Inductive, ListsFollow, NEW c \in Connection,
         \/ \E d \in Device : Open(c, d)
         \/ Join(c) \/ Check(c) \/ Greet(c) \/ Deliver(c) \/ HubClosed(c)
         \/ ClientGoes(c) \/ Leave(c) \/ Left(c)
  PROVE  ListsFollow'
<1> USE DEF At, Goes
<1>1. CASE Greet(c) \/ Left(c)
  BY <1>1 DEF Inductive, TypeOK, Greet, Left, Changed, ListsFollow, Wanted
<1>2. CASE Join(c) \/ Check(c) \/ HubClosed(c) \/ ClientGoes(c) \/ Leave(c)
  BY <1>2 DEF Inductive, TypeOK, Join, Check, HubClosed, ClientGoes, Leave, ListsFollow, Moving
<1>3. CASE \/ \E d \in Device : Open(c, d)
           \/ Deliver(c)
  <2>1. /\ UNCHANGED <<devices, turn, history>>
        /\ \A b \in Connection : hub'[b].open = hub[b].open /\ hub'[b].device = hub[b].device
        /\ \A b \in Connection : serve'[b] = serve[b] \/ (serve[b] = "unopened" /\ serve'[b] = "upgrading")
    <3>1. CASE \E d \in Device : Open(c, d)
      BY <3>1 DEF Open, Inductive, TypeOK
    <3>2. CASE Deliver(c)
      <4>1. hub' = [hub EXCEPT ![c].queued = @ - 1] /\ hub \in [Connection -> Links]
        BY <3>2 DEF Deliver, Receive, Inductive, TypeOK
      <4>2. \A b \in Connection : hub'[b].open = hub[b].open /\ hub'[b].device = hub[b].device
        BY <4>1 DEF Links
      <4> QED
        BY <3>2, <4>2 DEF Deliver, tasks
    <3> QED
      BY <1>3, <3>1, <3>2
  <2>2. Counted(hub') = Counted(hub) /\ ConnectedDevices(hub') = ConnectedDevices(hub)
    BY <2>1, SameConnected
  <2>3. Moving => Moving'
    BY <2>1 DEF Moving
  <2>4. Carried => Carried'
    BY <2>1, <2>2 DEF devices, turn, history, Carried, Announced, SignedIn, Shows
  <2> QED
    BY <2>1, <2>3, <2>4 DEF ListsFollow, Wanted, turn
<1> QED
  BY <1>1, <1>2, <1>3

(* Device lists (devices::changed).                                        *)
LEMMA ListFollows ==
  ASSUME Inductive, ListsFollow,
         AskTurn \/ TakeTurn \/ ClearWaiting \/ ReadConnected \/ ReadRows \/ SendList
  PROVE  ListsFollow'
<1>1. CASE AskTurn \/ TakeTurn \/ ClearWaiting
  BY <1>1 DEF AskTurn, TakeTurn, ClearWaiting, Inductive, TypeOK, ListsFollow, Wanted
<1>2. CASE ReadConnected
  BY <1>2 DEF ReadConnected, Inductive, TypeOK, Idle, ListsFollow, Carried
<1>3. CASE ReadRows
  <2>1. UNCHANGED <<serve, hub, asked, waiting>> /\ list.step = "connected"
    BY <1>3 DEF ReadRows, tasks
  <2>2. Carried => Carried'
    <3>1. CASE list' = [list EXCEPT !.step = "read", !.rows = SignedIn]
      <4>1. /\ list'.step = "read" /\ list'.rows = SignedIn /\ list'.connected = list.connected
            /\ SignedIn' = SignedIn
        BY <1>3, <3>1 DEF ReadRows, Inductive, TypeOK, devices, SignedIn
      <4> QED
        BY <2>1, <4>1 DEF Carried
    <3>2. CASE list' = Idle /\ unread' = TRUE
      BY <3>2 DEF Carried, Idle
    <3> QED
      BY <1>3, <3>1, <3>2 DEF ReadRows
  <2> QED
    BY <2>1, <2>2 DEF ListsFollow, Wanted, Moving
<1>4. CASE SendList
  <2>1. /\ UNCHANGED <<row, call, unannounced, serve, asked, waiting>>
        /\ list.step = "read" /\ list'.step = "none"
        /\ OnlyCloses(hub', hub)
    BY <1>4, BroadcastOnlyCloses DEF SendList, devices, tasks, Idle, Inductive, TypeOK
  <2>2. Moving => Moving'
    BY <2>1 DEF Moving, OnlyCloses
  <2>3. CASE Carried /\ ~Moving /\ ~Moving'
    <3>1. \A c \in Connection : hub'[c].open = hub[c].open /\ hub'[c].device = hub[c].device
      BY <2>1, <2>3, LetGoIsMoving
    <3>2. ConnectedDevices(hub') = ConnectedDevices(hub)
      BY <3>1, SameConnected
    <3>3. SignedIn' = SignedIn /\ \A d \in Device : Announced(d)' <=> Announced(d)
      BY <2>1 DEF SignedIn, Announced
    <3>4. list.connected = ConnectedDevices(hub)
          /\ \A d \in Device : Announced(d) => (d \in list.rows <=> d \in SignedIn)
      BY <2>1, <2>3 DEF Carried
    <3>5. ASSUME NEW c \in Counted(hub'), NEW d \in Device, Announced(d)' PROVE Shows(c, d)'
      <4>1. shown'[c] = [rows |-> list.rows, connected |-> list.connected \cap list.rows]
        BY <1>4, <3>5 DEF SendList, Counted
      <4> QED
        BY <3>2, <3>3, <3>4, <3>5, <4>1 DEF Shows
    <3> QED
      BY <2>1, <3>5 DEF ListsFollow, Carried
  <2> QED
    BY <2>1, <2>2, <2>3 DEF ListsFollow, Wanted
<1> QED
  BY <1>1, <1>2, <1>3, <1>4

(* Every step keeps what the lists follow.                                 *)
LEMMA ListsFollowStep == Inductive /\ ListsFollow /\ [Next]_vars => ListsFollow'
<1> SUFFICES ASSUME Inductive, ListsFollow, [Next]_vars PROVE ListsFollow'
  OBVIOUS
<1>1. CASE UNCHANGED vars
  BY <1>1 DEF vars, devices, tasks, turn, history, ListsFollow, Wanted, Moving, Carried,
     Announced, SignedIn, Shows, Counted, ConnectedDevices
<1>2. CASE Next
  BY <1>2, DeviceFollows, ConnectionFollows, ListFollows DEF Next
<1> QED
  BY <1>1, <1>2

(* However device lists are coalesced, and whichever connections fall      *)
(* behind, once nothing moves the last list queued to every connection     *)
(* shows every device as it is, but those of logins dropped                *)
(* (devices::changed, Hub::device_list_turn, serve).                       *)
THEOREM QuietListsShowWhatIs == Spec => []QuietListsAreCurrent
<1>1. Init => ListsFollow
  BY DEF Init, NoLink, Idle, ListsFollow, Carried, Counted
<1>2. ListsFollow => QuietListsAreCurrent
  <2> SUFFICES ASSUME ListsFollow, Quiet, ~unread, NEW c \in Counted(hub),
                      NEW d \in Device \ unannounced
               PROVE  Shows(c, d)
    BY DEF QuietListsAreCurrent
  <2>1. ~Wanted /\ ~Moving /\ list.step = "none" /\ Announced(d)
    BY DEF Quiet, Wanted, Moving, Announced
  <2> QED
    BY <2>1 DEF ListsFollow, Carried
<1> QED
  BY <1>1, <1>2, InductiveInit, InductiveStep, ListsFollowStep, PTL DEF Spec

-----------------------------------------------------------------------------
(***************************************************************************)
(* Plugins' requests to services.  A queue's turn never moves back before  *)
(* the clock: when a queue is dropped for being idle its turn has passed,  *)
(* so what was to come a gap after a turn, or after a pause, is past too   *)
(* (Spaced, Holds).                                                        *)
(***************************************************************************)
Kind == [scope : Scope, gap : Nat]

\* Types, and the turns of requests that have been asked for.
LimitTypes ==
    /\ now \in Nat /\ sent \in Nat
    /\ queues \in [Host \X Scope -> [next : Nat, throttled : Nat]]
    /\ held \in [Host \X Scope -> Nat]
    /\ DOMAIN grants = Run
    /\ \A r \in Run : grants[r] \in [DOMAIN grants[r] -> Nat]
    /\ turns \subseteq [id : Nat, queue : Host \X Scope, at : Nat, gap : Nat]
    /\ \A t \in turns : t.id < sent

\* What comes a gap after a turn is past, or not before its queue's next turn.
Spaced == \A t \in turns : t.at + t.gap <= now \/ t.at + t.gap <= queues[t.queue].next

\* A pause is over, or its queue's next turn is not before its end.
Holds == \A q \in Host \X Scope : held[q] <= now \/ held[q] <= queues[q].next

IInv == LimitTypes /\ Spaced /\ Holds /\ EachKeepsItsGap

-----------------------------------------------------------------------------
(* A finite set of numbers has a greatest.                                 *)
LEMMA MaxIsGreatest ==
  ASSUME NEW S \in SUBSET Int, S # {}, IsFiniteSet(S)
  PROVE  Max(S) \in S /\ \A y \in S : y <= Max(S)
<1> DEFINE above(x) == {y \in S : x < y}
           T == {above(x) : x \in S}
<1>1. T \subseteq SUBSET S /\ T # {}
  OBVIOUS
<1>2. T \subseteq FiniteSubsetsOf(S)
  BY <1>1, FS_Subset DEF FiniteSubsetsOf
<1>3. PICK t \in T : \A u \in T : ~(<<u, t>> \in StrictSubsetOrdering(S))
  <2>1. IsWellFoundedOn(StrictSubsetOrdering(S), FiniteSubsetsOf(S))
    BY FS_StrictSubsetOrderingWellFounded
  <2> HIDE DEF T
  <2> QED
    BY <1>1, <1>2, <2>1, WFMin
<1>4. PICK m \in S : t = above(m)
  OBVIOUS
<1>5. ASSUME NEW y \in S, m < y PROVE FALSE
  <2>1. above(y) \in T
    OBVIOUS
  <2>2. \A z \in S : y < z => m < z
    BY <1>5
  <2>3. above(y) \subseteq above(m)
    BY <2>2
  <2>4. y \in above(m) /\ y \notin above(y)
    BY <1>5
  <2> QED
    BY <1>1, <1>3, <1>4, <2>1, <2>3, <2>4 DEF StrictSubsetOrdering
<1>6. \A y \in S : m >= y
  BY <1>5
<1> QED
  BY <1>6 DEF Max

(* Of two numbers.                                                         *)
LEMMA MaxOfTwo ==
  ASSUME NEW a \in Int, NEW b \in Int
  PROVE  Max({a, b}) \in {a, b} /\ a <= Max({a, b}) /\ b <= Max({a, b})
<1>1. IsFiniteSet({a, b})
  <2>1. IsFiniteSet({a}) /\ {a, b} = {a} \cup {b}
    BY FS_Singleton
  <2> QED
    BY <2>1, FS_AddElement
<1> QED
  BY <1>1, MaxIsGreatest

(* The limits in force for a host are finitely many, so one is strictest.  *)
LEMMA StrictestGap ==
  ASSUME NEW h \in Host, Gaps(h) # {}
  PROVE  Max(Gaps(h)) \in Nat
<1> DEFINE Setters == {p \in enabled \cap MayLimit : Declares[p][h].per = "host"}
<1>1. Setters \in SUBSET MayLimit /\ IsFiniteSet(MayLimit)
  BY NetworkAssumptions DEF NetworkAssumptions
<1>2. IsFiniteSet(Setters)
  BY <1>1, FS_Subset
<1>3. Gaps(h) \in SUBSET Nat
  BY <1>1, NetworkAssumptions DEF NetworkAssumptions, Gaps
<1>4. IsFiniteSet(Gaps(h))
  <2> DEFINE f == [p \in Setters |-> Declares[p][h].gap]
  <2>1. f \in Surjection(Setters, Gaps(h))
    BY DEF Surjection, Gaps
  <2> HIDE DEF f, Setters
  <2> QED
    BY <1>2, <2>1, FS_Surjection
<1> QED
  BY <1>3, <1>4, MaxIsGreatest

-----------------------------------------------------------------------------
(* Whose a request is, and how far apart those go (Run::own, Run::queues). *)
LEMMA QueuesOfARequest ==
  ASSUME LimitTypes, NEW r \in Run, NEW h \in Host
  PROVE  /\ OwnQueue(r, h) \in Kind
         /\ Queues(r, h) \subseteq Kind /\ IsFiniteSet(Queues(r, h))
         /\ \A p, q \in Queues(r, h) : p.scope = q.scope => p = q
<1>1. Declares[Plugin[r]][h].gap \in Nat
  BY NetworkAssumptions DEF NetworkAssumptions
<1>2. Bound(r, h) => grants[r][h] \in Nat
  BY DEF Bound, LimitTypes
<1>3. ASSUME Bound(r, h) PROVE Max({Declares[Plugin[r]][h].gap, grants[r][h]}) \in Nat
  <2>1. Declares[Plugin[r]][h].gap \in Int /\ grants[r][h] \in Int
    BY <1>1, <1>2, <1>3
  <2>2. Max({Declares[Plugin[r]][h].gap, grants[r][h]}) \in
            {Declares[Plugin[r]][h].gap, grants[r][h]}
    BY <2>1, MaxOfTwo
  <2> QED
    BY <1>1, <1>2, <1>3, <2>2
<1>4. /\ <<"host">> \in Scope /\ <<"plugin", Plugin[r]>> \in Scope
      /\ <<"user", Plugin[r], User[r]>> \in Scope
  BY DEF Scope
<1>5. OwnQueue(r, h) \in Kind
  BY <1>1, <1>3, <1>4 DEF OwnQueue, Kind
<1> DEFINE wide == [scope |-> <<"host">>, gap |-> grants[r][h]]
<1>6. Bound(r, h) => wide \in Kind
  BY <1>2, <1>4 DEF Kind
<1>7. \/ Queues(r, h) = {OwnQueue(r, h)}
      \/ /\ Bound(r, h) /\ OwnQueue(r, h).scope # wide.scope
         /\ Queues(r, h) = {OwnQueue(r, h)} \cup {wide}
  BY DEF Queues
<1> HIDE DEF wide
<1>8. IsFiniteSet(Queues(r, h))
  <2>1. IsFiniteSet({OwnQueue(r, h)})
    BY FS_Singleton
  <2> QED
    BY <1>7, <2>1, FS_AddElement
<1> QED
  BY <1>5, <1>6, <1>7, <1>8

(* A request goes no earlier than now, nor than the next turn of any queue *)
(* it waits in (Limits::turn).                                             *)
LEMMA TurnIsLatest ==
  ASSUME LimitTypes, NEW r \in Run, NEW h \in Host
  PROVE  /\ TurnOf(r, h) \in Nat /\ now <= TurnOf(r, h)
         /\ \A q \in Queues(r, h) : queues[<<h, q.scope>>].next <= TurnOf(r, h)
<1> DEFINE f == [q \in Queues(r, h) |-> queues[<<h, q.scope>>].next]
           N == {queues[<<h, q.scope>>].next : q \in Queues(r, h)}
<1>1. Queues(r, h) \subseteq Kind /\ IsFiniteSet(Queues(r, h))
  BY QueuesOfARequest
<1>2. N \in SUBSET Nat
  BY <1>1 DEF Kind, LimitTypes
<1>3. IsFiniteSet(N)
  <2>1. f \in Surjection(Queues(r, h), N)
    BY DEF Surjection
  <2> HIDE DEF f, N
  <2> QED
    BY <1>1, <2>1, FS_Surjection
<1>4. \A q \in Queues(r, h) : queues[<<h, q.scope>>].next \in N
  OBVIOUS
<1>5. TurnOf(r, h) = Max(N \cup {now})
  BY DEF TurnOf
<1>6. now \in Nat
  BY DEF LimitTypes
<1>7. TurnOf(r, h) \in N \cup {now} /\ \A n \in N \cup {now} : n <= TurnOf(r, h)
  <2> HIDE DEF f, N
  <2> DEFINE S == N \cup {now}
  <2>1. IsFiniteSet(S)
    BY <1>3, FS_AddElement
  <2>2. S \in SUBSET Int /\ S # {}
    BY <1>2, <1>6
  <2>3. TurnOf(r, h) = Max(S)
    BY <1>5
  <2> HIDE DEF S
  <2>4. Max(S) \in S /\ \A n \in S : n <= Max(S)
    BY <2>1, <2>2, MaxIsGreatest
  <2> QED
    BY <2>3, <2>4 DEF S
<1> HIDE DEF f, N
<1> QED
  BY <1>2, <1>4, <1>6, <1>7

-----------------------------------------------------------------------------
\* No queue's next turn moves back, but for one that has passed.
Advances ==
    /\ now <= now'
    /\ \A q \in Host \X Scope : queues[q].next <= queues'[q].next \/ queues[q].next <= now'

Record == [next : Nat, throttled : Nat]

(* A queue is dropped only when its turn has passed (Queue::idle).         *)
LEMMA DroppedHasPassed ==
  ASSUME LimitTypes, NEW queue \in Record
  PROVE  /\ KeepUnlessIdle(queue) \in Record
         /\ KeepUnlessIdle(queue).next = queue.next \/ queue.next <= now
<1>1. queue.next \in Nat /\ now \in Nat
  BY DEF Record, LimitTypes
<1>2. CASE IsIdle(queue, now)
  <2>1. KeepUnlessIdle(queue) = Unkept /\ queue.next <= now
    BY <1>2 DEF KeepUnlessIdle, IsIdle
  <2> QED
    BY <1>1, <2>1 DEF Unkept, Record
<1>3. CASE ~IsIdle(queue, now)
  BY <1>1, <1>3 DEF KeepUnlessIdle
<1> QED
  BY <1>2, <1>3

(* A turn taken is at its queues' next, and they go on a gap later.        *)
LEMMA TurnTaken ==
  ASSUME LimitTypes, NEW r \in Run, NEW h \in Host, TakesTurn(r, h), now' = now,
         NEW q \in Host \X Scope
  PROVE  /\ queues'[q] \in Record
         /\ queues[q].next <= queues'[q].next \/ queues[q].next <= now
         /\ \A p \in Queues(r, h) : q = <<h, p.scope>> =>
                \/ TurnOf(r, h) + p.gap <= queues'[q].next
                \/ TurnOf(r, h) + p.gap <= now
<1>1. /\ Queues(r, h) \subseteq Kind
      /\ \A p, o \in Queues(r, h) : p.scope = o.scope => p = o
  BY QueuesOfARequest
<1>2. /\ TurnOf(r, h) \in Nat
      /\ \A p \in Queues(r, h) : queues[<<h, p.scope>>].next <= TurnOf(r, h)
  BY TurnIsLatest
<1> DEFINE mine == {p \in Queues(r, h) : <<h, p.scope>> = q}
<1>3. queues[q] \in Record
  BY DEF LimitTypes, Record
<1>4. CASE mine = {}
  BY <1>3, <1>4 DEF TakesTurn, Record
<1>5. CASE mine # {}
  <2>1. PICK p \in Queues(r, h) : mine = {p} /\ q = <<h, p.scope>>
    BY <1>1, <1>5
  <2> DEFINE taken == [queues[q] EXCEPT !.next = TurnOf(r, h) + p.gap]
  <2>2. queues'[q] = KeepUnlessIdle(taken)
    BY <2>1 DEF TakesTurn, NextTurn
  <2>3. taken \in Record /\ taken.next = TurnOf(r, h) + p.gap /\ p.gap \in Nat
    BY <1>1, <1>2, <1>3, <2>1 DEF Record, Kind
  <2>4. queues[q].next <= taken.next
    BY <1>2, <1>3, <2>1, <2>3 DEF Record
  <2> HIDE DEF taken
  <2>5. /\ queues'[q] \in Record
        /\ queues'[q].next = taken.next \/ taken.next <= now
    BY <2>2, <2>3, DroppedHasPassed
  <2>6. /\ queues[q].next \in Nat /\ queues'[q].next \in Nat
        /\ taken.next \in Nat /\ now \in Nat
    BY <1>3, <2>3, <2>5 DEF Record, LimitTypes
  <2>7. queues[q].next <= queues'[q].next \/ queues[q].next <= now
    BY <2>4, <2>5, <2>6
  <2>8. ASSUME NEW o \in Queues(r, h), q = <<h, o.scope>> PROVE o = p
    BY <2>1, <2>8
  <2>9. TurnOf(r, h) + p.gap <= queues'[q].next \/ TurnOf(r, h) + p.gap <= now
    BY <2>3, <2>5, <2>6
  <2> QED
    BY <2>5, <2>7, <2>8, <2>9
<1> QED
  BY <1>4, <1>5

(* Asking takes a turn in each of a request's queues, or is refused.       *)
LEMMA AskKeeps ==
  ASSUME IInv, NEW r \in Run, NEW h \in Asked, Asks(r, h)
  PROVE  IInv'
<1>1. h \in Host
  BY NetworkAssumptions DEF NetworkAssumptions
<1>2. CASE UNCHANGED limits
  BY <1>2 DEF Asks, IInv, LimitTypes, Spaced, Holds, EachKeepsItsGap, limits
<1>3. CASE TakesTurn(r, h)
  <2> DEFINE Taken == {[id |-> sent, queue |-> <<h, q.scope>>, at |-> TurnOf(r, h), gap |-> q.gap] :
                            q \in Queues(r, h)}
  <2>1. /\ sent' = sent + 1 /\ now' = now /\ grants' = grants /\ held' = held
        /\ turns' = turns \cup Taken
    BY <1>3 DEF Asks, TakesTurn
  <2>2. /\ Queues(r, h) \subseteq Kind
        /\ \A p, o \in Queues(r, h) : p.scope = o.scope => p = o
    BY <1>1, QueuesOfARequest DEF IInv
  <2>3. /\ TurnOf(r, h) \in Nat /\ now <= TurnOf(r, h)
        /\ \A q \in Queues(r, h) : queues[<<h, q.scope>>].next <= TurnOf(r, h)
    BY <1>1, TurnIsLatest DEF IInv
  <2>4. \A q \in Host \X Scope :
          /\ queues'[q] \in Record
          /\ queues[q].next <= queues'[q].next \/ queues[q].next <= now
          /\ \A p \in Queues(r, h) : q = <<h, p.scope>> =>
                \/ TurnOf(r, h) + p.gap <= queues'[q].next
                \/ TurnOf(r, h) + p.gap <= now
    BY <1>1, <1>3, <2>1, TurnTaken DEF IInv
  <2>5. \A t \in Taken :
          /\ t \in [id : Nat, queue : Host \X Scope, at : Nat, gap : Nat]
          /\ t.id = sent /\ t.at = TurnOf(r, h) /\ queues[t.queue].next <= t.at
          /\ t.at + t.gap <= queues'[t.queue].next \/ t.at + t.gap <= now
    BY <1>1, <2>2, <2>3, <2>4 DEF Kind, IInv, LimitTypes
  <2>6. \A a, b \in Taken : a.queue = b.queue => a = b
    BY <2>2
  <2> HIDE DEF Taken
  <2>7. LimitTypes'
    <3>1. queues' = [q \in Host \X Scope |-> queues'[q]]
      BY <1>3 DEF TakesTurn
    <3>2. queues' \in [Host \X Scope -> [next : Nat, throttled : Nat]]
      BY <2>4, <3>1 DEF Record
    <3> QED
      BY <2>1, <2>5, <3>2 DEF IInv, LimitTypes
  <2>8. Spaced'
    <3>1. ASSUME NEW t \in turns
          PROVE  t.at + t.gap <= now \/ t.at + t.gap <= queues'[t.queue].next
      BY <2>4, <3>1 DEF IInv, LimitTypes, Spaced, Record
    <3> QED
      BY <2>1, <2>5, <3>1 DEF Spaced
  <2>9. Holds'
    BY <2>1, <2>4 DEF IInv, LimitTypes, Holds, Record
  <2>10. EachKeepsItsGap'
    <3>1. ASSUME NEW a \in turns, NEW b \in Taken, a.queue = b.queue
          PROVE  a.at + a.gap <= b.at /\ a.id < b.id /\ a.at \in Nat /\ a.gap \in Nat /\ b.at \in Nat
      BY <2>1, <2>3, <2>5, <3>1 DEF IInv, LimitTypes, Spaced
    <3>2. ASSUME NEW a \in turns', NEW b \in turns', a.queue = b.queue, a # b, a.at <= b.at,
                 a.at = b.at => a.id < b.id
          PROVE  b.at >= a.at + a.gap
      <4>1. CASE a \in turns /\ b \in turns
        BY <3>2, <4>1 DEF IInv, EachKeepsItsGap
      <4>2. CASE a \in turns /\ b \in Taken
        BY <3>1, <3>2, <4>2
      <4>3. CASE a \in Taken /\ b \in turns
        <5>1. b.at <= a.at /\ b.id < a.id /\ a.at \in Nat /\ b.at \in Nat /\ b.id \in Nat /\ a.id \in Nat
          BY <2>5, <3>1, <3>2, <4>3 DEF IInv, LimitTypes
        <5> QED
          BY <3>2, <5>1
      <4>4. CASE a \in Taken /\ b \in Taken
        BY <2>6, <3>2, <4>4
      <4> QED
        BY <2>1, <4>1, <4>2, <4>3, <4>4
    <3> QED
      BY <3>2 DEF EachKeepsItsGap
  <2> QED
    BY <2>7, <2>8, <2>9, <2>10 DEF IInv
<1> QED
  BY <1>2, <1>3 DEF Asks

-----------------------------------------------------------------------------
(* An answer that is no throttle ends a run of them, and moves no turn     *)
(* back that has not passed (Limits::answered).                            *)
LEMMA EndedAdvances ==
  ASSUME LimitTypes, NEW qs, Ends(qs), now' = now
  PROVE  queues' \in [Host \X Scope -> Record] /\ Advances
<1>1. ASSUME NEW q \in Host \X Scope
      PROVE  /\ queues'[q] \in Record
             /\ queues'[q].next = queues[q].next \/ queues[q].next <= now
  <2> DEFINE ended == [queues[q] EXCEPT !.throttled = 0]
  <2>1. queues[q] \in Record /\ ended \in Record /\ ended.next = queues[q].next
    BY DEF LimitTypes, Record
  <2>2. queues'[q] = IF q \in qs THEN KeepUnlessIdle(ended) ELSE queues[q]
    BY DEF Ends
  <2> HIDE DEF ended
  <2> QED
    BY <2>1, <2>2, DroppedHasPassed
<1>2. queues' = [q \in Host \X Scope |-> queues'[q]]
  BY DEF Ends
<1> QED
  BY <1>1, <1>2 DEF Advances, LimitTypes, Record

(* A throttle moves the next turn of each queue it pauses to where the     *)
(* pause ends, or later (Limits::answered).                                *)
LEMMA ThrottledAdvances ==
  ASSUME LimitTypes, NEW qs, NEW wait, NEW pause, Throttles(qs, wait, pause), now' = now,
         \A q \in qs : pause[q[1]] \in Nat
  PROVE  /\ queues' \in [Host \X Scope -> Record] /\ Advances
         /\ \A q \in qs \cap (Host \X Scope) : now + pause[q[1]] <= queues'[q].next
<1>1. ASSUME NEW q \in Host \X Scope
      PROVE  /\ queues'[q] \in Record
             /\ queues[q].next <= queues'[q].next \/ queues[q].next <= now
             /\ q \in qs => now + pause[q[1]] <= queues'[q].next
  <2> DEFINE swept == KeepUnlessIdle(queues[q])
  <2>1. /\ queues[q] \in Record /\ swept \in Record /\ now \in Nat
        /\ swept.next = queues[q].next \/ queues[q].next <= now
    BY DroppedHasPassed DEF LimitTypes, Record
  <2>2. CASE q \notin qs
    <3>1. queues'[q] = swept
      BY <2>2 DEF Throttles
    <3> QED
      BY <2>1, <2>2, <3>1 DEF Record
  <2>3. CASE q \in qs
    <3> DEFINE end == now + pause[q[1]]
               next == swept.next
               count == swept.throttled + 1
    <3>1. queues'[q] = [next |-> Max({next, end}), throttled |-> count]
      BY <2>3 DEF Throttles
    <3>2. next \in Nat /\ count \in Nat /\ end \in Nat
      BY <2>1, <2>3 DEF Record
    <3>3. next = queues[q].next \/ queues[q].next <= now
      BY <2>1
    <3>4. q \in qs => now + pause[q[1]] = end
      OBVIOUS
    <3> HIDE DEF end, next, count
    <3>5. next \in Int /\ end \in Int
      BY <3>2
    <3>6. Max({next, end}) \in {next, end} /\ next <= Max({next, end}) /\ end <= Max({next, end})
      BY <3>5, MaxOfTwo
    <3>7. queues'[q] \in Record /\ next <= queues'[q].next /\ end <= queues'[q].next
      BY <3>1, <3>2, <3>6 DEF Record
    <3> QED
      BY <2>1, <3>3, <3>4, <3>7 DEF Record
  <2> QED
    BY <2>2, <2>3
<1>2. queues' = [q \in Host \X Scope |-> queues'[q]]
  BY DEF Throttles
<1>3. queues' \in [Host \X Scope -> Record]
  BY <1>1, <1>2
<1>4. Advances
  BY <1>1 DEF Advances, LimitTypes
<1> QED
  BY <1>1, <1>3, <1>4

(* What takes no turn and moves none back keeps the invariant, if what it  *)
(* holds is held.                                                          *)
LEMMA AdvanceKeeps ==
  ASSUME IInv, Advances, now' \in Nat, queues' \in [Host \X Scope -> Record], turns' = turns,
         sent' = sent, held' \in [Host \X Scope -> Nat],
         \A q \in Host \X Scope : held'[q] = held[q] \/ held'[q] <= queues'[q].next,
         DOMAIN grants' = Run, \A r \in Run : grants'[r] \in [DOMAIN grants'[r] -> Nat]
  PROVE  IInv'
<1>1. LimitTypes'
  BY DEF IInv, LimitTypes, Record
<1>2. Spaced'
  BY <1>1 DEF IInv, LimitTypes, Spaced, Advances
<1>3. Holds'
  BY <1>1 DEF IInv, LimitTypes, Holds, Advances
<1>4. EachKeepsItsGap'
  BY DEF IInv, EachKeepsItsGap
<1> QED
  BY <1>1, <1>2, <1>3, <1>4 DEF IInv

(* A reply pauses the scope of its request where it came from and set out, *)
(* or ends a run of pauses (Host::send).                                   *)
LEMMA ReplyKeeps ==
  ASSUME IInv, NEW r \in Run, Replies(r)
  PROVE  IInv'
<1> DEFINE reply == requests[r]
<1>1. /\ now' = now /\ turns' = turns /\ sent' = sent /\ grants' = grants
      /\ Paused(r, reply) /\ LimitTypes
  BY DEF Replies, IInv
<1>2. CASE reply.status # "throttled"
  <2>1. queues' \in [Host \X Scope -> Record] /\ Advances /\ held' = held
    BY <1>1, <1>2, EndedAdvances DEF Paused
  <2> QED
    BY <1>1, <2>1, AdvanceKeeps DEF LimitTypes
<1>3. CASE reply.status = "throttled"
  <2> DEFINE qs == {<<h, OwnQueue(r, h).scope>> : h \in ThrottledAt(reply)}
  <2>1. PICK wait \in Pause \cup {0}, pause \in [{reply.led, reply.host} -> 0 .. MaxPause] :
          /\ Throttles(qs, wait, pause)
          /\ held' = [q \in Host \X Scope |->
                IF q[1] \in DOMAIN pause /\ q[2] = OwnQueue(r, q[1]).scope
                THEN Max({held[q], now + pause[q[1]]}) ELSE held[q]]
    BY <1>1, <1>3 DEF Paused
  <2>2. \A q \in qs : pause[q[1]] \in Nat /\ q[1] \in DOMAIN pause
    BY <2>1, NetworkAssumptions DEF ThrottledAt, NetworkAssumptions
  <2>3. ASSUME NEW q \in Host \X Scope, q[1] \in DOMAIN pause, q[2] = OwnQueue(r, q[1]).scope
        PROVE  q \in qs
    <3>1. q[1] \in ThrottledAt(reply) /\ q = <<q[1], q[2]>>
      BY <2>1, <2>3 DEF ThrottledAt
    <3> QED
      BY <2>3, <3>1
  <2> HIDE DEF qs
  <2>4. /\ queues' \in [Host \X Scope -> Record] /\ Advances
        /\ \A q \in qs \cap (Host \X Scope) : now + pause[q[1]] <= queues'[q].next
    BY <1>1, <2>1, <2>2, ThrottledAdvances
  <2>5. ASSUME NEW q \in Host \X Scope
        PROVE  held'[q] \in Nat /\ (held'[q] = held[q] \/ held'[q] <= queues'[q].next)
    <3>1. held[q] \in Nat /\ now \in Nat
      BY <1>1 DEF LimitTypes
    <3>2. CASE ~(q[1] \in DOMAIN pause /\ q[2] = OwnQueue(r, q[1]).scope)
      BY <2>1, <3>1, <3>2
    <3>3. CASE q[1] \in DOMAIN pause /\ q[2] = OwnQueue(r, q[1]).scope
      <4> DEFINE end == now + pause[q[1]]
                 before == held[q]
      <4>1. held'[q] = Max({before, end})
        BY <2>1, <3>3
      <4>2. before \in Nat /\ end \in Nat /\ before = held[q] /\ end <= queues'[q].next
        BY <2>2, <2>3, <2>4, <3>1, <3>3
      <4> HIDE DEF end, before
      <4>3. before \in Int /\ end \in Int
        BY <4>2
      <4>4. Max({before, end}) \in {before, end}
        BY <4>3, MaxOfTwo
      <4> QED
        BY <4>1, <4>2, <4>4
    <3> QED
      BY <3>2, <3>3
  <2>6. held' \in [Host \X Scope -> Nat]
    BY <2>1, <2>5
  <2> QED
    BY <1>1, <2>4, <2>5, <2>6, AdvanceKeeps DEF LimitTypes
<1> QED
  BY <1>2, <1>3

(* The invariant holds at the start.                                       *)
LEMMA IInvInit == NetworkInit => IInv
<1> SUFFICES ASSUME NetworkInit PROVE IInv
  OBVIOUS
<1>1. LimitTypes
  BY DEF NetworkInit, LimitTypes, Unkept
<1> QED
  BY <1>1 DEF NetworkInit, IInv, Spaced, Holds, EachKeepsItsGap

(* Every step keeps the invariant.                                         *)
LEMMA IInvStep == IInv /\ [NetworkNext]_networkVars => IInv'
<1> SUFFICES ASSUME IInv, [NetworkNext]_networkVars PROVE IInv'
  OBVIOUS
<1>1. LimitTypes
  BY DEF IInv
<1>2. ASSUME UNCHANGED limits, sent' = sent, now' \in Nat, now <= now',
             DOMAIN grants' = Run, \A r \in Run : grants'[r] \in [DOMAIN grants'[r] -> Nat]
      PROVE  IInv'
  <2>1. queues' = queues /\ held' = held /\ turns' = turns
    BY <1>2 DEF limits
  <2>2. Advances
    BY <1>1, <1>2, <2>1 DEF Advances, LimitTypes
  <2> QED
    BY <1>1, <1>2, <2>1, <2>2, AdvanceKeeps DEF LimitTypes, Record
<1>3. ASSUME NEW r \in Run, Starts(r) PROVE IInv'
  <2> DEFINE kept == [h \in Binding(r) |-> Max(Gaps(h))]
  <2>1. kept \in [Binding(r) -> Nat]
    <3>1. \A h \in Binding(r) : Max(Gaps(h)) \in Nat
      BY StrictestGap DEF Binding
    <3> QED
      BY <3>1
  <2>2. grants' = [grants EXCEPT ![r] = kept]
    BY <1>3 DEF Starts
  <2> HIDE DEF kept
  <2>3. DOMAIN grants' = Run /\ \A i \in Run : grants'[i] \in [DOMAIN grants'[i] -> Nat]
    BY <1>1, <2>1, <2>2 DEF LimitTypes
  <2> QED
    BY <1>1, <1>2, <1>3, <2>3 DEF Starts, LimitTypes
<1>4. ASSUME NEW r \in Run, Sends(r) \/ Serves(r) \/ NoReply(r) PROVE IInv'
  BY <1>1, <1>2, <1>4 DEF Sends, Serves, NoReply, LimitTypes
<1>5. ASSUME NEW r \in Run, NEW h \in Asked, Reuses(r, h) PROVE IInv'
  BY <1>1, <1>2, <1>5 DEF Reuses, LimitTypes
<1>6. ASSUME NEW p \in MayLimit, Enables(p) PROVE IInv'
  BY <1>1, <1>2, <1>6 DEF Enables, LimitTypes
<1>7. CASE Tick
  BY <1>1, <1>2, <1>7 DEF Tick, LimitTypes
<1>8. CASE UNCHANGED networkVars
  BY <1>1, <1>2, <1>8 DEF networkVars, LimitTypes
<1> QED
  BY <1>3, <1>4, <1>5, <1>6, <1>7, <1>8, AskKeeps, ReplyKeeps DEF NetworkNext

(* What the limits count and remember, for any runs, hosts and limits.     *)
THEOREM LimitsInvariant == NetworkSpec => []IInv
<1> QED
  BY IInvInit, IInvStep, PTL DEF NetworkSpec

(* Two requests of a scope at a host keep its gap, whatever other queues   *)
(* each waits in and whichever limits come and go (Limits::turn).          *)
THEOREM ScopesKeepTheirGaps == NetworkSpec => []EachKeepsItsGap
<1>1. IInv => EachKeepsItsGap
  BY DEF IInv
<1> QED
  BY <1>1, LimitsInvariant, PTL

(* No turn is taken within a pause of its scope (Limits::answered).        *)
THEOREM PausesAreKept == NetworkSpec => APauseIsKept
<1>1. IInv /\ [NetworkNext]_networkVars =>
        [\A t \in turns' \ turns : t.at >= held[t.queue]]_networkVars
  <2> SUFFICES ASSUME IInv, NetworkNext, NEW t \in turns' \ turns
               PROVE  t.at >= held[t.queue]
    OBVIOUS
  <2>1. PICK r \in Run, h \in Asked : TakesTurn(r, h)
    BY DEF NetworkNext, Starts, Sends, Serves, NoReply, Replies, Reuses, Asks, Enables, Tick, limits
  <2>2. h \in Host
    BY NetworkAssumptions DEF NetworkAssumptions
  <2>3. PICK q \in Queues(r, h) : t.queue = <<h, q.scope>> /\ t.at = TurnOf(r, h)
    BY <2>1 DEF TakesTurn
  <2>4. q \in Kind
    BY <2>2, QueuesOfARequest DEF IInv
  <2>5. /\ TurnOf(r, h) \in Nat /\ now <= TurnOf(r, h)
        /\ queues[t.queue].next <= TurnOf(r, h)
    BY <2>2, <2>3, TurnIsLatest DEF IInv
  <2>6. t.queue \in Host \X Scope
    BY <2>2, <2>3, <2>4 DEF Kind
  <2> QED
    BY <2>3, <2>5, <2>6 DEF IInv, LimitTypes, Holds
<1> QED
  BY <1>1, LimitsInvariant, PTL DEF NetworkSpec, APauseIsKept

-----------------------------------------------------------------------------
(* The replies kept.                                                       *)
Entry == [key : Key, version : Nat, until : Nat, checks : BOOLEAN, kept : Nat, since : SUBSET Key]

Asking == [step : {"waiting", "sent"}, host : Asked, at : Nat, stale : SUBSET Nat]
Served == [step : {"served"}, host : Asked, stale : SUBSET Nat,
           status : {"ok", "same", "throttled", "failed"}, led : Host, version : Nat]

CacheTypes ==
    /\ requests \in [Run -> {NoRequest} \cup Asking \cup Served]
    /\ cache \subseteq Entry
    /\ content \in [Host -> Nat] /\ outdated \in [Host -> Nat]

\* The same reply, whenever it was used.
Alike(e, o) == e.key = o.key /\ e.version = o.version /\ e.kept = o.kept

(* Recording use changes no reply (Inner::touch, Inner::remove).           *)
LEMMA OrderAlike ==
  ASSUME NEW S \in SUBSET Entry
  PROVE  InOrder(S) \subseteq Entry /\ \A e \in InOrder(S) : \E o \in S : Alike(e, o)
<1> SUFFICES ASSUME NEW e \in InOrder(S)
             PROVE  e \in Entry /\ \E o \in S : Alike(e, o)
  OBVIOUS
<1>1. PICK o \in S : e = [o EXCEPT !.since = @ \cap {x.key : x \in S}]
  BY DEF InOrder
<1>2. o \in Entry /\ o.since \cap {x.key : x \in S} \in SUBSET Key
  BY DEF Entry
<1> QED
  BY <1>1, <1>2 DEF Entry, Alike

LEMMA BesidesAlike ==
  ASSUME cache \subseteq Entry, NEW key
  PROVE  Besides(key) \subseteq Entry /\ \A e \in Besides(key) : \E o \in cache : Alike(e, o)
  BY OrderAlike DEF Besides

LEMMA UsedAlike ==
  ASSUME cache \subseteq Entry, NEW entry \in Entry
  PROVE  /\ Used(entry) \subseteq Entry
         /\ \A e \in Used(entry) : Alike(e, entry) \/ \E o \in cache : Alike(e, o)
<1> SUFFICES ASSUME NEW e \in Used(entry)
             PROVE  e \in Entry /\ (Alike(e, entry) \/ \E o \in cache : Alike(e, o))
  OBVIOUS
<1>1. CASE e = [entry EXCEPT !.since = {}]
  BY <1>1 DEF Entry, Alike
<1>2. CASE e # [entry EXCEPT !.since = {}]
  <2>1. PICK b \in Besides(entry.key) : e = [b EXCEPT !.since = @ \cup {entry.key}]
    BY <1>2 DEF Used
  <2>2. b \in Entry /\ \E o \in cache : Alike(b, o)
    BY BesidesAlike
  <2>3. b.since \cup {entry.key} \in SUBSET Key
    BY <2>2 DEF Entry
  <2>4. e \in Entry /\ Alike(e, b)
    BY <2>1, <2>2, <2>3 DEF Entry, Alike
  <2> QED
    BY <2>2, <2>4 DEF Alike
<1> QED
  BY <1>1, <1>2

(* A reply is stored with the last change to its URL that was answered.    *)
LEMMA StoredAlike ==
  ASSUME LimitTypes, CacheTypes, NEW key \in Key, NEW version \in Nat, NEW life \in Life,
         NEW checks \in BOOLEAN
  PROVE  /\ Stored(key, version, life, checks) \subseteq Entry
         /\ \A e \in Stored(key, version, life, checks) :
                \/ e.key = key /\ e.kept = outdated[key[2]]
                \/ \E o \in cache : Alike(e, o)
<1> DEFINE entry == [key |-> key, version |-> version, until |-> now + life, checks |-> checks,
                     kept |-> outdated[key[2]], since |-> {}]
           kept == Used(entry)
<1>1. entry \in Entry
  <2>1. key[2] \in Host /\ now + life \in Nat
    BY NetworkAssumptions DEF Key, NetworkAssumptions, LimitTypes
  <2> QED
    BY <2>1 DEF CacheTypes, Entry
<1>2. entry.key = key /\ entry.kept = outdated[key[2]]
  OBVIOUS
<1>3. /\ Stored(key, version, life, checks) \in
            {Besides(key), kept, InOrder(kept \ LeastUsed(kept))}
      /\ cache \subseteq Entry
  BY DEF Stored, CacheTypes
<1> HIDE DEF entry
<1>4. /\ kept \subseteq Entry
      /\ \A e \in kept : Alike(e, entry) \/ \E o \in cache : Alike(e, o)
  BY <1>1, <1>3, UsedAlike
<1> HIDE DEF kept
<1>5. /\ InOrder(kept \ LeastUsed(kept)) \subseteq Entry
      /\ \A e \in InOrder(kept \ LeastUsed(kept)) : \E o \in kept : Alike(e, o)
  BY <1>4, OrderAlike
<1>6. /\ Besides(key) \subseteq Entry
      /\ \A e \in Besides(key) : \E o \in cache : Alike(e, o)
  BY <1>3, BesidesAlike
<1> DEFINE Known(e) == \/ e.key = key /\ e.kept = outdated[key[2]]
                       \/ \E o \in cache : Alike(e, o)
<1>7. \A e \in kept : Known(e)
  BY <1>2, <1>4 DEF Alike
<1>8. ASSUME NEW e \in InOrder(kept \ LeastUsed(kept)) PROVE Known(e)
  <2>1. PICK o \in kept : Alike(e, o)
    BY <1>5
  <2>2. Known(o)
    BY <1>7
  <2> QED
    BY <2>1, <2>2 DEF Alike
<1>9. \A e \in Besides(key) : Known(e)
  BY <1>6
<1> HIDE DEF Known
<1>10. \A e \in Stored(key, version, life, checks) : e \in Entry /\ Known(e)
  BY <1>3, <1>4, <1>5, <1>6, <1>7, <1>8, <1>9
<1> QED
  BY <1>10 DEF Known

-----------------------------------------------------------------------------
\* No reply is kept that a change outdated, unless it was fetched since.
Current(e) == e.version < outdated[e.key[2]] => e.kept = outdated[e.key[2]]

Forgotten == CacheTypes /\ WhatAChangeOutdatesIsForgotten

(* What is known to have been kept is current while no change is answered. *)
LEMMA AlikeIsCurrent ==
  ASSUME Forgotten, NEW e, \E o \in cache : Alike(e, o)
  PROVE  Current(e)
  BY DEF Forgotten, WhatAChangeOutdatesIsForgotten, Alike, Current

(* A step that answers no change keeps what it says, if it only uses, or   *)
(* stores, replies.                                                        *)
LEMMA StaysCurrent ==
  ASSUME Forgotten, outdated' = outdated, cache' \subseteq Entry,
         \A e \in cache' : Current(e),
         requests' \in [Run -> {NoRequest} \cup Asking \cup Served], content' \in [Host -> Nat]
  PROVE  Forgotten'
<1>1. CacheTypes'
  BY DEF Forgotten, CacheTypes
<1>2. WhatAChangeOutdatesIsForgotten'
  BY DEF WhatAChangeOutdatesIsForgotten, Current
<1> QED
  BY <1>1, <1>2 DEF Forgotten

(* A request that is answered is done with.                                *)
LEMMA RequestDone ==
  ASSUME CacheTypes, NEW r \in Run, requests' = [requests EXCEPT ![r] = NoRequest]
  PROVE  requests' \in [Run -> {NoRequest} \cup Asking \cup Served]
  BY DEF CacheTypes

(* The step of a reply: it is stored as of now, or what a change outdates  *)
(* goes (Host::send, Cache::invalidate).                                   *)
LEMMA RepliesCurrent ==
  ASSUME LimitTypes, Forgotten, NEW r \in Run, Replies(r)
  PROVE  Forgotten'
<1> DEFINE reply == requests[r]
           key   == <<Visible[r], reply.host>>
<1>1. reply \in Served /\ content' = content
  BY DEF Replies, Forgotten, CacheTypes, NoRequest, Asking, Served
<1>2. /\ reply.host \in Asked /\ reply.host \in Host /\ key \in Key /\ reply.version \in Nat
      /\ key[2] = reply.host
  BY <1>1, NetworkAssumptions DEF NetworkAssumptions, Served, Key
<1>3. /\ requests' \in [Run -> {NoRequest} \cup Asking \cup Served]
      /\ content' \in [Host -> Nat]
  BY <1>1, RequestDone DEF Replies, Forgotten, CacheTypes
<1>4. CASE r \in Changing /\ reply.status = "ok"
  <2> DEFINE h == reply.host
             made == Max({outdated[h], reply.version})
  <2>1. /\ cache' = InOrder({e \in cache : e.key[2] # h})
        /\ outdated' = [outdated EXCEPT ![h] = made]
    BY <1>4 DEF Replies, Forgets
  <2>2. made \in Nat
    <3> DEFINE o == outdated[h]
               v == reply.version
    <3>1. o \in Int /\ v \in Int /\ o \in Nat /\ v \in Nat
      BY <1>2 DEF Forgotten, CacheTypes
    <3> HIDE DEF o, v
    <3>2. Max({o, v}) \in {o, v}
      BY <3>1, MaxOfTwo
    <3> QED
      BY <3>1, <3>2 DEF o, v
  <2> HIDE DEF made
  <2>3. /\ cache' \subseteq Entry
        /\ \A e \in cache' : \E o \in cache : Alike(e, o) /\ o.key[2] # h
    BY <2>1, OrderAlike DEF Forgotten, CacheTypes
  <2>4. CacheTypes'
    BY <1>2, <1>3, <2>1, <2>2, <2>3 DEF Forgotten, CacheTypes
  <2>5. ASSUME NEW e \in cache' PROVE Current(e)'
    <3>1. PICK o \in cache : Alike(e, o) /\ o.key[2] # h
      BY <2>3
    <3>2. e.key[2] \in Host /\ e.key[2] # h
      BY <2>3, <3>1, NetworkAssumptions DEF NetworkAssumptions, Alike, Entry, Key
    <3>3. outdated'[e.key[2]] = outdated[e.key[2]]
      BY <2>1, <3>2 DEF Forgotten, CacheTypes
    <3>4. Current(e)
      BY <3>1, AlikeIsCurrent
    <3> QED
      BY <3>3, <3>4 DEF Current
  <2> QED
    BY <2>4, <2>5 DEF Forgotten, WhatAChangeOutdatesIsForgotten, Current
<1>5. CASE ~(r \in Changing /\ reply.status = "ok")
  <2>1. /\ outdated' = outdated
        /\ \/ UNCHANGED cache
           \/ \E life \in Life, checks \in BOOLEAN :
                cache' = Stored(key, reply.version, life, checks)
    BY <1>5 DEF Replies
  <2>2. CASE UNCHANGED cache
    <3>1. \A e \in cache' : Current(e)
      BY <2>2 DEF Forgotten, WhatAChangeOutdatesIsForgotten, Current
    <3> QED
      BY <1>3, <2>1, <2>2, <3>1, StaysCurrent DEF Forgotten, CacheTypes
  <2>3. ASSUME NEW life \in Life, NEW checks \in BOOLEAN,
               cache' = Stored(key, reply.version, life, checks)
        PROVE  Forgotten'
    <3>1. /\ cache' \subseteq Entry
          /\ \A e \in cache' : \/ e.key = key /\ e.kept = outdated[key[2]]
                               \/ \E o \in cache : Alike(e, o)
      BY <1>2, <2>3, StoredAlike DEF Forgotten
    <3>2. \A e \in cache' : Current(e)
      BY <3>1, AlikeIsCurrent DEF Current
    <3> QED
      BY <1>3, <2>1, <3>1, <3>2, StaysCurrent
  <2> QED
    BY <2>1, <2>2, <2>3
<1> QED
  BY <1>4, <1>5

(* Every step keeps the replies current.                                   *)
LEMMA ForgottenStep ==
  ASSUME LimitTypes, Forgotten, [NetworkNext]_networkVars
  PROVE  Forgotten'
<1>1. /\ CacheTypes /\ cache \subseteq Entry
      /\ \A e \in cache : Current(e)
  BY DEF Forgotten, CacheTypes, WhatAChangeOutdatesIsForgotten, Current
<1>2. ASSUME UNCHANGED <<cache, outdated>>, content' \in [Host -> Nat],
             requests' \in [Run -> {NoRequest} \cup Asking \cup Served]
      PROVE  Forgotten'
  BY <1>1, <1>2, StaysCurrent
<1>3. ASSUME UNCHANGED <<cache, outdated, content, requests>> PROVE Forgotten'
  BY <1>1, <1>2, <1>3 DEF CacheTypes
<1>4. ASSUME NEW r \in Run, Starts(r) PROVE Forgotten'
  BY <1>3, <1>4 DEF Starts
<1>5. ASSUME NEW p \in MayLimit, Enables(p) PROVE Forgotten'
  BY <1>3, <1>5 DEF Enables
<1>6. CASE Tick
  BY <1>3, <1>6 DEF Tick
<1>7. CASE UNCHANGED networkVars
  BY <1>3, <1>7 DEF networkVars
<1>8. ASSUME NEW r \in Run, Sends(r) PROVE Forgotten'
  <2>1. requests[r] \in Asking
    BY <1>1, <1>8 DEF Sends, CacheTypes, NoRequest, Served, Asking
  <2>2. [requests[r] EXCEPT !.step = "sent"] \in Asking
    BY <2>1 DEF Asking
  <2>3. requests' \in [Run -> {NoRequest} \cup Asking \cup Served]
    BY <1>1, <1>8, <2>2 DEF Sends, CacheTypes
  <2> QED
    BY <1>1, <1>2, <1>8, <2>3 DEF Sends, CacheTypes
<1>9. ASSUME NEW r \in Run, NoReply(r) PROVE Forgotten'
  <2>1. requests' \in [Run -> {NoRequest} \cup Asking \cup Served]
    BY <1>1, <1>9, RequestDone DEF NoReply
  <2> QED
    BY <1>1, <1>2, <1>9, <2>1 DEF NoReply, CacheTypes
<1>10. ASSUME NEW r \in Run, Serves(r) PROVE Forgotten'
  <2> DEFINE h == requests[r].host
  <2>1. requests[r] \in Asking /\ h \in Host
    BY <1>1, <1>10, NetworkAssumptions
       DEF Serves, CacheTypes, NoRequest, Served, Asking, NetworkAssumptions
  <2>2. PICK status \in {"ok", "same", "throttled", "failed"}, led \in {h} \cup (Host \ Asked) :
          /\ content' = IF r \in Changing /\ status = "ok" THEN [content EXCEPT ![h] = @ + 1]
                        ELSE content
          /\ requests' = [requests EXCEPT ![r] =
                [step |-> "served", host |-> h, stale |-> @.stale, status |-> status,
                 led |-> led, version |-> content'[h]]]
    BY <1>10 DEF Serves
  <2>3. content' \in [Host -> Nat]
    BY <1>1, <2>1, <2>2 DEF CacheTypes
  <2>4. [step |-> "served", host |-> h, stale |-> requests[r].stale, status |-> status,
         led |-> led, version |-> content'[h]] \in Served
    BY <2>1, <2>2, <2>3 DEF Asking, Served
  <2>5. requests' \in [Run -> {NoRequest} \cup Asking \cup Served]
    BY <1>1, <2>2, <2>4 DEF CacheTypes
  <2> QED
    BY <1>2, <1>10, <2>3, <2>5 DEF Serves
<1>11. ASSUME NEW r \in Run, NEW h \in Asked, Reuses(r, h) PROVE Forgotten'
  <2>1. PICK e \in cache : cache' = Used(e)
    BY <1>11 DEF Reuses, EntryOf
  <2>2. cache' \subseteq Entry /\ \A x \in cache' : \E o \in cache : Alike(x, o)
    BY <1>1, <2>1, UsedAlike
  <2>3. \A x \in cache' : Current(x)
    BY <2>2, AlikeIsCurrent
  <2> QED
    BY <1>1, <1>11, <2>2, <2>3, StaysCurrent DEF Reuses, CacheTypes
<1>12. ASSUME NEW r \in Run, NEW h \in Asked, Asks(r, h) PROVE Forgotten'
  <2> DEFINE key   == <<Visible[r], h>>
             found == IF r \in Changing THEN {} ELSE EntryOf(key)
             stale == {e \in found : e.checks}
             versions == {e.version : e \in stale}
  <2>1. found \subseteq cache /\ found \subseteq Entry
    BY <1>1 DEF EntryOf
  <2>2. cache' \subseteq Entry /\ \A x \in cache' : \E o \in cache : Alike(x, o)
    <3>1. cache' = cache \/ cache' = Besides(key) \/ \E e \in cache : cache' = Used(e)
      BY <1>12, <2>1 DEF Asks
    <3>2. CASE cache' = cache
      BY <1>1, <3>2 DEF Alike
    <3>3. CASE cache' = Besides(key)
      BY <1>1, <3>3, BesidesAlike
    <3>4. CASE \E e \in cache : cache' = Used(e)
      BY <1>1, <3>4, UsedAlike
    <3> QED
      BY <3>1, <3>2, <3>3, <3>4
  <2>3. \A x \in cache' : Current(x)
    BY <2>2, AlikeIsCurrent
  <2>4. TurnOf(r, h) \in Nat /\ versions \in SUBSET Nat
    BY <2>1, NetworkAssumptions, TurnIsLatest DEF NetworkAssumptions, Entry
  <2>5. \/ requests' = requests
        \/ requests' = [requests EXCEPT ![r] =
              [step |-> "waiting", host |-> h, at |-> TurnOf(r, h), stale |-> versions]]
    BY <1>12 DEF Asks
  <2> HIDE DEF versions
  <2>6. requests' \in [Run -> {NoRequest} \cup Asking \cup Served]
    <3>1. [step |-> "waiting", host |-> h, at |-> TurnOf(r, h), stale |-> versions] \in Asking
      BY <2>4 DEF Asking
    <3> QED
      BY <1>1, <2>5, <3>1 DEF CacheTypes
  <2> QED
    BY <1>1, <1>12, <2>2, <2>3, <2>6, StaysCurrent DEF Asks, CacheTypes
<1> QED
  BY <1>4, <1>5, <1>6, <1>7, <1>8, <1>9, <1>10, <1>11, <1>12, RepliesCurrent DEF NetworkNext

(* A reply older than a change that was answered is kept only if it was    *)
(* fetched while the change was under way and came after it, for any runs, *)
(* whatever each may see (Cache::invalidate).                              *)
THEOREM NothingOutdatedIsReused == NetworkSpec => []WhatAChangeOutdatesIsForgotten
<1>1. NetworkInit => Forgotten
  BY DEF NetworkInit, Forgotten, CacheTypes, WhatAChangeOutdatesIsForgotten
<1>2. IInv /\ Forgotten /\ [NetworkNext]_networkVars => Forgotten'
  BY ForgottenStep DEF IInv
<1>3. Forgotten => WhatAChangeOutdatesIsForgotten
  BY DEF Forgotten
<1> QED
  BY <1>1, <1>2, <1>3, LimitsInvariant, PTL DEF NetworkSpec
=============================================================================
