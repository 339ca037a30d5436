---------------------------- MODULE AccountProofs ----------------------------
(***************************************************************************)
(* What the server keeps in memory for an account, as MCAccount checks it. *)
(*                                                                         *)
(* The player and its commands, for any devices, connections, outboxes,    *)
(* commands and reports: the last state queued is the current one, nothing *)
(* is left over to a connection that has ended, and a command is passed on *)
(* once.                                                                   *)
(*                                                                         *)
(* The queues, for any number of queues, lists, edits and clients: what a  *)
(* save, a restore or a delete leaves is whole, whichever way its commit   *)
(* goes and whatever edits arrive meanwhile.  The invariant follows a job  *)
(* from the writer to its caller.  Between two jobs memory fits the        *)
(* committed database.  While a job's body has run and its commit is to    *)
(* come, memory fits the database as written, and all that the caller      *)
(* would put back is still covered by the database as committed.  Until    *)
(* the caller acts, one or the other stays so.                             *)
(***************************************************************************)
EXTENDS Players, QueueStore, HubProofs, FiniteSetTheorems

-----------------------------------------------------------------------------
(***************************************************************************)
(* The player and its commands.                                            *)
(***************************************************************************)
\* What the hub counts is joined or serves, and only what serves handles a message.
Tasks ==
    \A c \in Connection :
        /\ hub[c].open => serve[c] \in {"joined", "serving"}
        /\ handling[c] # Nothing => serve[c] = "serving"

\* What plays serves, or its end is still to be settled; so is what a command waits on.
EndsAreSettled ==
    /\ player.connection # NoConnection => serve[player.connection] \in {"serving", "left"}
    /\ \A id \in Waiting : serve[waiting[id].to] \in {"joined", "serving", "left"}

\* A command neither waiting nor kept was not passed on, or forgotten since.
Once ==
    /\ PassedOnOnce
    /\ \A id \in Command : New(id) => passedOn[id] = 0
    /\ \A id \in Command : passedOn[id] # 0 => sends # 0
    /\ \A c \in Connection : handling[c].is = "command" => sends # 0

Inductive == TypeOK /\ Tasks /\ EndsAreSettled /\ Once /\ LastStateQueuedIsCurrent

-----------------------------------------------------------------------------
(* At most one result goes to each connection for each command.            *)
LEMMA ResultsAreCounted ==
  ASSUME NEW ids \in SUBSET Command
  PROVE  ResultsTo(ids) \in [Connection -> Nat]
<1>1. ASSUME NEW c \in Connection
      PROVE  Cardinality({id \in ids : waiting[id].reply = c}) \in Nat
  <2>1. IsFiniteSet({id \in ids : waiting[id].reply = c})
    BY CommandAssumption, FS_Subset DEF CommandAssumption
  <2> QED
    BY <2>1, FS_CardinalityType
<1> QED
  BY <1>1 DEF ResultsTo

(* The latest results are kept, REMEMBERED of them (Players::end).         *)
LEMMA RememberType ==
  ASSUME finished \in Seq(Command), NEW ids \in SUBSET Command, NEW order \in Orders(ids)
  PROVE  Remember(order) \in Seq(Command) /\ Len(Remember(order)) <= Remembered
<1>1. order \in Seq(Command)
  <2>1. Cardinality(ids) \in Nat
    BY CommandAssumption, FS_Subset, FS_CardinalityType DEF CommandAssumption
  <2>2. order \in [1 .. Cardinality(ids) -> Command]
    BY DEF Orders
  <2> QED
    BY <2>1, <2>2
<1> DEFINE all == finished \o order
<1>2. all \in Seq(Command) /\ Len(all) \in Nat
  BY <1>1
<1>3. Remembered \in Nat \ {0}
  BY BoundsAssumption DEF BoundsAssumption
<1> HIDE DEF all
<1>4. CASE Len(all) > Remembered
  <2>1. SubSeq(all, Len(all) - Remembered + 1, Len(all)) \in Seq(Command)
    BY <1>2, <1>3, <1>4
  <2>2. Len(SubSeq(all, Len(all) - Remembered + 1, Len(all))) = Remembered
    BY <1>2, <1>3, <1>4
  <2> QED
    BY <1>3, <1>4, <2>1, <2>2 DEF Remember, all
<1>5. CASE ~(Len(all) > Remembered)
  <2>1. SubSeq(all, 1, Len(all)) = all
    BY <1>2
  <2> QED
    BY <1>2, <1>3, <1>5, <2>1 DEF Remember, all
<1> QED
  BY <1>4, <1>5

(* What ending commands does (Players::end).                               *)
LEMMA EndKeeps ==
  ASSUME TypeOK, Once, NEW ids \in SUBSET Command, NEW fired \in SUBSET Command,
         End(ids, fired)
  PROVE  /\ waiting' \in [Command -> Waits]
         /\ finished' \in Seq(Command) /\ Len(finished') <= Remembered
         /\ late' \subseteq Command
         /\ Waiting' = Waiting \ ids
         /\ \A id \in Waiting' : waiting'[id] = waiting[id]
         /\ passedOn' \in [Command -> 0 .. MaxSends]
         /\ \A id \in Command : passedOn'[id] = passedOn[id] \/ passedOn'[id] = 0
         /\ \A id \in Command : New(id)' => passedOn'[id] = 0
<1>1. PICK order \in Orders(ids) : finished' = Remember(order)
  BY DEF End
<1>2. finished' \in Seq(Command) /\ Len(finished') <= Remembered
  BY <1>1, RememberType DEF TypeOK
<1>3. /\ waiting' \in [Command -> Waits] /\ late' \subseteq Command
      /\ \A id \in Command : waiting'[id] = IF id \in ids THEN NotWaiting ELSE waiting[id]
  <2>1. NotWaiting \in Waits
    BY ConnectionsAssumption DEF Waits, NotWaiting, Http, ConnectionsAssumption
  <2> QED
    BY <2>1 DEF End, TypeOK
<1>4. Waiting' = Waiting \ ids /\ \A id \in Waiting' : waiting'[id] = waiting[id]
  BY <1>3 DEF Waiting, NotWaiting
<1>5. \A id \in Command : passedOn'[id] = IF \/ waiting'[id].to # NoConnection
                                           \/ \E i \in DOMAIN finished' : finished'[i] = id
                                        THEN passedOn[id] ELSE 0
  BY DEF End
<1>6. passedOn' \in [Command -> 0 .. MaxSends]
  BY BoundsAssumption DEF End, TypeOK, BoundsAssumption
<1>7. \A id \in Command : New(id)' => passedOn'[id] = 0
  BY <1>5 DEF New, Kept, Waiting
<1> QED
  BY <1>2, <1>3, <1>4, <1>5, <1>6, <1>7

(* Commands that end, and results told (Players::end, Players::deliver).   *)
LEMMA EndOnlyCloses ==
  ASSUME TypeOK, NEW ids \in SUBSET Command
  PROVE  OnlyCloses(SendEach(hub, ResultsTo(ids)), hub)
  BY ResultsAreCounted, SendEachOnlyCloses DEF TypeOK

(* A state told goes to every connection still counted (Hub::broadcast).   *)
LEMMA TellIsSeen ==
  ASSUME NEW h \in [Connection -> Links], NEW state \in Player, Tell(h, state)
  PROVE  /\ OnlyCloses(hub', h)
         /\ shown' \in [Connection -> Player]
         /\ \A c \in Counted(hub') : shown'[c] = state
<1>1. Stopped \in Player
  BY DEF Stopped, Player, Status
<1> QED
  BY <1>1, BroadcastOnlyCloses DEF Tell, Counted

(* What a command is passed on to serves, or has joined (Players::command, *)
(* Hub::newest).                                                           *)
LEMMA TargetIsThere ==
  ASSUME TypeOK, Tasks, EndsAreSettled, NEW id \in Command, Target(id) # NoConnection
  PROVE  /\ Target(id) \in Connection
         /\ serve[Target(id)] \in {"joined", "serving", "left"}
<1>1. Target(id) = player.connection \/ Target(id) = Newest(hub, Content[id].device)
  BY DEF Target
<1>2. CASE Target(id) = player.connection
  BY <1>2 DEF TypeOK, Player, EndsAreSettled
<1>3. CASE Target(id) = Newest(hub, Content[id].device)
  <2>1. Target(id) \in Counted(hub)
    BY <1>3, NewestIsCounted
  <2> QED
    BY <2>1 DEF Counted, Tasks
<1> QED
  BY <1>1, <1>2, <1>3

(* A command accepted is answered, redirected or passed on                 *)
(* (Players::command).                                                     *)
LEMMA AcceptKeeps ==
  ASSUME Inductive, NEW id \in Command, NEW reply \in 1 .. Http, Accept(id, reply),
         finished' = finished, MaxSends # 0
  PROVE  /\ OnlyCloses(hub', hub)
         /\ waiting' \in [Command -> Waits]
         /\ passedOn' \in [Command -> 0 .. MaxSends]
         /\ \A i \in Waiting' : serve[waiting'[i].to] \in {"joined", "serving", "left"}
         /\ \A i \in Command : passedOn'[i] <= 1 /\ (New(i)' => passedOn'[i] = 0)
<1> USE DEF Inductive
<1>1. UNCHANGED hub => OnlyCloses(hub', hub)
  BY DEF TypeOK, OnlyCloses
<1>2. CASE UNCHANGED <<waiting, passedOn>>
  BY <1>1, <1>2 DEF Accept, TypeOK, EndsAreSettled, Once, PassedOnOnce, Waiting, New, Kept
<1>3. CASE /\ ~Kept(id) /\ id \in Waiting
           /\ waiting' = [waiting EXCEPT ![id].reply = reply]
           /\ UNCHANGED <<hub, passedOn>>
  <2>1. waiting' \in [Command -> Waits]
    <3>1. reply \in 0 .. Http /\ waiting \in [Command -> Waits]
      BY ConnectionsAssumption DEF TypeOK, Http, ConnectionsAssumption
    <3>2. [waiting[id] EXCEPT !.reply = reply] \in Waits
      BY <3>1 DEF Waits
    <3> QED
      BY <1>3, <3>1, <3>2
  <2>2. \A i \in Command : waiting'[i].to = waiting[i].to
    BY <1>3 DEF TypeOK, Waits
  <2> QED
    BY <1>1, <1>3, <2>1, <2>2 DEF TypeOK, EndsAreSettled, Once, PassedOnOnce, Waiting, New, Kept
<1>4. CASE /\ New(id) /\ Target(id) # NoConnection
           /\ hub' = Send(hub, Target(id))
           /\ waiting' = [waiting EXCEPT ![id] = [to |-> Target(id), reply |-> reply, due |-> FALSE]]
           /\ passedOn' = [passedOn EXCEPT ![id] = @ + 1]
  <2>1. /\ Target(id) \in Connection /\ serve[Target(id)] \in {"joined", "serving", "left"}
    BY <1>4, TargetIsThere
  <2>2. OnlyCloses(hub', hub)
    BY <1>4, SendOnlyCloses DEF TypeOK
  <2>3. waiting' \in [Command -> Waits]
    BY <1>4, <2>1, ConnectionsAssumption DEF TypeOK, Waits, Http, ConnectionsAssumption
  <2>4. passedOn[id] = 0 /\ passedOn'[id] = 1
    BY <1>4 DEF Once, TypeOK
  <2>5. \A i \in Command : passedOn'[i] <= 1 /\ (New(i)' => passedOn'[i] = 0)
    BY <1>4, <2>4 DEF Once, PassedOnOnce, TypeOK, New, Kept, Waiting
  <2>6. passedOn' \in [Command -> 0 .. MaxSends]
    BY <1>4, <2>4, BoundsAssumption DEF TypeOK, BoundsAssumption
  <2>7. \A i \in Waiting' : serve[waiting'[i].to] \in {"joined", "serving", "left"}
    BY <1>4, <2>1 DEF EndsAreSettled, Waiting, TypeOK
  <2> QED
    BY <1>4, <2>2, <2>3, <2>5, <2>6, <2>7 DEF TypeOK
<1> QED
  BY <1>2, <1>3, <1>4 DEF Accept

-----------------------------------------------------------------------------
(* What is passed on, kept and waiting, while none of it changes.          *)
LEMMA CommandsKeep ==
  ASSUME Once, UNCHANGED <<waiting, finished, passedOn>>, sends # 0 => sends' # 0,
         \A c \in Connection : handling'[c].is = "command" => handling[c].is = "command" \/ sends' # 0
  PROVE  Once'
  BY DEF Once, PassedOnOnce, New, Kept, Waiting

(* The state everyone was told, while it does not change and the hub lets  *)
(* go of some connections at most.                                         *)
LEMMA StateKeeps ==
  ASSUME LastStateQueuedIsCurrent, OnlyCloses(hub', hub), UNCHANGED <<player, shown>>
  PROVE  LastStateQueuedIsCurrent'
  BY DEF LastStateQueuedIsCurrent, OnlyCloses, Counted

(* Nothing is settled or left over to another connection while no task     *)
(* moves.                                                                  *)
LEMMA SettledKeeps ==
  ASSUME EndsAreSettled, UNCHANGED <<serve, player, waiting>>
  PROVE  EndsAreSettled'
  BY DEF EndsAreSettled, Waiting

(* What the hub counts keeps its task while no task moves.                 *)
LEMMA TasksKeep ==
  ASSUME Tasks, OnlyCloses(hub', hub), UNCHANGED serve,
         \A c \in Connection : handling'[c] # Nothing => handling[c] # Nothing \/ serve[c] = "serving"
  PROVE  Tasks'
  BY DEF Tasks, OnlyCloses

(* The hub as it was.                                                      *)
LEMMA SameHub == ASSUME TypeOK, UNCHANGED hub PROVE OnlyCloses(hub', hub)
  BY DEF TypeOK, OnlyCloses

(* The invariant at the start.                                             *)
LEMMA InductiveInit == Init => Inductive
<1> SUFFICES ASSUME Init PROVE Inductive
  OBVIOUS
<1>1. hub \in [Connection -> Links] /\ \A c \in Connection : ~hub[c].open
  BY OutboxAssumption DEF Init, NoLink, Links, OutboxAssumption
<1>2. Stopped \in Player /\ Nothing \in Handled /\ Nothing.is # "command"
  BY DEF Stopped, Player, Status, Handled, Nothing
<1>3. NotWaiting \in Waits /\ NotWaiting.to = NoConnection
  BY ConnectionsAssumption DEF Waits, NotWaiting, Http, ConnectionsAssumption
<1>4. TypeOK
  <2>1. /\ reports \in 0 .. MaxReports /\ sends \in 0 .. MaxSends
        /\ passedOn \in [Command -> 0 .. MaxSends]
    BY BoundsAssumption DEF Init, BoundsAssumption
  <2>2. finished \in Seq(Command) /\ Len(finished) <= Remembered
    BY BoundsAssumption DEF Init, BoundsAssumption
  <2> QED
    BY <1>1, <1>2, <1>3, <2>1, <2>2 DEF Init, TypeOK
<1>5. Waiting = {} /\ player.connection = NoConnection
  BY <1>3 DEF Init, Waiting, Stopped
<1> QED
  BY <1>1, <1>2, <1>4, <1>5
     DEF Init, Inductive, Tasks, EndsAreSettled, Once, PassedOnOnce, LastStateQueuedIsCurrent, Counted

(* A connection joins, and is told the state (Players::connect).           *)
LEMMA JoinStep ==
  ASSUME Inductive, NEW c \in Connection, NEW d \in Device, Join(c, d)
  PROVE  Inductive'
<1> USE DEF Inductive
<1> DEFINE joined == Connect(hub, c, d)
<1>1. /\ joined \in [Connection -> Links]
      /\ \A b \in Connection : b # c => joined[b] = hub[b]
  BY ConnectOpens DEF TypeOK
<1>2. hub' = Send(joined, c) /\ OnlyCloses(hub', joined)
  BY <1>1, SendOnlyCloses DEF Join, TellOne
<1> HIDE DEF joined
<1>3. hub' \in [Connection -> Links] /\ \A b \in Connection : b # c => (hub'[b].open => hub[b].open)
  BY <1>1, <1>2 DEF OnlyCloses
<1>4. shown' = [shown EXCEPT ![c] = IF hub'[c].open THEN player ELSE Stopped]
  BY DEF Join, TellOne
<1>5. TypeOK'
  <2>1. Stopped \in Player
    BY DEF Stopped, Player, Status
  <2>2. shown' \in [Connection -> Player]
    BY <1>4, <2>1 DEF TypeOK
  <2> QED
    BY <1>3, <2>2 DEF Join, TypeOK, accounts, commands
<1>6. Tasks'
  BY <1>3 DEF Join, Tasks, TypeOK
<1>7. EndsAreSettled'
  BY DEF Join, EndsAreSettled, Waiting, TypeOK, Player, commands
<1>8. Once'
  BY CommandsKeep DEF Join, commands
<1>9. LastStateQueuedIsCurrent'
  BY <1>3, <1>4 DEF Join, LastStateQueuedIsCurrent, Counted, TypeOK
<1> QED
  BY <1>5, <1>6, <1>7, <1>8, <1>9

(* It goes on to serve, or receives (serve, Presence::next).               *)
LEMMA ServeStep ==
  ASSUME Inductive, NEW c \in Connection, Check(c) \/ Deliver(c)
  PROVE  Inductive'
<1> USE DEF Inductive
<1>1. OnlyCloses(hub', hub)
  BY SameHub, ReceiveOnlyCloses DEF Check, Deliver, TypeOK
<1>2. TypeOK'
  BY <1>1 DEF Check, Deliver, OnlyCloses, TypeOK, accounts, commands, history
<1>3. Tasks' /\ EndsAreSettled'
  <2>1. \A b \in Connection : serve'[b] = serve[b] \/ (serve[b] = "joined" /\ serve'[b] = "serving")
    BY DEF Check, Deliver, TypeOK
  <2>2. UNCHANGED <<handling, player, waiting>>
    BY DEF Check, Deliver, commands
  <2>3. Tasks'
    BY <1>1, <2>1, <2>2 DEF OnlyCloses, Tasks
  <2>4. player.connection \in Connection \cup {NoConnection}
        /\ \A id \in Waiting : waiting[id].to \in Connection
    BY DEF TypeOK, Player, Waiting, Waits
  <2>5. EndsAreSettled'
    BY <2>1, <2>2, <2>4 DEF EndsAreSettled, Waiting
  <2> QED
    BY <2>3, <2>5
<1>4. Once'
  BY CommandsKeep DEF Check, Deliver, commands, history
<1>5. LastStateQueuedIsCurrent'
  BY <1>1, StateKeeps DEF Check, Deliver, history
<1> QED
  BY <1>2, <1>3, <1>4, <1>5

(* It leaves the hub (serve, Presence::drop).                              *)
LEMMA LeaveStep ==
  ASSUME Inductive, NEW c \in Connection, Leave(c)
  PROVE  Inductive'
<1> USE DEF Inductive
<1>1. /\ hub' \in [Connection -> Links] /\ ~hub'[c].open
      /\ \A b \in Connection : b # c => hub'[b] = hub[b]
  BY DropCloses DEF Leave, TypeOK
<1>2. Stopped \in Player
  BY DEF Stopped, Player, Status
<1>3. TypeOK'
  BY <1>1, <1>2 DEF Leave, TypeOK, accounts, commands
<1>4. Tasks' /\ EndsAreSettled'
  BY <1>1 DEF Leave, Serving, Tasks, EndsAreSettled, Waiting, TypeOK, Player, commands
<1>5. Once'
  BY CommandsKeep DEF Leave, commands
<1>6. LastStateQueuedIsCurrent'
  BY <1>1 DEF Leave, LastStateQueuedIsCurrent, Counted, TypeOK
<1> QED
  BY <1>3, <1>4, <1>5, <1>6

(* A device logs out (logout, Hub::revoke).                                *)
LEMMA DeviceStep ==
  ASSUME Inductive, NEW d \in Device, LogOut(d) \/ Revoked(d)
  PROVE  Inductive'
<1> USE DEF Inductive
<1>1. OnlyCloses(hub', hub)
  BY SameHub, RevokeCloses DEF LogOut, Revoked, connections, TypeOK
<1>2. TypeOK'
  BY <1>1 DEF LogOut, Revoked, OnlyCloses, TypeOK, connections, commands, history
<1>3. UNCHANGED <<serve, handling, player, waiting, finished, passedOn, sends, shown>>
  BY DEF LogOut, Revoked, connections, commands, history
<1> QED
  BY <1>1, <1>2, <1>3, TasksKeep, SettledKeeps, CommandsKeep, StateKeeps

(* Its end is settled (Players::disconnected).                             *)
LEMMA DisconnectedStep ==
  ASSUME Inductive, NEW c \in Connection, Disconnected(c)
  PROVE  Inductive'
<1> USE DEF Inductive
<1> DEFINE told == SendEach(hub, ResultsTo(WaitingOn(c)))
<1>1. WaitingOn(c) \in SUBSET Command /\ {} \in SUBSET Command
  BY DEF WaitingOn, Waiting
<1>2. OnlyCloses(told, hub)
  BY <1>1, EndOnlyCloses
<1>3. AsStopped \in Player
  BY DEF AsStopped, TypeOK, Player, Status
<1> HIDE DEF told
<1>4. /\ \/ player' = AsStopped /\ Tell(told, player')
         \/ player.connection # c /\ hub' = told /\ UNCHANGED <<player, shown>>
      /\ serve' = [serve EXCEPT ![c] = "ended"] /\ serve[c] = "left"
      /\ UNCHANGED <<signedIn, revoking, caller, handling, reports, sends>>
  BY DEF Disconnected, StopsHere, told, accounts
<1>5. OnlyCloses(hub', told)
  <2>1. CASE player' = AsStopped /\ Tell(told, player')
    BY <1>2, <1>3, <2>1, TellIsSeen DEF OnlyCloses
  <2>2. CASE hub' = told
    BY <1>2, <2>2 DEF OnlyCloses
  <2> QED
    BY <1>4, <2>1, <2>2
<1>6. OnlyCloses(hub', hub)
  BY <1>2, <1>5 DEF OnlyCloses
<1>7. /\ player' \in Player /\ shown' \in [Connection -> Player]
      /\ player'.connection # NoConnection => player' = player /\ player.connection # c
      /\ LastStateQueuedIsCurrent'
  <2>1. CASE player' = AsStopped /\ Tell(told, player')
    <3>1. /\ shown' \in [Connection -> Player]
          /\ \A b \in Counted(hub') : shown'[b] = player'
      BY <1>2, <1>3, <2>1, TellIsSeen DEF OnlyCloses
    <3>2. AsStopped.connection = NoConnection
      BY DEF AsStopped, TypeOK, Player
    <3> QED
      BY <1>3, <2>1, <3>1, <3>2 DEF LastStateQueuedIsCurrent, Counted
  <2>2. CASE player.connection # c /\ hub' = told /\ UNCHANGED <<player, shown>>
    BY <1>6, <2>2, StateKeeps DEF TypeOK
  <2> QED
    BY <1>4, <2>1, <2>2
<1>8. End(WaitingOn(c), {})
  BY DEF Disconnected
<1>9. /\ waiting' \in [Command -> Waits]
      /\ finished' \in Seq(Command) /\ Len(finished') <= Remembered
      /\ late' \subseteq Command
      /\ Waiting' = Waiting \ WaitingOn(c)
      /\ \A id \in Waiting' : waiting'[id] = waiting[id]
      /\ passedOn' \in [Command -> 0 .. MaxSends]
      /\ \A id \in Command : passedOn'[id] = passedOn[id] \/ passedOn'[id] = 0
      /\ \A id \in Command : New(id)' => passedOn'[id] = 0
  BY <1>1, <1>8, EndKeeps
<1>10. TypeOK'
  BY <1>4, <1>6, <1>7, <1>9 DEF OnlyCloses, TypeOK
<1>11. Tasks'
  BY <1>4, <1>6 DEF OnlyCloses, Tasks, TypeOK
<1>12. EndsAreSettled'
  <2>1. \A id \in Waiting' : waiting'[id].to # c
    BY <1>9 DEF WaitingOn
  <2>2. \A b \in Connection : b # c => serve'[b] = serve[b]
    BY <1>4 DEF TypeOK
  <2>3. player'.connection \in Connection \cup {NoConnection}
        /\ \A id \in Waiting' : waiting'[id].to \in Connection
    BY <1>7, <1>9 DEF TypeOK, Player, Waiting, Waits
  <2>4. player'.connection # NoConnection => serve'[player'.connection] \in {"serving", "left"}
    BY <1>7, <2>2, <2>3 DEF EndsAreSettled
  <2>5. ASSUME NEW id \in Waiting' PROVE serve'[waiting'[id].to] \in {"joined", "serving", "left"}
    <3>1. id \in Waiting /\ waiting'[id] = waiting[id]
      BY <1>9
    <3> QED
      BY <2>1, <2>2, <2>3, <3>1 DEF EndsAreSettled
  <2> QED
    BY <2>4, <2>5 DEF EndsAreSettled
<1>13. Once'
  BY <1>4, <1>9 DEF Once, PassedOnOnce
<1> QED
  BY <1>7, <1>10, <1>11, <1>12, <1>13

(* A report is checked, or refused and answered with the state             *)
(* (player::apply, Players::send_state).                                   *)
LEMMA CheckStep ==
  ASSUME Inductive, NEW c \in Connection,
         \/ \E report \in Reports : ReportArrives(c, report)
         \/ ReadSignedIn(c) \/ StillOpen(c) \/ SendState(c)
  PROVE  Inductive'
<1> USE DEF Inductive
<1>1. \/ UNCHANGED <<hub, shown>>
      \/ hub' = Send(hub, c) /\ shown' = [shown EXCEPT ![c] = IF hub'[c].open THEN player ELSE Stopped]
  BY DEF ReportArrives, ReadSignedIn, StillOpen, SendState, TellOne, history
<1>2. OnlyCloses(hub', hub)
  BY <1>1, SameHub, SendOnlyCloses DEF TypeOK
<1>3. Stopped \in Player
  BY DEF Stopped, Player, Status
<1>4. shown' \in [Connection -> Player] /\ LastStateQueuedIsCurrent'
  <2>1. shown' \in [Connection -> Player]
    BY <1>1, <1>3 DEF TypeOK
  <2>2. player' = player
    BY DEF ReportArrives, ReadSignedIn, StillOpen, SendState
  <2> QED
    BY <1>1, <1>2, <2>1, <2>2 DEF LastStateQueuedIsCurrent, OnlyCloses, Counted, TypeOK
<1>5. /\ handling' \in [Connection -> Handled]
      /\ \A b \in Connection : handling'[b] # Nothing => handling[b] # Nothing \/ serve[b] = "serving"
      /\ \A b \in Connection : handling'[b].is = "command" => handling[b].is = "command"
  <2>1. Nothing \in Handled /\ Refused \in Handled /\ Nothing.is = "nothing" /\ Refused.is = "refused"
    BY DEF Handled, Nothing, Refused
  <2>2. ASSUME NEW report \in Reports, ReportArrives(c, report)
        PROVE  \E m \in Handled : handling' = [handling EXCEPT ![c] = m] /\ m.is # "command"
    <3>1. [is |-> "report", report |-> report, step |-> "reading"] \in Handled
      BY DEF Handled
    <3> QED
      BY <2>1, <2>2, <3>1 DEF ReportArrives, Handle
  <2>3. ASSUME ReadSignedIn(c) \/ StillOpen(c)
        PROVE  \E m \in Handled : handling' = [handling EXCEPT ![c] = m] /\ m.is # "command"
    <3>1. handling[c] \in [is : {"report"}, report : Reports, step : {"reading", "read", "admitted"}]
      BY <2>1, <2>3 DEF ReadSignedIn, StillOpen, At, TypeOK, Handled, Nothing, Refused
    <3>2. /\ [handling[c] EXCEPT !.step = "read"] \in Handled
          /\ [handling[c] EXCEPT !.step = "admitted"] \in Handled
          /\ [handling[c] EXCEPT !.step = "read"].is = "report"
          /\ [handling[c] EXCEPT !.step = "admitted"].is = "report"
      BY <3>1 DEF Handled
    <3> QED
      BY <2>1, <2>3, <3>2 DEF ReadSignedIn, StillOpen, GoesTo, Handle
  <2>4. ASSUME SendState(c)
        PROVE  \E m \in Handled : handling' = [handling EXCEPT ![c] = m] /\ m.is # "command"
    BY <2>1, <2>4 DEF SendState, Handle
  <2>5. PICK m \in Handled : handling' = [handling EXCEPT ![c] = m] /\ m.is # "command"
    BY <2>2, <2>3, <2>4
  <2>6. serve[c] = "serving"
    BY <2>1 DEF ReportArrives, Serving, ReadSignedIn, StillOpen, SendState, At, Tasks, Nothing, Refused
  <2> QED
    BY <2>5, <2>6 DEF TypeOK
<1>6. TypeOK'
  <2>1. UNCHANGED <<signedIn, revoking, serve, caller, player, waiting, finished, late, sends,
                    passedOn>>
    BY DEF ReportArrives, ReadSignedIn, StillOpen, SendState, accounts, commands, history
  <2>2. reports' = reports \/ (reports < MaxReports /\ reports' = reports + 1)
    BY DEF ReportArrives, ReadSignedIn, StillOpen, SendState
  <2>3. reports \in 0 .. MaxReports /\ MaxReports \in Nat
    BY BoundsAssumption DEF TypeOK, BoundsAssumption
  <2>4. reports' \in 0 .. MaxReports
    BY <2>2, <2>3
  <2> QED
    BY <1>2, <1>4, <1>5, <2>1, <2>4 DEF OnlyCloses, TypeOK
<1>7. UNCHANGED <<serve, player, waiting, finished, passedOn, sends>>
  BY DEF ReportArrives, ReadSignedIn, StillOpen, SendState, commands, history
<1> QED
  BY <1>2, <1>4, <1>5, <1>6, <1>7, TasksKeep, SettledKeeps, CommandsKeep

(* A report is applied, or refused (Players::report).                      *)
LEMMA ApplyStep ==
  ASSUME Inductive, NEW c \in Connection, ApplyReport(c)
  PROVE  Inductive'
<1> USE DEF Inductive
<1>1. handling[c].report \in Report /\ serve[c] = "serving" /\ caller[c] \in Device \cup {NoDevice}
  BY ReportsAssumption
     DEF ApplyReport, At, TypeOK, Handled, Nothing, Refused, Tasks, ReportsAssumption
<1>2. \/ /\ player' = Reported(c, handling[c].report) /\ Tell(hub, player')
         /\ handling' = [handling EXCEPT ![c] = Nothing]
      \/ UNCHANGED <<player, hub, shown>> /\ handling' = [handling EXCEPT ![c] = Refused]
  BY DEF ApplyReport, Handle
<1>3. Reported(c, handling[c].report) \in Player
  BY <1>1 DEF Reported, Report, Player
<1>4. OnlyCloses(hub', hub) /\ LastStateQueuedIsCurrent' /\ player' \in Player
      /\ shown' \in [Connection -> Player]
  <2>1. CASE player' = Reported(c, handling[c].report) /\ Tell(hub, player')
    <3>1. /\ OnlyCloses(hub', hub) /\ shown' \in [Connection -> Player]
          /\ \A b \in Counted(hub') : shown'[b] = player'
      BY <1>3, <2>1, TellIsSeen DEF TypeOK
    <3> QED
      BY <1>3, <2>1, <3>1 DEF LastStateQueuedIsCurrent, Counted
  <2>2. CASE UNCHANGED <<player, hub, shown>>
    BY <2>2, SameHub, StateKeeps DEF TypeOK
  <2> QED
    BY <1>2, <2>1, <2>2
<1>5. /\ handling' \in [Connection -> Handled]
      /\ \A b \in Connection : handling'[b] # Nothing => handling[b] # Nothing \/ serve[b] = "serving"
      /\ \A b \in Connection : handling'[b].is = "command" => handling[b].is = "command"
  <2>1. Nothing \in Handled /\ Refused \in Handled /\ Nothing.is = "nothing" /\ Refused.is = "refused"
    BY DEF Handled, Nothing, Refused
  <2>2. PICK m \in {Nothing, Refused} : handling' = [handling EXCEPT ![c] = m]
    BY <1>2
  <2> QED
    BY <1>1, <2>1, <2>2 DEF TypeOK
<1>6. UNCHANGED <<signedIn, revoking, serve, caller, waiting, finished, late, reports, sends,
                  passedOn>>
  BY DEF ApplyReport, accounts, commands
<1>7. TypeOK'
  BY <1>4, <1>5, <1>6 DEF OnlyCloses, TypeOK
<1>8. EndsAreSettled'
  <2>1. player' = player \/ player'.connection \in {c, NoConnection}
    BY <1>2 DEF Reported
  <2> QED
    BY <1>1, <1>6, <2>1 DEF EndsAreSettled, Waiting
<1> QED
  BY <1>4, <1>5, <1>6, <1>7, <1>8, TasksKeep, CommandsKeep

(* A command or an answer is read off the socket (handle).                 *)
LEMMA ArrivesStep ==
  ASSUME Inductive, NEW c \in Connection, NEW id \in Command,
         CommandArrives(c, id) \/ AnswerArrives(c, id)
  PROVE  Inductive'
<1> USE DEF Inductive
<1>1. PICK m \in [is : {"command", "answer"}, id : Command] :
        /\ handling' = [handling EXCEPT ![c] = m]
        /\ m.is = "command" => sends' # 0
  <2>1. CASE CommandArrives(c, id)
    <3>1. [is |-> "command", id |-> id] \in [is : {"command", "answer"}, id : Command]
      OBVIOUS
    <3>2. sends' # 0
      BY <2>1 DEF CommandArrives, TypeOK
    <3> QED
      BY <2>1, <3>1, <3>2 DEF CommandArrives, Handle
  <2>2. CASE AnswerArrives(c, id)
    <3>1. [is |-> "answer", id |-> id] \in [is : {"command", "answer"}, id : Command]
      OBVIOUS
    <3> QED
      BY <2>2, <3>1 DEF AnswerArrives, Handle
  <2> QED
    BY <2>1, <2>2
<1>2. /\ handling' \in [Connection -> Handled]
      /\ \A b \in Connection : handling'[b] # Nothing => handling[b] # Nothing \/ b = c
      /\ \A b \in Connection :
            handling'[b].is = "command" => handling[b].is = "command" \/ sends' # 0
  BY <1>1 DEF TypeOK, Handled
<1>3. serve[c] = "serving"
  BY DEF CommandArrives, AnswerArrives, Serving
<1>4. UNCHANGED <<signedIn, revoking, hub, serve, caller, player, waiting, finished, late, reports,
                  shown, passedOn>>
  BY DEF CommandArrives, AnswerArrives, accounts, commands, history
<1>5. sends' \in 0 .. MaxSends /\ (sends # 0 => sends' # 0)
  <2>1. sends' = sends \/ (sends < MaxSends /\ sends' = sends + 1)
    BY DEF CommandArrives, AnswerArrives
  <2>2. sends \in 0 .. MaxSends /\ MaxSends \in Nat
    BY BoundsAssumption DEF TypeOK, BoundsAssumption
  <2> QED
    BY <2>1, <2>2
<1>6. TypeOK'
  BY <1>2, <1>4, <1>5 DEF TypeOK
<1> QED
  BY <1>2, <1>3, <1>4, <1>5, <1>6, SameHub, TasksKeep, SettledKeeps, CommandsKeep, StateKeeps

(* A command is accepted (Players::command).                               *)
LEMMA AcceptStep ==
  ASSUME Inductive,
         \/ \E id \in Command : Request(id)
         \/ \E c \in Connection : AcceptCommand(c)
  PROVE  Inductive'
<1> USE DEF Inductive
<1>1. PICK id \in Command, reply \in 1 .. Http : Accept(id, reply) /\ MaxSends # 0 /\ sends' # 0
  <2>1. ASSUME NEW id \in Command, Request(id) PROVE Accept(id, Http) /\ MaxSends # 0 /\ sends' # 0
    BY <2>1, BoundsAssumption DEF Request, TypeOK, BoundsAssumption
  <2>2. ASSUME NEW c \in Connection, AcceptCommand(c)
        PROVE  /\ handling[c].id \in Command /\ Accept(handling[c].id, c)
               /\ MaxSends # 0 /\ sends' # 0
    <3>1. handling[c].id \in Command
      BY <2>2 DEF AcceptCommand, TypeOK, Handled, Nothing, Refused
    <3>2. sends # 0 /\ sends \in 0 .. MaxSends
      BY <2>2 DEF AcceptCommand, Once, TypeOK
    <3> QED
      BY <2>2, <3>1, <3>2 DEF AcceptCommand
  <2>3. Connection \subseteq 1 .. Http /\ Http \in 1 .. Http
    BY ConnectionsAssumption DEF Connection, Http, ConnectionsAssumption
  <2> QED
    BY <2>1, <2>2, <2>3
<1>2. UNCHANGED <<signedIn, revoking, serve, caller, player, finished, late, reports, shown>>
  BY DEF Request, AcceptCommand, accounts
<1>3. /\ OnlyCloses(hub', hub)
      /\ waiting' \in [Command -> Waits]
      /\ passedOn' \in [Command -> 0 .. MaxSends]
      /\ \A i \in Waiting' : serve[waiting'[i].to] \in {"joined", "serving", "left"}
      /\ \A i \in Command : passedOn'[i] <= 1 /\ (New(i)' => passedOn'[i] = 0)
  BY <1>1, <1>2, AcceptKeeps
<1>4. handling' = handling \/ \E c \in Connection : handling' = [handling EXCEPT ![c] = Nothing]
  BY DEF Request, AcceptCommand, Handle
<1>5. /\ handling' \in [Connection -> Handled]
      /\ \A b \in Connection : handling'[b] # Nothing => handling[b] # Nothing
  BY <1>4 DEF TypeOK, Handled
<1>6. sends' \in 0 .. MaxSends
  <2>1. sends' = sends \/ (sends < MaxSends /\ sends' = sends + 1)
    BY DEF Request, AcceptCommand
  <2>2. sends \in 0 .. MaxSends /\ MaxSends \in Nat
    BY BoundsAssumption DEF TypeOK, BoundsAssumption
  <2> QED
    BY <2>1, <2>2
<1>7. TypeOK'
  BY <1>2, <1>3, <1>5, <1>6 DEF OnlyCloses, TypeOK
<1>8. EndsAreSettled'
  BY <1>2, <1>3 DEF EndsAreSettled
<1>9. Once'
  BY <1>1, <1>3 DEF Once, PassedOnOnce
<1> QED
  BY <1>2, <1>3, <1>5, <1>7, <1>8, <1>9, TasksKeep, StateKeeps

(* A command is answered, or its timer ends it (Players::answered,         *)
(* Players::fail).                                                         *)
LEMMA EndStep ==
  ASSUME Inductive,
         \/ \E c \in Connection : Answered(c)
         \/ \E id \in Command : TimerFires(id)
  PROVE  Inductive'
<1> USE DEF Inductive
<1>1. PICK ids \in SUBSET Command, fired \in SUBSET Command : EndAndTell(ids, fired)
  <2>1. ASSUME NEW c \in Connection, Answered(c)
        PROVE  EndAndTell({handling[c].id} \cap WaitingOn(c), {})
    BY <2>1 DEF Answered
  <2>2. ASSUME NEW id \in Command, TimerFires(id) PROVE EndAndTell({id} \cap Waiting, {id})
    BY <2>2 DEF TimerFires
  <2>3. \A c \in Connection : {handling[c].id} \cap WaitingOn(c) \in SUBSET Command
    BY DEF WaitingOn, Waiting
  <2>4. \A id \in Command : {id} \cap Waiting \in SUBSET Command
    BY DEF Waiting
  <2> QED
    BY <2>1, <2>2, <2>3, <2>4
<1>2. OnlyCloses(hub', hub) /\ End(ids, fired)
  BY <1>1, EndOnlyCloses DEF EndAndTell
<1>3. /\ waiting' \in [Command -> Waits]
      /\ finished' \in Seq(Command) /\ Len(finished') <= Remembered
      /\ late' \subseteq Command
      /\ Waiting' = Waiting \ ids
      /\ \A id \in Waiting' : waiting'[id] = waiting[id]
      /\ passedOn' \in [Command -> 0 .. MaxSends]
      /\ \A id \in Command : passedOn'[id] = passedOn[id] \/ passedOn'[id] = 0
      /\ \A id \in Command : New(id)' => passedOn'[id] = 0
  BY <1>2, EndKeeps
<1>4. UNCHANGED <<signedIn, revoking, serve, caller, player, reports, sends, shown>>
  BY DEF Answered, TimerFires, accounts
<1>5. handling' = handling \/ \E c \in Connection : handling' = [handling EXCEPT ![c] = Nothing]
  BY DEF Answered, TimerFires, Handle
<1>6. /\ handling' \in [Connection -> Handled]
      /\ \A b \in Connection : handling'[b] # Nothing => handling[b] # Nothing
      /\ \A b \in Connection : handling'[b].is = "command" => handling[b].is = "command"
  <2>1. Nothing \in Handled /\ Nothing.is # "command"
    BY DEF Handled, Nothing
  <2> QED
    BY <1>5, <2>1 DEF TypeOK
<1>7. TypeOK'
  BY <1>2, <1>3, <1>4, <1>6 DEF OnlyCloses, TypeOK
<1>8. EndsAreSettled'
  BY <1>3, <1>4 DEF EndsAreSettled
<1>9. Once'
  BY <1>3, <1>4, <1>6 DEF Once, PassedOnOnce
<1> QED
  BY <1>2, <1>4, <1>6, <1>7, <1>8, <1>9, TasksKeep, StateKeeps

(* A timer is past its sleep (Players::command).                           *)
LEMMA DueStep ==
  ASSUME Inductive, NEW id \in Command, TimerDue(id)
  PROVE  Inductive'
<1> USE DEF Inductive
<1>1. UNCHANGED <<signedIn, revoking, hub, serve, caller, handling, player, finished, late, reports,
                  sends, shown, passedOn>>
  BY DEF TimerDue, accounts, connections, history
<1>2. waiting' \in [Command -> Waits]
  <2>1. [waiting[id] EXCEPT !.due = TRUE] \in Waits
    BY DEF TypeOK, Waits
  <2> QED
    BY <2>1 DEF TimerDue, TypeOK
<1>3. \A i \in Command : waiting'[i].to = waiting[i].to
  BY DEF TimerDue, TypeOK, Waits
<1>4. TypeOK'
  BY <1>1, <1>2 DEF TypeOK
<1>5. EndsAreSettled' /\ Once'
  BY <1>1, <1>3 DEF EndsAreSettled, Once, PassedOnOnce, New, Kept, Waiting
<1> QED
  BY <1>1, <1>4, <1>5, SameHub, TasksKeep, StateKeeps

(* Every step keeps the inductive invariant.                               *)
LEMMA InductiveStep == Inductive /\ [Next]_vars => Inductive'
<1> SUFFICES ASSUME Inductive, [Next]_vars PROVE Inductive'
  OBVIOUS
<1>1. CASE UNCHANGED vars
  <2>1. UNCHANGED <<signedIn, revoking, hub, serve, caller, handling, player, waiting, finished, late,
                    reports, sends, shown, passedOn>>
    BY <1>1 DEF vars, accounts, connections, commands, history
  <2>2. TypeOK'
    BY <2>1 DEF Inductive, TypeOK
  <2> QED
    BY <2>1, <2>2, SameHub, TasksKeep, SettledKeeps, CommandsKeep, StateKeeps DEF Inductive
<1>2. CASE Next
  BY <1>2, JoinStep, ServeStep, LeaveStep, DisconnectedStep, CheckStep, ApplyStep, ArrivesStep,
     AcceptStep, EndStep, DueStep, DeviceStep DEF Next
<1> QED
  BY <1>1, <1>2

-----------------------------------------------------------------------------
(* The inductive invariant of an account's player and commands.            *)
LEMMA AlwaysInductive == Spec => []Inductive
  BY InductiveInit, InductiveStep, PTL DEF Spec

(* The types of the connections, the player and the commands.              *)
THEOREM TypeCorrect == Spec => []TypeOK
<1>1. Inductive => TypeOK
  BY DEF Inductive
<1> QED
  BY <1>1, AlwaysInductive, PTL

(* Whatever interleaves, the state last queued to each connection counted  *)
(* is the account's (Players::connect, send_state, report, disconnected).  *)
THEOREM EveryoneIsToldTheState == Spec => []LastStateQueuedIsCurrent
<1>1. Inductive => LastStateQueuedIsCurrent
  BY DEF Inductive
<1> QED
  BY <1>1, AlwaysInductive, PTL

(* No command waits on a connection whose end was settled, and nothing is  *)
(* left playing over one (Players::command, report, disconnected).         *)
THEOREM NothingIsLeftToTheGone == Spec => [](NoCommandWaitsOnTheGone /\ PlaysOverALiveConnection)
<1>1. Inductive => NoCommandWaitsOnTheGone /\ PlaysOverALiveConnection
  BY DEF Inductive, EndsAreSettled, NoCommandWaitsOnTheGone, PlaysOverALiveConnection
<1> QED
  BY <1>1, AlwaysInductive, PTL

(* However often and from wherever a command is sent, and whatever ends    *)
(* it, it is passed on once while it waits or its result is kept           *)
(* (Players::command, end).                                                *)
THEOREM CommandsArePassedOnOnce == Spec => []PassedOnOnce
<1>1. Inductive => PassedOnOnce
  BY DEF Inductive, Once
<1> QED
  BY <1>1, AlwaysInductive, PTL

-----------------------------------------------------------------------------
(***************************************************************************)
(* The queues.                                                             *)
(***************************************************************************)
\* A database whose rows have their own IDs and whose active queue is stored.
DbOK(d) ==
    /\ d \in Database
    /\ \A q \in Queue : d.queues[q] # NoQueue => d.queues[q].id = q
    /\ d.active # None => d.queues[d.active] # NoQueue

\* Every row has its lists.
WholeDb(d) == \A q \in Queue : d.queues[q].lists \subseteq d.lists

\* A queue in memory has its lists held, or used by its own row.
Covered(x, d) == x # NoQueue => x.lists \subseteq held \cup d.queues[x.id].lists
Backs(d) ==
    /\ WholeDb(d)
    /\ Covered(active, d)
    /\ \A p \in parked : p.adjusted => Covered(p, d)

\* The active queue is not kept in a row, and memory not marked changed is as stored.
NotKept(x, d) == x # NoQueue => d.queues[x.id] = NoQueue \/ d.active = x.id
AsStored(d) ==
    active # NoQueue /\ ~changed =>
        /\ d.active = active.id /\ d.queues[active.id] = active
        /\ \A p \in parked : d.queues[p.id] = IF p.adjusted THEN p ELSE NoQueue
Fits(d) == Backs(d) /\ NotKept(active, d) /\ AsStored(d)

\* A job that wrote the account: its parked queues are in their rows, and a list the active
\* queue has gained since is held, and not among those it stored.
WroteAccount(o, d) ==
    /\ active # NoQueue
    /\ o.wrote = Ids(parked)
    /\ \A p \in parked : d.queues[p.id] = IF p.adjusted THEN p ELSE NoQueue
    /\ d.active = active.id
    /\ \A l \in active.lists : l \in d.queues[active.id].lists \/ l \in held \ o.stored
Done(o, d) == Fits(d) /\ (o.job \in {"save", "restore"} => WroteAccount(o, d))

\* A job whose commit fails: what its caller puts back fits the database as it is.
Undoable(o, d) ==
    /\ o.job = "save" => NotKept(active, d)
    /\ o.job = "restore" =>
           /\ active # NoQueue
           /\ Covered(o.previous, d) /\ NotKept(o.previous, d)
           /\ IF o.previous = NoQueue THEN parked = {} ELSE o.previous \in parked
           /\ \A t \in o.target : t.id = active.id /\ t.adjusted /\ Covered(t, d)
           /\ \A t, u \in o.target : t = u
    /\ o.job = "delete" =>
           /\ NotKept(active, d) /\ AsStored(d)
           /\ o.target # {} => changed
           /\ \A t \in o.target :
                  /\ t.id # active.id /\ t.id \notin Ids(parked)
                  /\ t.adjusted /\ Covered(t, d)
           /\ \A t, u \in o.target : t = u

\* What a job on the writer leaves of the rows it does not write.
LeavesRows(o) ==
    \A q \in Queue :
        \/ tx.db.queues[q] = db.queues[q]
        \/ q \in Ids(parked) \cup {active.id} /\ o.job \in {"save", "restore"}
        \/ tx.db.queues[q] = NoQueue /\ o.job = "delete"

Distinct ==
    /\ \A p, r \in parked : p.id = r.id => p = r
    /\ active.id \notin Ids(parked)

OneCaller ==
    /\ tx # NoTx => tx.outcome.job # "none" /\ \A c \in Caller : ended[c] = Idle
    /\ \A c, e \in Caller : ended[c] # Idle /\ ended[e] # Idle => c = e

Parts ==
    /\ Distinct
    /\ active = NoQueue => parked = {}
    /\ OneCaller
    /\ Backs(db)
    /\ tx # NoTx =>
           Done(tx.outcome, tx.db) /\ Undoable(tx.outcome, db) /\ LeavesRows(tx.outcome)
    /\ \A c \in Caller : ended[c] # Idle =>
           IF ended[c].ok THEN Done(ended[c], db) ELSE Undoable(ended[c], db)
    /\ tx = NoTx /\ (\A c \in Caller : ended[c] = Idle) => Fits(db)

Types ==
    /\ QueuesTypeOK
    /\ DbOK(tx.db)
    /\ tx # NoTx => tx.outcome.ok /\ tx.outcome.job # "none"
    /\ \A c \in Caller : ended[c] # Idle => ended[c].job # "none"

IInv == Types /\ (Prompt => Parts)

-----------------------------------------------------------------------------
(* What a queue is made of.                                                *)
LEMMA Contents ==
  /\ None \notin Queue
  /\ NoQueue \notin QueueContent /\ NoQueue \in Row
  /\ NoQueue.id = None /\ NoQueue.lists = {} /\ NoQueue.adjusted = FALSE
  /\ \A x \in QueueContent :
         /\ x.id \in Queue /\ x.lists \in SUBSET List /\ x.adjusted \in BOOLEAN
         /\ x.edits \in Seq(Edit)
  /\ \A x \in Row : x # NoQueue => x \in QueueContent
  BY QueueStoreAssumptions DEF QueueStoreAssumptions, QueueContent, NoQueue, Row

(* No job and no outcome.                                                  *)
LEMMA IdleIs ==
  /\ Idle \in Outcome /\ Idle.job = "none" /\ Idle.ok
  /\ Idle.stored = {} /\ Idle.wrote = {} /\ Idle.target = {} /\ Idle.previous = NoQueue
  /\ NoTx.outcome = Idle /\ NoTx.caller = None /\ NoTx.db \in Database /\ DbOK(NoTx.db)
  /\ NoTx.db.active = None /\ \A q \in Queue : NoTx.db.queues[q] = NoQueue
  BY Contents DEF Idle, NoTx, Outcome, DbOK, Database, Row

(* The row a parked queue is written to (save.rs:295-316).                 *)
LEMMA TheIsThere ==
  ASSUME NEW ps \in SUBSET QueueContent, NEW q \in Ids(ps)
  PROVE  /\ The(q, ps) \in ps /\ The(q, ps).id = q
         /\ q \in Queue
  BY Contents DEF The, Ids

(***************************************************************************)
(* What a write of the account leaves (save.rs:259-293): the rows of the   *)
(* queue that plays and of the parked ones to be kept, no other row        *)
(* changed, and every list that a row uses and that was there.             *)
(***************************************************************************)
LEMMA Writes ==
  ASSUME NEW d, DbOK(d), NEW x \in QueueContent, NEW ps \in SUBSET QueueContent,
         NEW lists \in SUBSET List, NEW w, w = WriteAccount(d, x, ps, lists)
  PROVE  /\ DbOK(w)
         /\ w.active = x.id /\ w.queues[x.id] = x
         /\ \A q \in Ids(ps) \ {x.id} :
                w.queues[q] = IF The(q, ps).adjusted THEN The(q, ps) ELSE NoQueue
         /\ \A q \in Queue \ (Ids(ps) \cup {x.id}) : w.queues[q] = d.queues[q]
         /\ \A q \in Queue :
                (d.lists \cup lists) \cap w.queues[q].lists \subseteq w.lists
<1> DEFINE parks == [q \in Queue |->
                        IF q \notin Ids(ps) THEN d.queues[q]
                        ELSE IF The(q, ps).adjusted THEN The(q, ps) ELSE NoQueue]
           rows == [parks EXCEPT ![x.id] = x]
<1>1. d = [queues |-> d.queues, active |-> d.active, lists |-> d.lists]
  BY DEF DbOK, Database
<1>2. w = [queues |-> rows, active |-> x.id,
           lists |-> (d.lists \cup lists) \cap UsedLists(rows)]
  BY <1>1 DEF WriteAccount, DropUnused, WriteQueue, WriteParked
<1>3. parks \in [Queue -> Row] /\ \A q \in Queue : parks[q] # NoQueue => parks[q].id = q
  BY Contents, TheIsThere DEF DbOK, Database, Row
<1> HIDE DEF parks
<1>4. /\ rows \in [Queue -> Row] /\ \A q \in Queue : rows[q] # NoQueue => rows[q].id = q
      /\ rows[x.id] = x /\ \A q \in Queue \ {x.id} : rows[q] = parks[q]
  BY <1>3, Contents DEF Row
<1> HIDE DEF rows
<1>5. DbOK(w)
  BY <1>2, <1>4, Contents DEF DbOK, Database, UsedLists
<1>6. \A q \in Queue : (d.lists \cup lists) \cap w.queues[q].lists \subseteq w.lists
  BY <1>2, <1>4 DEF UsedLists
<1> QED
  BY <1>2, <1>4, <1>5, <1>6, Contents, TheIsThere DEF parks

(***************************************************************************)
(* What the deletion of a queue leaves (keep.rs:308-337).                  *)
(***************************************************************************)
LEMMA DeleteWrites ==
  ASSUME NEW d, DbOK(d), NEW q \in Queue, NEW w,
         w = WithoutRow(d, q)
  PROVE  /\ DbOK(w)
         /\ w.active = IF d.active = q THEN None ELSE d.active
         /\ w.queues[q] = NoQueue
         /\ \A r \in Queue \ {q} : w.queues[r] = d.queues[r]
         /\ \A r \in Queue : d.lists \cap w.queues[r].lists \subseteq w.lists
<1> DEFINE rows == [d.queues EXCEPT ![q] = NoQueue]
           now == IF d.active = q THEN None ELSE d.active
<1>1. /\ d = [queues |-> d.queues, active |-> d.active, lists |-> d.lists]
      /\ d.queues \in [Queue -> Row] /\ d.active \in Queue \cup {None} /\ d.lists \subseteq List
      /\ \A r \in Queue : d.queues[r] # NoQueue => d.queues[r].id = r
      /\ d.active # None => d.queues[d.active] # NoQueue
  BY DEF DbOK, Database
<1>2. w = [queues |-> rows, active |-> now, lists |-> d.lists \cap UsedLists(rows)]
  BY <1>1 DEF WithoutRow, DropUnused
<1>3. /\ rows \in [Queue -> Row] /\ rows[q] = NoQueue
      /\ \A r \in Queue \ {q} : rows[r] = d.queues[r]
  BY <1>1, Contents
<1>4. now \in Queue \cup {None} /\ now # q /\ (now # None => now = d.active)
  BY <1>1, Contents
<1> HIDE DEF rows, now
<1>5. DbOK(w)
  BY <1>1, <1>2, <1>3, <1>4 DEF DbOK, Database
<1>6. \A r \in Queue : d.lists \cap w.queues[r].lists \subseteq w.lists
  BY <1>2, <1>3 DEF UsedLists
<1> QED
  BY <1>2, <1>3, <1>5, <1>6 DEF now

(* An account's held lists that a write stores (save.rs:161-180).          *)
LEMMA TakenType ==
  ASSUME NEW x \in QueueContent, NEW ps \in SUBSET QueueContent, held \in SUBSET List
  PROVE  Taken(x, ps) \in SUBSET held
  BY DEF Taken

-----------------------------------------------------------------------------
(* What every write that begins leaves alone.                              *)
LEMMA BeginsTypes ==
  ASSUME NEW expired, QueuesTypeOK, BeginsOver(expired)
  PROVE  /\ overtaken' \in BOOLEAN /\ ended' = ended
         /\ edits' = edits /\ abandoned' = abandoned /\ borrowed' = borrowed
  BY DEF BeginsOver, QueuesTypeOK

LEMMA FaultTypes ==
  ASSUME faults \in 0 .. MaxFaults, Fault
  PROVE  faults' \in 0 .. MaxFaults
  BY QueueStoreAssumptions DEF QueueStoreAssumptions, Fault

LEMMA StartTypes ==
  ASSUME Types, NEW q \in Queue, Start(q)
  PROVE  Types'
<1>1. Fresh(q) \in QueueContent /\ Base[q] \in List
  BY QueueStoreAssumptions DEF QueueStoreAssumptions, Fresh, QueueContent
<1>2. (IF HasAccount THEN parked \cup {active} ELSE {}) \subseteq QueueContent
  BY Contents DEF Types, QueuesTypeOK, HasAccount
<1> QED
  BY <1>1, <1>2, BeginsTypes
  DEF Types, QueuesTypeOK, Start, Begins, Row, Stored

LEMMA ApplyTypes ==
  ASSUME Types, NEW e \in Edit, Apply(e)
  PROVE  Types'
<1>1. active \in QueueContent
  BY QueueStoreAssumptions, Contents DEF QueueStoreAssumptions, Apply, Types, QueuesTypeOK, NoQueue
<1>2. active' \in QueueContent
  <2>1. /\ Append(active.edits, e) \in Seq(Edit)
        /\ (active.adjusted \/ Adjusting[e]) \in BOOLEAN
        /\ (active.lists \ Drops[e]) \cup Adds[e] \in SUBSET List
    BY <1>1, QueueStoreAssumptions, Contents DEF QueueStoreAssumptions
  <2> QED
    BY <1>1, <2>1 DEF Apply, QueueContent
<1>3. held' \subseteq List /\ edits' \in 0 .. MaxEdits /\ borrowed' \in BOOLEAN
  BY QueueStoreAssumptions DEF QueueStoreAssumptions, Apply, Types, QueuesTypeOK
<1>4. done' \in Seq(Edit) /\ Len(done') <= RememberedEdits
  <2>1. done \in Seq(Edit) /\ Len(done) <= RememberedEdits /\ RememberedEdits \in Nat \ {0}
    BY QueueStoreAssumptions DEF QueueStoreAssumptions, Types, QueuesTypeOK
  <2>2. CASE Len(done) = RememberedEdits
    <3>1. Tail(done) \in Seq(Edit) /\ Len(Tail(done)) = Len(done) - 1
      BY <2>1, <2>2
    <3> QED
      BY <2>1, <2>2, <3>1 DEF Apply, Latest32
  <2>3. CASE Len(done) # RememberedEdits
    BY <2>1, <2>3 DEF Apply, Latest32
  <2> QED
    BY <2>2, <2>3
<1> QED
  BY <1>2, <1>3, <1>4 DEF Apply, Types, QueuesTypeOK, Row, Stored

LEMMA SaveTypes ==
  ASSUME Types, Save
  PROVE  Types'
<1> DEFINE lists == Taken(active, parked)
           w == WriteAccount(db, active, parked, lists)
<1>1. active \in QueueContent /\ parked \subseteq QueueContent /\ held \subseteq List
  BY Contents DEF Save, Types, QueuesTypeOK, HasAccount
<1>2. lists \in SUBSET List
  BY <1>1, TakenType
<1>3. DbOK(db)
  BY DEF Types, QueuesTypeOK, DbOK, Stored
<1>4. DbOK(w)
  BY <1>1, <1>2, <1>3, Writes
<1>5. Ids(parked) \subseteq Queue
  BY <1>1, Contents DEF Ids
<1> HIDE DEF w, lists
<1> DEFINE o == [Idle EXCEPT !.job = "save", !.stored = lists, !.wrote = Ids(parked)]
<1>6. o \in Outcome /\ o.ok /\ o.job = "save"
  BY <1>2, <1>5, IdleIs DEF Outcome, Idle
<1> HIDE DEF o
<1>7. \/ changed' = FALSE /\ tx' = [caller |-> Saver, outcome |-> o, db |-> w] /\ UNCHANGED faults
      \/ Fault /\ UNCHANGED <<changed, tx>>
  BY DEF Save, Writing, o, w, lists
<1>8. tx' \in [caller : Caller \cup {None}, outcome : Outcome, db : Database] /\ DbOK(tx'.db)
      /\ (tx' # NoTx => tx'.outcome.ok /\ tx'.outcome.job # "none")
  BY <1>4, <1>6, <1>7 DEF Types, QueuesTypeOK, Caller, DbOK
<1>9. faults' \in 0 .. MaxFaults /\ changed' \in BOOLEAN
  <2>1. faults \in 0 .. MaxFaults /\ changed \in BOOLEAN
    BY DEF Types, QueuesTypeOK
  <2> QED
    BY <1>7, <2>1, FaultTypes
<1>10. DbOK(tx.db)'
  BY <1>8 DEF DbOK
<1> QED
  BY <1>8, <1>9, <1>10, BeginsTypes DEF Save, Begins, Types, QueuesTypeOK, Stored

(* The queue a restore takes, and the queues it leaves parked.             *)
LEMMA RestoreTakes ==
  ASSUME Types, NEW q \in Queue, IsKept(q), NEW target, NEW rest,
         target = IF FromMemory(q) # {} THEN The(q, parked) ELSE db.queues[q],
         rest = IF HasAccount THEN (parked \ FromMemory(q)) \cup {active} ELSE {}
  PROVE  /\ target \in QueueContent /\ target.id = q
         /\ rest \in SUBSET QueueContent
         /\ FromMemory(q) \in SUBSET QueueContent
         /\ Ids(rest) \subseteq Queue
<1>1. parked \in SUBSET QueueContent /\ active \in Row /\ db \in Database
  BY DEF Types, QueuesTypeOK
<1>2. target \in QueueContent /\ target.id = q
  <2>1. CASE q \in Ids(parked)
    BY <1>1, <2>1, TheIsThere DEF FromMemory
  <2>2. CASE q \notin Ids(parked)
    <3>1. target = db.queues[q] /\ Stored(q)
      BY <2>2 DEF FromMemory, IsKept, KeptRow
    <3> QED
      BY <1>1, <3>1, Contents DEF Types, QueuesTypeOK, Database, Stored
  <2> QED
    BY <2>1, <2>2
<1>3. FromMemory(q) \in SUBSET parked
  BY <1>1, TheIsThere DEF FromMemory
<1>4. rest \in SUBSET QueueContent
  BY <1>1, Contents DEF HasAccount
<1> QED
  BY <1>1, <1>2, <1>3, <1>4, Contents DEF Ids

(* What is put back is of the types (keep.rs:236-253).                     *)
LEMMA PutBackTypes ==
  ASSUME NEW rest \in SUBSET QueueContent, NEW target \in SUBSET QueueContent,
         NEW previous \in Row, PutBack(rest, target, previous),
         QueuesTypeOK
  PROVE  /\ active' \in Row /\ parked' \subseteq QueueContent /\ held' \subseteq List
         /\ done' \in Seq(Edit) /\ Len(done') <= RememberedEdits /\ changed' \in BOOLEAN
<1>1. CASE previous = NoQueue
  <2>1. Len(<<>>) = 0 /\ <<>> \in Seq(Edit) /\ 0 <= RememberedEdits
    BY QueueStoreAssumptions DEF QueueStoreAssumptions
  <2> QED
    BY <1>1, <2>1, Contents DEF PutBack
<1>2. CASE previous # NoQueue
  BY <1>2 DEF PutBack, QueuesTypeOK, Without
<1> QED
  BY <1>1, <1>2

LEMMA RestoreTypes ==
  ASSUME Types, NEW q \in Queue, NEW c \in Client, Restore(c, q)
  PROVE  Types'
<1> DEFINE from   == FromMemory(q)
           target == IF from # {} THEN The(q, parked) ELSE db.queues[q]
           rest   == IF HasAccount THEN (parked \ from) \cup {active} ELSE {}
           lists  == Taken(target, rest)
           w      == WriteAccount(db, target, rest, lists)
           o      == [job |-> "restore", ok |-> TRUE, stored |-> lists,
                      wrote |-> Ids(rest), target |-> from, previous |-> active]
<1>1. /\ target \in QueueContent /\ rest \in SUBSET QueueContent
      /\ from \in SUBSET QueueContent /\ Ids(rest) \subseteq Queue
  BY RestoreTakes DEF Restore
<1>2. \/ /\ active' = target /\ parked' = rest /\ changed' = FALSE
         /\ tx' = [caller |-> c, outcome |-> o, db |-> w]
         /\ UNCHANGED <<held, done, faults>>
      \/ Fault /\ PutBack(rest, from, active) /\ UNCHANGED tx
  BY DEF Restore, Writing
<1>3. lists \in SUBSET List
  BY <1>1, TakenType DEF Types, QueuesTypeOK
<1>4. DbOK(w)
  <2>1. DbOK(db)
    BY DEF Types, QueuesTypeOK, DbOK, Stored
  <2> HIDE DEF from, target, rest, lists
  <2> QED
    BY <1>1, <1>3, <2>1, Writes
<1>5. o \in Outcome /\ o.ok /\ o.job = "restore"
  BY <1>1, <1>3 DEF Outcome, Types, QueuesTypeOK
<1>6. /\ db' = db /\ overtaken' \in BOOLEAN /\ ended' = ended
      /\ edits' = edits /\ abandoned' = abandoned /\ borrowed' = borrowed
  BY BeginsTypes DEF Restore, Begins, Types
<1>7. c \in Caller
  BY DEF Caller
<1> HIDE DEF w, lists, o, target, rest, from
<1>8. CASE /\ active' = target /\ parked' = rest /\ changed' = FALSE
           /\ tx' = [caller |-> c, outcome |-> o, db |-> w]
           /\ UNCHANGED <<held, done, faults>>
  <2>1. /\ tx' \in [caller : Caller \cup {None}, outcome : Outcome, db : Database]
        /\ tx'.outcome.ok /\ tx'.outcome.job # "none" /\ DbOK(tx'.db)
    BY <1>4, <1>5, <1>7, <1>8 DEF DbOK
  <2> QED
    BY <1>1, <1>6, <1>8, <2>1 DEF Types, QueuesTypeOK, Row, Stored, DbOK
<1>9. CASE Fault /\ PutBack(rest, from, active) /\ UNCHANGED tx
  <2>1. faults' \in 0 .. MaxFaults
    BY <1>9, FaultTypes DEF Types, QueuesTypeOK
  <2>2. active \in Row /\ QueuesTypeOK
    BY DEF Types, QueuesTypeOK
  <2>3. /\ active' \in Row /\ parked' \subseteq QueueContent /\ held' \subseteq List
        /\ done' \in Seq(Edit) /\ Len(done') <= RememberedEdits /\ changed' \in BOOLEAN
    BY <1>1, <1>9, <2>2, PutBackTypes
  <2> QED
    BY <1>6, <1>9, <2>1, <2>3 DEF Types, QueuesTypeOK, Stored, DbOK
<1> QED
  BY <1>2, <1>8, <1>9

LEMMA DeleteTypes ==
  ASSUME Types, NEW q \in Queue, NEW c \in Client, Delete(c, q)
  PROVE  Types'
<1> DEFINE from == FromMemory(q)
           w == WithoutRow(db, q)
           o == [Idle EXCEPT !.job = "delete", !.target = from]
<1>1. parked \in SUBSET QueueContent /\ from \in SUBSET QueueContent
  BY TheIsThere DEF Types, QueuesTypeOK, FromMemory
<1>2. \/ /\ parked' = parked \ from
         /\ tx' = [caller |-> c, outcome |-> o, db |-> w] /\ UNCHANGED faults
      \/ Fault /\ UNCHANGED <<parked, tx>>
  BY DEF Delete, Writing
<1>3. DbOK(w)
  <2>1. DbOK(db)
    BY DEF Types, QueuesTypeOK, DbOK, Stored
  <2>2. w = WithoutRow(db, q)
    OBVIOUS
  <2> HIDE DEF w
  <2> QED
    BY <2>1, <2>2, DeleteWrites
<1>4. o \in Outcome /\ o.ok /\ o.job = "delete"
  BY <1>1, IdleIs DEF Outcome, Idle
<1>5. /\ db' = db /\ overtaken' \in BOOLEAN /\ ended' = ended
      /\ edits' = edits /\ abandoned' = abandoned /\ borrowed' = borrowed
      /\ active' = active /\ held' = held /\ done' = done /\ changed' \in BOOLEAN
  BY BeginsTypes DEF Delete, Begins, Types, QueuesTypeOK
<1>6. c \in Caller
  BY DEF Caller
<1> HIDE DEF w, o, from
<1>7. CASE /\ parked' = parked \ from
           /\ tx' = [caller |-> c, outcome |-> o, db |-> w] /\ UNCHANGED faults
  <2>1. /\ tx' \in [caller : Caller \cup {None}, outcome : Outcome, db : Database]
        /\ tx'.outcome.ok /\ tx'.outcome.job # "none" /\ DbOK(tx'.db)
    BY <1>3, <1>4, <1>6, <1>7 DEF DbOK
  <2> QED
    BY <1>1, <1>5, <1>7, <2>1 DEF Types, QueuesTypeOK, Stored, DbOK
<1>8. CASE Fault /\ UNCHANGED <<parked, tx>>
  BY <1>5, <1>8, FaultTypes DEF Types, QueuesTypeOK, Stored, DbOK
<1> QED
  BY <1>2, <1>7, <1>8

LEMMA RetentionTypes ==
  ASSUME Types, SweepLists \/ \E q \in Queue : Expire(q)
  PROVE  Types'
<1>1. DbOK(db')
  <2>1. DbOK(db) /\ db = [queues |-> db.queues, active |-> db.active, lists |-> db.lists]
    BY DEF Types, QueuesTypeOK, DbOK, Stored, Database
  <2>2. ASSUME NEW q \in Queue, Expire(q) PROVE DbOK(db')
    <3>1. db' = [queues |-> [db.queues EXCEPT ![q] = NoQueue], active |-> db.active,
                 lists |-> db.lists] /\ db.active # q
      BY <2>1, <2>2 DEF Expire, KeptRow
    <3> QED
      BY <2>1, <3>1, Contents DEF DbOK, Database
  <2>3. CASE SweepLists
    <3>1. db' = [queues |-> db.queues, active |-> db.active,
                 lists |-> db.lists \cap UsedLists(db.queues)]
      BY <2>1, <2>3 DEF SweepLists, DropUnused
    <3> QED
      BY <2>1, <3>1 DEF DbOK, Database
  <2> QED
    BY <2>2, <2>3
<1>2. /\ overtaken' \in BOOLEAN /\ ended' = ended
      /\ edits' = edits /\ abandoned' = abandoned /\ borrowed' = borrowed
      /\ UNCHANGED <<memory, tx, faults>>
  BY BeginsTypes DEF Expire, SweepLists, Begins, Types
<1> QED
  BY <1>1, <1>2 DEF Types, QueuesTypeOK, Stored, DbOK, memory

LEMMA CommitTypes ==
  ASSUME Types, Commit \/ FailCommit
  PROVE  Types'
<1> DEFINE o == IF Commit THEN tx.outcome ELSE [tx.outcome EXCEPT !.ok = FALSE]
<1>1. tx # NoTx /\ tx.outcome \in Outcome /\ tx.outcome.job # "none"
      /\ tx \in [caller : Caller \cup {None}, outcome : Outcome, db : Database]
  BY DEF Commit, FailCommit, WriterFree, Types, QueuesTypeOK
<1>2. o \in Outcome /\ o.job # "none"
  BY <1>1 DEF Outcome
<1>3. Reply(o) /\ (db' = db \/ db' = tx.db) /\ UNCHANGED memory
      /\ faults' \in 0 .. MaxFaults
      /\ abandoned' \in BOOLEAN /\ overtaken' = overtaken /\ edits' = edits
      /\ borrowed' = borrowed
  BY FaultTypes DEF Commit, FailCommit, Types, QueuesTypeOK, queueHistory
<1> HIDE DEF o
<1>4. ended' \in [Caller -> Outcome]
      /\ \A c \in Caller : ended'[c] # Idle => ended'[c].job # "none"
  <2>1. ended \in [Caller -> Outcome] /\ \A c \in Caller : ended[c] # Idle => ended[c].job # "none"
    BY DEF Types, QueuesTypeOK
  <2>2. ended' = IF tx.caller \in Caller THEN [ended EXCEPT ![tx.caller] = o] ELSE ended
    BY <1>3 DEF Reply
  <2> QED
    BY <1>2, <2>1, <2>2
<1>5. tx' = NoTx
  BY <1>3 DEF Reply
<1>6. DbOK(db')
  BY <1>3 DEF Types, QueuesTypeOK, DbOK, Stored
<1>7. NoTx \in [caller : Caller \cup {None}, outcome : Outcome, db : Database]
      /\ DbOK(NoTx.db)
  BY IdleIs DEF NoTx
<1> QED
  BY <1>3, <1>4, <1>5, <1>6, <1>7 DEF Types, QueuesTypeOK, Stored, DbOK, memory

(* What its caller does about an outcome, job by job.                      *)
LEMMA SettleCases ==
  ASSUME Types, NEW c \in Caller, Settle(c), NEW o, o = ended[c]
  PROVE  /\ o \in Outcome /\ o # Idle /\ o.job # "none"
         /\ ended' = [ended EXCEPT ![c] = Idle]
         /\ UNCHANGED <<db, tx, faults, queueHistory>>
         /\ \/ ~HasAccount /\ UNCHANGED memory
            \/ HasAccount /\ o.ok /\ o.job \in {"save", "restore"} /\ Committed(o)
            \/ /\ HasAccount /\ ~o.ok /\ o.job = "save"
               /\ changed' = TRUE /\ UNCHANGED <<active, parked, held, done>>
            \/ HasAccount /\ ~o.ok /\ o.job = "restore" /\ PutBack(parked, o.target, o.previous)
            \/ /\ HasAccount /\ o.job = "delete"
               /\ parked' = IF o.ok THEN parked ELSE parked \cup o.target
               /\ UNCHANGED <<active, held, done, changed>>
<1>1. o \in Outcome /\ o # Idle /\ o.job # "none"
  BY DEF Types, QueuesTypeOK, Settle
<1>2. o.job \in {"save", "restore", "delete"} /\ o.ok \in BOOLEAN
  BY <1>1 DEF Outcome
<1> QED
  BY <1>1, <1>2 DEF Settle

LEMMA SettleTypes ==
  ASSUME Types, NEW c \in Caller, Settle(c)
  PROVE  Types'
<1> DEFINE o == ended[c]
<1>1. /\ o \in Outcome /\ ended' = [ended EXCEPT ![c] = Idle]
      /\ UNCHANGED <<db, tx, faults, queueHistory>>
  BY SettleCases
<1>2. ended' \in [Caller -> Outcome]
      /\ \A e \in Caller : ended'[e] # Idle => ended'[e].job # "none"
  BY <1>1, IdleIs DEF Types, QueuesTypeOK
<1>3. /\ o.target \in SUBSET QueueContent /\ o.previous \in Row /\ o.ok \in BOOLEAN
      /\ active \in Row /\ parked \in SUBSET QueueContent /\ held \in SUBSET List
      /\ done \in Seq(Edit) /\ Len(done) <= RememberedEdits /\ changed \in BOOLEAN
      /\ QueuesTypeOK
  BY <1>1 DEF Outcome, Types, QueuesTypeOK
<1>4. /\ active' \in Row /\ parked' \subseteq QueueContent /\ held' \subseteq List
      /\ done' \in Seq(Edit) /\ Len(done') <= RememberedEdits /\ changed' \in BOOLEAN
  <2>1. CASE UNCHANGED memory
    BY <1>3, <2>1 DEF memory
  <2>2. CASE Committed(o)
    BY <1>3, <2>2 DEF Committed, Without
  <2>3. CASE changed' = TRUE /\ UNCHANGED <<active, parked, held, done>>
    BY <1>3, <2>3
  <2>4. CASE PutBack(parked, o.target, o.previous)
    BY <1>3, <2>4, PutBackTypes
  <2>5. CASE /\ parked' = IF o.ok THEN parked ELSE parked \cup o.target
             /\ UNCHANGED <<active, held, done, changed>>
    BY <1>3, <2>5
  <2> QED
    BY <2>1, <2>2, <2>3, <2>4, <2>5, SettleCases
<1> QED
  BY <1>1, <1>2, <1>4 DEF Types, QueuesTypeOK, Stored, DbOK, queueHistory

LEMMA HangUpTypes ==
  ASSUME Types, NEW c \in Caller, HangUp(c)
  PROVE  Types'
<1>1. /\ UNCHANGED <<memory, db, edits, overtaken, borrowed>>
      /\ faults' \in 0 .. MaxFaults
      /\ \/ tx.caller = c /\ tx' = [tx EXCEPT !.caller = None] /\ UNCHANGED <<ended, abandoned>>
         \/ /\ ended' = [ended EXCEPT ![c] = Idle]
            /\ abandoned' = (abandoned \/ ~ended[c].ok) /\ UNCHANGED tx
  BY FaultTypes DEF HangUp, Types, QueuesTypeOK
<1>2. tx' \in [caller : Caller \cup {None}, outcome : Outcome, db : Database]
      /\ tx'.outcome = tx.outcome /\ tx'.db = tx.db
  BY <1>1 DEF Types, QueuesTypeOK
<1>3. tx = NoTx => tx' = NoTx
  BY <1>1, IdleIs, QueueStoreAssumptions DEF QueueStoreAssumptions, Caller, Saver
<1>4. /\ ended' \in [Caller -> Outcome]
      /\ \A e \in Caller : ended'[e] # Idle => ended'[e].job # "none"
      /\ abandoned' \in BOOLEAN
  BY <1>1, IdleIs DEF Types, QueuesTypeOK
<1> QED
  BY <1>1, <1>2, <1>3, <1>4 DEF Types, QueuesTypeOK, Stored, DbOK, memory

LEMMA CrashTypes ==
  ASSUME Types, Crash
  PROVE  Types'
<1>1. active' \in Row
  BY Contents DEF Crash, Types, QueuesTypeOK, Database
<1>2. faults' \in 0 .. MaxFaults /\ edits' \in 0 .. MaxEdits
  BY FaultTypes, QueueStoreAssumptions
  DEF QueueStoreAssumptions, Crash, Types, QueuesTypeOK
<1>3. /\ tx' = NoTx /\ ended' = [c \in Caller |-> Idle] /\ done' = <<>> /\ parked' = {}
      /\ held' = {} /\ changed' = FALSE /\ UNCHANGED <<db, overtaken, abandoned, borrowed>>
  BY DEF Crash
<1>4. NoTx \in [caller : Caller \cup {None}, outcome : Outcome, db : Database]
      /\ DbOK(NoTx.db) /\ ended' \in [Caller -> Outcome]
      /\ \A c \in Caller : ended'[c] = Idle
  BY <1>3, IdleIs DEF NoTx
<1>5. done' \in Seq(Edit) /\ Len(done') <= RememberedEdits
  BY <1>3, QueueStoreAssumptions DEF QueueStoreAssumptions
<1> QED
  BY <1>1, <1>2, <1>3, <1>4, <1>5 DEF Types, QueuesTypeOK, Stored, DbOK

LEMMA InitTypes ==
  ASSUME QueuesInit
  PROVE  Types
<1>1. NoTx \in [caller : Caller \cup {None}, outcome : Outcome, db : Database]
      /\ DbOK(NoTx.db) /\ NoTx.db \in Database /\ ended \in [Caller -> Outcome]
      /\ \A c \in Caller : ended[c] = Idle
  BY IdleIs DEF NoTx, QueuesInit
<1>2. done \in Seq(Edit) /\ Len(done) <= RememberedEdits
      /\ edits \in 0 .. MaxEdits /\ faults \in 0 .. MaxFaults
  BY QueueStoreAssumptions DEF QueueStoreAssumptions, QueuesInit
<1> QED
  BY <1>1, <1>2, Contents DEF QueuesInit, Types, QueuesTypeOK, Stored, DbOK

(* Every step keeps the types.                                             *)
LEMMA StepTypes ==
  ASSUME Types, [QueuesNext]_queueVars
  PROVE  Types'
<1>1. CASE QueuesNext
  <2>1. ASSUME NEW q \in Queue, Start(q) PROVE Types'
    BY <2>1, StartTypes
  <2>2. ASSUME NEW q \in Queue, Expire(q) PROVE Types'
    BY <2>2, RetentionTypes
  <2>3. ASSUME NEW q \in Queue, NEW c \in Client, Restore(c, q) PROVE Types'
    BY <2>3, RestoreTypes
  <2>4. ASSUME NEW q \in Queue, NEW c \in Client, Delete(c, q) PROVE Types'
    BY <2>4, DeleteTypes
  <2>5. ASSUME NEW e \in Edit, Apply(e) PROVE Types'
    BY <2>5, ApplyTypes
  <2>6. ASSUME NEW c \in Caller, Settle(c) PROVE Types'
    BY <2>6, SettleTypes
  <2>7. ASSUME NEW c \in Caller, HangUp(c) PROVE Types'
    BY <2>7, HangUpTypes
  <2>8. CASE Save \/ SweepLists \/ Commit \/ FailCommit \/ Crash
    BY <2>8, SaveTypes, RetentionTypes, CommitTypes, CrashTypes
  <2> QED
    BY <1>1, <2>1, <2>2, <2>3, <2>4, <2>5, <2>6, <2>7, <2>8 DEF QueuesNext
<1>2. CASE UNCHANGED queueVars
  BY <1>2 DEF queueVars, memory, queueHistory, Types, QueuesTypeOK, Stored, DbOK
<1> QED
  BY <1>1, <1>2

-----------------------------------------------------------------------------
AllIdle == \A c \in Caller : ended[c] = Idle

(* A job that begins and overtakes no caller begins while all is quiet.    *)
LEMMA BeginsQuiet ==
  ASSUME IInv, NEW expired, BeginsOver(expired), Prompt'
  PROVE  /\ Prompt /\ Parts /\ tx = NoTx /\ AllIdle /\ ended' = ended
         /\ Fits(db)
         /\ expired \cap Ids(parked) = {}
<1>1. Prompt /\ tx = NoTx /\ ended' = ended /\ Unsettled = {} /\ expired \cap Ids(parked) = {}
  BY DEF BeginsOver, Prompt, InTurn, WriterFree
<1>2. AllIdle
  BY <1>1 DEF Unsettled, AllIdle
<1> QED
  BY <1>1, <1>2 DEF IInv, Parts, AllIdle

LEMMA StartParts ==
  ASSUME IInv, Types', NEW q \in Queue, Start(q), Prompt'
  PROVE  Parts'
<1>1. /\ Parts /\ tx = NoTx /\ AllIdle /\ ended' = ended /\ Fits(db)
  BY BeginsQuiet DEF Start, Begins
<1>2. /\ active' = Fresh(q) /\ held' = held \cup {Base[q]} /\ changed' = TRUE
      /\ parked' = IF HasAccount THEN parked \cup {active} ELSE {}
      /\ db' = db /\ tx' = NoTx /\ ~Stored(q) /\ ~Names(q)
  BY <1>1 DEF Start
<1>3. Fresh(q) # NoQueue /\ Fresh(q).id = q /\ Fresh(q).lists = {Base[q]}
  BY Contents DEF Fresh, NoQueue
<1>4. Distinct'
  BY <1>1, <1>2, <1>3 DEF Parts, Distinct, Names, Ids
<1>5. Backs(db)'
  BY <1>1, <1>2, <1>3 DEF Fits, Backs, WholeDb, Covered, HasAccount
<1>6. Fits(db)'
  BY <1>2, <1>3, <1>5 DEF Fits, NotKept, AsStored, Stored
<1>7. OneCaller' /\ AllIdle'
  BY <1>1, <1>2 DEF Parts, OneCaller, AllIdle
<1> QED
  BY <1>2, <1>3, <1>4, <1>5, <1>6, <1>7 DEF Parts, AllIdle

LEMMA ApplyParts ==
  ASSUME IInv, Types', NEW e \in Edit, Apply(e), Prompt'
  PROVE  Parts'
<1>1. Prompt /\ Parts /\ ~Borrows(e)
  BY DEF Apply, Prompt, InTurn, IInv
<1>2. /\ active \in QueueContent /\ active # NoQueue /\ active.id = On[e] /\ active.id \in Queue
  BY QueueStoreAssumptions, Contents
  DEF QueueStoreAssumptions, Apply, IInv, Types, QueuesTypeOK, NoQueue
<1>3. /\ active'.id = active.id /\ active'.lists = (active.lists \ Drops[e]) \cup Adds[e]
      /\ held' = held \cup Adds[e] /\ changed' = TRUE
      /\ UNCHANGED <<parked, db, tx, ended>>
  BY <1>2 DEF Apply, QueueContent
<1>4. active' # NoQueue
  BY <1>2, <1>3, Contents
<1>5. ASSUME NEW d, Backs(d)
      PROVE  Backs(d)'
  BY <1>2, <1>3, <1>4, <1>5 DEF Backs, WholeDb, Covered
<1>6. ASSUME NEW d, Fits(d)
      PROVE  Fits(d)'
  BY <1>2, <1>3, <1>4, <1>5, <1>6 DEF Fits, NotKept, AsStored
<1>7. ASSUME NEW o, NEW d, Undoable(o, d)
      PROVE  Undoable(o, d)'
  BY <1>2, <1>3, <1>4, <1>7 DEF Undoable, NotKept, AsStored, Covered, Ids
<1>8. ASSUME NEW o, NEW d, Done(o, d), d = Written, o.stored \subseteq Storing
      PROVE  Done(o, d)'
  <2>1. Fits(d)'
    BY <1>6, <1>8 DEF Done
  <2>2. ASSUME WroteAccount(o, d) PROVE WroteAccount(o, d)'
    <3>1. \A l \in Adds[e] : l \in o.stored => l \in d.queues[active.id].lists
      BY <1>1, <1>2, <1>8 DEF Borrows
    <3> QED
      BY <1>3, <1>4, <2>2, <3>1 DEF WroteAccount, Ids
  <2> QED
    BY <1>8, <2>1, <2>2 DEF Done
<1>9. tx # NoTx =>
        Done(tx.outcome, tx.db)' /\ Undoable(tx.outcome, db)' /\ LeavesRows(tx.outcome)'
  <2> SUFFICES ASSUME tx # NoTx
               PROVE  Done(tx.outcome, tx.db)' /\ Undoable(tx.outcome, db)'
                      /\ LeavesRows(tx.outcome)'
    OBVIOUS
  <2>1. tx.db = Written /\ tx.outcome.stored \subseteq Storing
    BY DEF Written, WriterFree, Storing
  <2>2. LeavesRows(tx.outcome)'
    BY <1>1, <1>3 DEF Parts, LeavesRows, Ids
  <2> QED
    BY <1>1, <1>3, <1>7, <1>8, <2>1, <2>2 DEF Parts
<1>10. \A c \in Caller : ended[c] # Idle =>
          IF ended[c].ok THEN Done(ended[c], db)' ELSE Undoable(ended[c], db)'
  <2> SUFFICES ASSUME NEW c \in Caller, ended[c] # Idle
               PROVE  IF ended[c].ok THEN Done(ended[c], db)' ELSE Undoable(ended[c], db)'
    OBVIOUS
  <2>1. db = Written /\ ended[c].stored \subseteq Storing
    BY <1>1 DEF Parts, OneCaller, Written, WriterFree, Storing
  <2> QED
    BY <1>1, <1>3, <1>7, <1>8, <2>1 DEF Parts
<1>11. Distinct' /\ OneCaller'
  BY <1>1, <1>3 DEF Parts, Distinct, OneCaller, Ids
<1>12. Backs(db)' /\ (tx = NoTx /\ AllIdle => Fits(db)')
  BY <1>1, <1>3, <1>5, <1>6 DEF Parts, AllIdle
<1> QED
  BY <1>3, <1>4, <1>9, <1>10, <1>11, <1>12 DEF Parts, AllIdle

(***************************************************************************)
(* A write of the account, its queues being covered, leaves a database in  *)
(* which they are as in memory, and whole (save.rs:161-180, 259-293).      *)
(***************************************************************************)
LEMMA WriteFits ==
  ASSUME NEW d, DbOK(d), WholeDb(d), held \in SUBSET List,
         NEW x \in QueueContent, NEW ps \in SUBSET QueueContent,
         x.id \notin Ids(ps), \A p, r \in ps : p.id = r.id => p = r,
         Covered(x, d), \A p \in ps : p.adjusted => Covered(p, d),
         NEW w, w = WriteAccount(d, x, ps, Taken(x, ps))
  PROVE  /\ WholeDb(w)
         /\ w.active = x.id /\ w.queues[x.id] = x
         /\ \A p \in ps : w.queues[p.id] = IF p.adjusted THEN p ELSE NoQueue
         /\ \A q \in Queue \ (Ids(ps) \cup {x.id}) : w.queues[q] = d.queues[q]
<1> DEFINE lists == Taken(x, ps)
<1>1. lists \in SUBSET List
  BY TakenType
<1>2. /\ w.active = x.id /\ w.queues[x.id] = x
      /\ \A q \in Ids(ps) \ {x.id} :
             w.queues[q] = IF The(q, ps).adjusted THEN The(q, ps) ELSE NoQueue
      /\ \A q \in Queue \ (Ids(ps) \cup {x.id}) : w.queues[q] = d.queues[q]
      /\ \A q \in Queue : (d.lists \cup lists) \cap w.queues[q].lists \subseteq w.lists
  <2> HIDE DEF lists
  <2>1. w = WriteAccount(d, x, ps, lists)
    BY DEF lists
  <2> QED
    BY <1>1, <2>1, Writes
<1>3. \A p \in ps : The(p.id, ps) = p /\ p.id \in Ids(ps) \ {x.id}
  BY TheIsThere DEF Ids
<1>4. \A p \in ps : w.queues[p.id] = IF p.adjusted THEN p ELSE NoQueue
  BY <1>2, <1>3
<1>5. ASSUME NEW y \in {x} \cup ps, y = x \/ y.adjusted
      PROVE  y.lists \subseteq d.lists \cup lists
  <2>1. y.lists \subseteq held \cup d.queues[y.id].lists /\ y.id \in Queue
    BY <1>5, Contents DEF Covered
  <2>2. d.queues[y.id].lists \subseteq d.lists
    BY <2>1 DEF WholeDb
  <2>3. held \cap y.lists \subseteq lists
    BY <1>5 DEF Taken
  <2> QED
    BY <2>1, <2>2, <2>3
<1>6. ASSUME NEW q \in Queue
      PROVE  w.queues[q].lists \subseteq d.lists \cup lists
  <2>1. CASE q = x.id
    BY <1>2, <1>5, <2>1
  <2>2. CASE q \in Ids(ps) \ {x.id}
    <3>1. PICK p \in ps : p.id = q
      BY <2>2 DEF Ids
    <3> QED
      BY <1>4, <1>5, <3>1, Contents
  <2>3. CASE q \notin Ids(ps) \cup {x.id}
    BY <1>2, <2>3 DEF WholeDb
  <2> QED
    BY <2>1, <2>2, <2>3
<1>7. WholeDb(w)
  BY <1>2, <1>6 DEF WholeDb
<1> QED
  BY <1>2, <1>4, <1>7

LEMMA SaveParts ==
  ASSUME IInv, Types', Save, Prompt'
  PROVE  Parts'
<1>1. /\ Parts /\ tx = NoTx /\ AllIdle /\ ended' = ended /\ Fits(db) /\ db' = db
      /\ UNCHANGED <<active, parked, held>> /\ active # NoQueue
  BY BeginsQuiet DEF Save, Begins, HasAccount
<1> DEFINE lists == Taken(active, parked)
           w == WriteAccount(db, active, parked, lists)
           o == [Idle EXCEPT !.job = "save", !.stored = lists, !.wrote = Ids(parked)]
<1>2. /\ active \in QueueContent /\ parked \in SUBSET QueueContent /\ held \in SUBSET List
      /\ active.id \in Queue /\ DbOK(db)
  BY <1>1, Contents DEF IInv, Types, QueuesTypeOK, DbOK, Stored
<1>3. \/ changed' = FALSE /\ tx' = [caller |-> Saver, outcome |-> o, db |-> w]
      \/ UNCHANGED <<changed, tx>>
  BY DEF Save, Writing
<1>4. /\ WholeDb(w) /\ w.active = active.id /\ w.queues[active.id] = active
      /\ \A p \in parked : w.queues[p.id] = IF p.adjusted THEN p ELSE NoQueue
      /\ \A q \in Queue \ (Ids(parked) \cup {active.id}) : w.queues[q] = db.queues[q]
  <2>1. /\ active.id \notin Ids(parked) /\ \A p, r \in parked : p.id = r.id => p = r
        /\ WholeDb(db) /\ Covered(active, db) /\ \A p \in parked : p.adjusted => Covered(p, db)
    BY <1>1 DEF Parts, Distinct, Backs
  <2>2. w = WriteAccount(db, active, parked, Taken(active, parked))
    OBVIOUS
  <2> HIDE DEF w
  <2> QED
    BY <1>2, <2>1, <2>2, WriteFits
<1>5. o.job = "save" /\ o.wrote = Ids(parked)
  BY DEF Idle
<1> HIDE DEF w, o, lists
<1>6. CASE UNCHANGED <<changed, tx>>
  BY <1>1, <1>6
  DEF Parts, Distinct, OneCaller, AllIdle, Backs, Fits, NotKept, AsStored, Covered, WholeDb, Ids
<1>7. CASE changed' = FALSE /\ tx' = [caller |-> Saver, outcome |-> o, db |-> w]
  <2>1. tx'.outcome = o /\ tx'.db = w
    BY <1>7
  <2>2. Distinct' /\ Backs(db)' /\ OneCaller' /\ (\A c \in Caller : ended'[c] = Idle) /\ tx' # NoTx
    BY <1>1, <1>5, <2>1, IdleIs
    DEF Parts, Distinct, Ids, Backs, WholeDb, Covered, OneCaller, AllIdle
  <2>3. Fits(tx.db)'
    BY <1>1, <1>4, <2>1 DEF Fits, Backs, WholeDb, Covered, NotKept, AsStored
  <2>4. WroteAccount(tx.outcome, tx.db)'
    BY <1>1, <1>4, <1>5, <2>1 DEF WroteAccount, Ids
  <2>5. Undoable(tx.outcome, db)'
    BY <1>1, <1>5, <2>1 DEF Undoable, Fits, NotKept
  <2>6. LeavesRows(tx.outcome)'
    BY <1>1, <1>4, <1>5, <2>1 DEF LeavesRows, Ids
  <2> QED
    BY <1>1, <2>2, <2>3, <2>4, <2>5, <2>6 DEF Parts, Done
<1> QED
  BY <1>3, <1>6, <1>7

LEMMA RestoreParts ==
  ASSUME IInv, Types', NEW q \in Queue, NEW c \in Client, Restore(c, q), Prompt'
  PROVE  Parts'
<1> DEFINE from   == FromMemory(q)
           target == IF from # {} THEN The(q, parked) ELSE db.queues[q]
           rest   == IF HasAccount THEN (parked \ from) \cup {active} ELSE {}
           w      == WriteAccount(db, target, rest, Taken(target, rest))
           o      == [job |-> "restore", ok |-> TRUE, stored |-> Taken(target, rest),
                      wrote |-> Ids(rest), target |-> from, previous |-> active]
<1>1. /\ Parts /\ tx = NoTx /\ AllIdle /\ ended' = ended /\ Fits(db) /\ db' = db
      /\ active.id # q
  BY BeginsQuiet DEF Restore, Begins
<1>2. /\ parked \in SUBSET QueueContent /\ held \in SUBSET List /\ DbOK(db) /\ active \in Row
  BY DEF IInv, Types, QueuesTypeOK, DbOK, Stored
<1>3. /\ target \in QueueContent /\ target.id = q /\ rest \in SUBSET QueueContent
      /\ Ids(rest) \subseteq Queue
  BY RestoreTakes DEF Restore, IInv
<1>4. \/ /\ active' = target /\ parked' = rest /\ changed' = FALSE /\ held' = held
         /\ tx' = [caller |-> c, outcome |-> o, db |-> w]
      \/ PutBack(rest, from, active) /\ UNCHANGED tx
  BY DEF Restore, Writing
<1>5. \A t \in from : t = target /\ t \in parked /\ t.adjusted
  BY <1>2, TheIsThere, Contents DEF FromMemory, Restore, IsKept
<1>6. Covered(target, db) /\ \A t \in from : Covered(t, db)
  <2>1. CASE from = {}
    BY <1>2, <1>3, <2>1 DEF Covered
  <2>2. CASE from # {}
    BY <1>1, <1>5, <2>2 DEF Fits, Backs
  <2> QED
    BY <2>1, <2>2
<1>7. \A p \in parked \ from : p.id # q
  <2>1. CASE q \in Ids(parked)
    <3>1. from = {The(q, parked)} /\ The(q, parked) \in parked /\ The(q, parked).id = q
      BY <1>2, <2>1, TheIsThere DEF FromMemory
    <3> QED
      BY <1>1, <3>1 DEF Parts, Distinct
  <2>2. CASE q \notin Ids(parked)
    BY <2>2 DEF Ids
  <2> QED
    BY <2>1, <2>2
<1> HIDE DEF from, target
<1>8. /\ rest \subseteq parked \cup {active} /\ (active # NoQueue => active \in rest)
      /\ (active = NoQueue => rest = {}) /\ rest \cap from \subseteq {active}
  BY DEF HasAccount
<1>9. /\ \A p, r \in rest : p.id = r.id => p = r
      /\ target.id \notin Ids(rest)
      /\ \A p \in rest : p.id # q
  <2>1. \A p \in rest : p = active \/ p \in parked \ from
    BY DEF HasAccount
  <2> QED
    BY <1>1, <1>3, <1>7, <2>1 DEF Parts, Distinct, Ids
<1>10. \A p \in rest : p.adjusted => Covered(p, db)
  BY <1>1, <1>8 DEF Fits, Backs
<1>11. CASE PutBack(rest, from, active) /\ UNCHANGED tx
  <2>1. CASE active = NoQueue
    <3>1. /\ active' = NoQueue /\ parked' = {} /\ tx' = NoTx
      BY <1>1, <1>11, <2>1 DEF PutBack
    <3>2. Distinct' /\ Fits(db)'
      BY <1>1, <3>1 DEF Distinct, Ids, Fits, Backs, WholeDb, Covered, NotKept, AsStored
    <3> QED
      BY <1>1, <3>1, <3>2 DEF Parts, AllIdle, OneCaller, Fits
  <2>2. CASE active # NoQueue
    <3>1. /\ active' = active /\ held' = held /\ changed' = TRUE /\ tx' = NoTx
          /\ parked' = Without(rest, {active.id}) \cup from
      BY <1>1, <1>11, <2>2 DEF PutBack
    <3>2. parked' \subseteq parked
      BY <1>5, <1>8, <3>1 DEF Without
    <3>3. Distinct' /\ Fits(db)'
      BY <1>1, <3>1, <3>2
      DEF Parts, Distinct, Ids, Fits, Backs, WholeDb, Covered, NotKept, AsStored
    <3> QED
      BY <1>1, <2>2, <3>1, <3>3 DEF Parts, AllIdle, OneCaller, Fits
  <2> QED
    BY <2>1, <2>2
<1>12. CASE /\ active' = target /\ parked' = rest /\ changed' = FALSE /\ held' = held
            /\ tx' = [caller |-> c, outcome |-> o, db |-> w]
  <2>1. /\ tx'.outcome = o /\ tx'.db = w /\ o.job = "restore" /\ o.wrote = Ids(rest)
        /\ o.target = from /\ o.previous = active
    BY <1>12
  <2>2. /\ WholeDb(w) /\ w.active = target.id /\ w.queues[target.id] = target
        /\ \A p \in rest : w.queues[p.id] = IF p.adjusted THEN p ELSE NoQueue
        /\ \A r \in Queue \ (Ids(rest) \cup {target.id}) : w.queues[r] = db.queues[r]
    <3>1. WholeDb(db) /\ w = WriteAccount(db, target, rest, Taken(target, rest))
      BY <1>1 DEF Fits, Backs
    <3> HIDE DEF w, rest
    <3> QED
      BY <1>2, <1>3, <1>6, <1>9, <1>10, <3>1, WriteFits
  <2> HIDE DEF w, o, rest
  <2>3. target # NoQueue
    BY <1>3, Contents
  <2>4. Distinct'
    BY <1>9, <1>12 DEF Distinct
  <2>5. Backs(db)'
    BY <1>1, <1>6, <1>10, <1>12 DEF Fits, Backs, WholeDb, Covered
  <2>6. OneCaller' /\ (\A e \in Caller : ended'[e] = Idle) /\ tx' # NoTx
    BY <1>1, <2>1, IdleIs DEF OneCaller, AllIdle
  <2>7. Fits(tx.db)'
    BY <1>12, <2>1, <2>2 DEF Fits, Backs, WholeDb, Covered, NotKept, AsStored
  <2>8. WroteAccount(tx.outcome, tx.db)'
    BY <1>12, <2>1, <2>2, <2>3 DEF WroteAccount
  <2>9. Undoable(tx.outcome, db)'
    <3>1. Covered(active, db) /\ NotKept(active, db)
      BY <1>1 DEF Fits, Backs
    <3>2. IF active = NoQueue THEN rest = {} ELSE active \in rest
      BY <1>8
    <3> QED
      BY <1>1, <1>3, <1>5, <1>6, <1>12, <2>1, <2>3, <3>1, <3>2 DEF Undoable, Covered, NotKept
  <2>10. LeavesRows(tx.outcome)'
    BY <1>1, <1>12, <2>1, <2>2 DEF LeavesRows
  <2> QED
    BY <1>12, <2>3, <2>4, <2>5, <2>6, <2>7, <2>8, <2>9, <2>10 DEF Parts, Done
<1> QED
  BY <1>4, <1>11, <1>12

LEMMA DeleteParts ==
  ASSUME IInv, Types', NEW q \in Queue, NEW c \in Client, Delete(c, q), Prompt'
  PROVE  Parts'
<1> DEFINE from == FromMemory(q)
           w == WithoutRow(db, q)
           o == [Idle EXCEPT !.job = "delete", !.target = from]
<1>1. /\ Parts /\ tx = NoTx /\ AllIdle /\ ended' = ended /\ Fits(db) /\ db' = db
      /\ active.id # q /\ UNCHANGED <<active, held>>
      /\ changed' = (changed \/ q \in Ids(parked))
  BY BeginsQuiet DEF Delete, Begins
<1>2. parked \in SUBSET QueueContent /\ DbOK(db) /\ active \in Row /\ changed \in BOOLEAN
  BY DEF IInv, Types, QueuesTypeOK, DbOK, Stored
<1>3. \/ /\ parked' = parked \ from
         /\ tx' = [caller |-> c, outcome |-> o, db |-> w]
      \/ UNCHANGED <<parked, tx>>
  BY DEF Delete, Writing
<1>4. /\ \A t \in from : t \in parked /\ t.id = q /\ t.adjusted /\ Covered(t, db)
      /\ \A t, u \in from : t = u
      /\ from # {} <=> q \in Ids(parked)
      /\ \A p \in parked \ from : p.id # q
  <2>1. CASE q \in Ids(parked)
    <3>1. from = {The(q, parked)} /\ The(q, parked) \in parked /\ The(q, parked).id = q
          /\ The(q, parked).adjusted
      BY <1>2, <2>1, TheIsThere DEF FromMemory, Delete
    <3> HIDE DEF from
    <3> QED
      BY <1>1, <2>1, <3>1 DEF Parts, Distinct, Fits, Backs
  <2>2. CASE q \notin Ids(parked)
    BY <2>2 DEF Ids, FromMemory
  <2> QED
    BY <2>1, <2>2
<1>5. /\ w.active = IF db.active = q THEN None ELSE db.active
      /\ w.queues[q] = NoQueue
      /\ \A r \in Queue \ {q} : w.queues[r] = db.queues[r]
      /\ \A r \in Queue : db.lists \cap w.queues[r].lists \subseteq w.lists
  <2>1. w = WithoutRow(db, q)
    OBVIOUS
  <2> HIDE DEF w
  <2> QED
    BY <1>2, <2>1, DeleteWrites
<1>6. o.job = "delete" /\ o.target = from
  BY DEF Idle
<1> HIDE DEF from, w, o
<1>7. active # NoQueue => active.id \in Queue /\ \A p \in parked : p.id \in Queue
  BY <1>2, Contents
<1>8. CASE UNCHANGED <<parked, tx>>
  <2>1. Fits(db)'
    BY <1>1, <1>8 DEF Fits, Backs, WholeDb, Covered, NotKept, AsStored, Ids
  <2> QED
    BY <1>1, <1>8, <2>1 DEF Parts, AllIdle, OneCaller, Distinct, Ids, Fits
<1>9. CASE parked' = parked \ from /\ tx' = [caller |-> c, outcome |-> o, db |-> w]
  <2>1. tx'.outcome = o /\ tx'.db = w
    BY <1>9
  <2>2. Distinct' /\ OneCaller' /\ (\A e \in Caller : ended'[e] = Idle) /\ tx' # NoTx
    BY <1>1, <1>6, <1>9, <2>1, IdleIs DEF Parts, Distinct, Ids, OneCaller, AllIdle
  <2>3. Backs(db)'
    BY <1>1, <1>9 DEF Fits, Backs, WholeDb, Covered
  <2>4. \A r \in Queue : w.queues[r].lists \subseteq w.lists
    BY <1>1, <1>5, Contents DEF Fits, Backs, WholeDb
  <2>5. \A p \in parked' : p \in parked /\ p.id \in Queue \ {q}
    BY <1>2, <1>4, <1>9, Contents
  <2>6. active # NoQueue => active.id \in Queue \ {q}
    BY <1>1, <1>7
  <2>7. Fits(tx.db)'
    <3>1. Backs(tx.db)'
      BY <1>1, <1>5, <2>1, <2>4, <2>5, <2>6 DEF Fits, Backs, WholeDb, Covered
    <3>2. NotKept(active, tx.db)'
      BY <1>1, <1>5, <2>1, <2>6 DEF Fits, NotKept
    <3>3. AsStored(tx.db)'
      BY <1>1, <1>2, <1>5, <2>1, <2>5, <2>6 DEF Fits, AsStored
    <3> QED
      BY <3>1, <3>2, <3>3 DEF Fits
  <2>8. Undoable(tx.outcome, db)'
    <3>1. NotKept(active, db)' /\ AsStored(db)'
      BY <1>1, <1>2, <2>5 DEF Fits, NotKept, AsStored
    <3>2. tx'.outcome.target # {} => changed'
      BY <1>1, <1>4, <1>6, <2>1
    <3>3. \A t \in tx'.outcome.target :
            /\ t.id # active'.id /\ t.id \notin Ids(parked') /\ t.adjusted /\ Covered(t, db)'
      BY <1>1, <1>4, <1>6, <2>1, <2>5 DEF Ids, Covered
    <3> QED
      BY <1>4, <1>6, <2>1, <3>1, <3>2, <3>3 DEF Undoable
  <2>9. LeavesRows(tx.outcome)'
    BY <1>1, <1>5, <1>6, <2>1 DEF LeavesRows
  <2>10. Done(tx.outcome, tx.db)'
    BY <1>6, <2>1, <2>7 DEF Done
  <2> QED
    BY <1>1, <1>9, <2>2, <2>3, <2>8, <2>9, <2>10 DEF Parts
<1> QED
  BY <1>3, <1>8, <1>9

LEMMA RetentionParts ==
  ASSUME IInv, Types', SweepLists \/ \E q \in Queue : Expire(q), Prompt'
  PROVE  Parts'
<1>1. /\ Parts /\ tx = NoTx /\ AllIdle /\ ended' = ended /\ Fits(db)
      /\ UNCHANGED <<active, parked, held, changed, tx>>
  BY BeginsQuiet DEF SweepLists, Expire, Begins, memory
<1>2. /\ parked \in SUBSET QueueContent /\ DbOK(db) /\ active \in Row
      /\ db = [queues |-> db.queues, active |-> db.active, lists |-> db.lists]
  BY DEF IInv, Types, QueuesTypeOK, DbOK, Stored, Database
<1>3. Fits(db)'
  <2>1. CASE SweepLists
    <3>1. /\ db'.queues = db.queues /\ db'.active = db.active
          /\ db'.lists = db.lists \cap UsedLists(db.queues)
      BY <1>2, <2>1 DEF SweepLists, DropUnused
    <3>2. WholeDb(db)'
      BY <1>1, <3>1 DEF Fits, Backs, WholeDb, UsedLists
    <3> QED
      BY <1>1, <3>1, <3>2 DEF Fits, Backs, Covered, NotKept, AsStored
  <2>2. ASSUME NEW q \in Queue, Expire(q) PROVE Fits(db)'
    <3>1. /\ db'.queues = [db.queues EXCEPT ![q] = NoQueue] /\ db'.active = db.active
          /\ db'.lists = db.lists /\ db.queues \in [Queue -> Row] /\ KeptRow(q)
      BY <1>2, <2>2 DEF Expire, DbOK, Database
    <3>2. q \notin Ids(parked)
      BY <2>2, BeginsQuiet DEF Expire
    <3>3. active.id # q
      BY <1>1, <3>1, Contents DEF Fits, NotKept, KeptRow, Stored
    <3>4. (active # NoQueue => active.id \in Queue) /\ \A p \in parked : p.id \in Queue \ {q}
      BY <1>2, <3>2, Contents DEF Ids
    <3>5. \A r \in Queue \ {q} : db'.queues[r] = db.queues[r]
      BY <3>1
    <3>6. WholeDb(db)'
      BY <1>1, <3>1, Contents DEF Fits, Backs, WholeDb
    <3> HIDE DEF KeptRow
    <3>7. Backs(db)'
      BY <1>1, <3>3, <3>4, <3>5, <3>6 DEF Fits, Backs, Covered
    <3>8. NotKept(active, db)'
      BY <1>1, <3>1, <3>3, <3>4, <3>5 DEF Fits, NotKept
    <3>9. AsStored(db)'
      BY <1>1, <3>1, <3>3, <3>4, <3>5 DEF Fits, AsStored
    <3> QED
      BY <3>7, <3>8, <3>9 DEF Fits
  <2> QED
    BY <2>1, <2>2
<1> QED
  BY <1>1, <1>3 DEF Parts, AllIdle, OneCaller, Distinct, Ids, Fits

LEMMA CommitParts ==
  ASSUME IInv, Types', Commit, Prompt'
  PROVE  Parts'
<1>1. /\ Parts /\ tx # NoTx /\ AllIdle /\ tx.outcome.ok
  BY DEF Commit, Prompt, InTurn, queueHistory, IInv, Types, WriterFree, Parts, OneCaller, AllIdle
<1>2. /\ UNCHANGED <<active, parked, held, changed>> /\ db' = tx.db /\ tx' = NoTx
      /\ ended' = IF tx.caller \in Caller THEN [ended EXCEPT ![tx.caller] = tx.outcome] ELSE ended
  BY DEF Commit, Reply, memory
<1>3. Fits(db)' /\ Done(tx.outcome, tx.db)
  BY <1>1, <1>2 DEF Parts, Done, Fits, Backs, WholeDb, Covered, NotKept, AsStored
<1>4. \A c \in Caller : ended'[c] = Idle \/ (ended'[c] = tx.outcome /\ c = tx.caller)
  BY <1>1, <1>2 DEF AllIdle, IInv, Types, QueuesTypeOK
<1>5. ASSUME NEW c \in Caller, ended'[c] # Idle
      PROVE  IF ended'[c].ok THEN Done(ended[c], db)' ELSE Undoable(ended[c], db)'
  BY <1>1, <1>2, <1>3, <1>4, <1>5
  DEF Done, WroteAccount, Ids
<1>6. OneCaller' /\ Distinct'
  BY <1>1, <1>2, <1>4 DEF Parts, OneCaller, Distinct, Ids
<1> QED
  BY <1>1, <1>2, <1>3, <1>5, <1>6 DEF Parts, Fits

LEMMA FailCommitParts ==
  ASSUME IInv, Types', FailCommit, Prompt'
  PROVE  Parts'
<1> DEFINE o == [tx.outcome EXCEPT !.ok = FALSE]
<1>1. /\ Prompt /\ Parts /\ tx # NoTx /\ AllIdle /\ tx.caller # None
  BY DEF FailCommit, Prompt, InTurn, IInv, Types, WriterFree, Parts, OneCaller, AllIdle
<1>2. /\ tx \in [caller : Caller \cup {None}, outcome : Outcome, db : Database]
      /\ ended \in [Caller -> Outcome]
  BY DEF IInv, Types, QueuesTypeOK
<1>3. /\ tx.caller \in Caller /\ UNCHANGED <<active, parked, held, changed, db>> /\ tx' = NoTx
      /\ ended' = [ended EXCEPT ![tx.caller] = o]
  BY <1>1, <1>2 DEF FailCommit, Reply, memory
<1>4. /\ ~o.ok /\ o.job = tx.outcome.job /\ o.previous = tx.outcome.previous
      /\ o.target = tx.outcome.target
  BY <1>2 DEF Outcome
<1> HIDE DEF o
<1>5. \A c \in Caller : IF c = tx.caller THEN ended'[c] = o ELSE ended'[c] = Idle
  BY <1>1, <1>2, <1>3 DEF AllIdle
<1>6. Undoable(tx.outcome, db)
  BY <1>1 DEF Parts
<1>7. ASSUME NEW c \in Caller, c = tx.caller
      PROVE  Undoable(ended[c], db)'
  BY <1>3, <1>4, <1>5, <1>6, <1>7 DEF Undoable, Covered, NotKept, AsStored, Ids
<1>8. o # Idle
  BY <1>4, IdleIs
<1>9. OneCaller' /\ Distinct' /\ Backs(db)'
  BY <1>1, <1>3, <1>5 DEF Parts, OneCaller, Distinct, Ids, Backs, WholeDb, Covered
<1>10. \A c \in Caller : ended'[c] # Idle => c = tx.caller /\ ~ended'[c].ok
  BY <1>4, <1>5
<1>11. ASSUME NEW c \in Caller, ended'[c] # Idle
       PROVE  IF ended'[c].ok THEN Done(ended[c], db)' ELSE Undoable(ended[c], db)'
  BY <1>7, <1>10, <1>11
<1> QED
  BY <1>1, <1>3, <1>5, <1>8, <1>9, <1>11 DEF Parts

LEMMA SettleParts ==
  ASSUME IInv, Types', NEW c \in Caller, Settle(c), Prompt'
  PROVE  Parts'
<1> DEFINE o == ended[c]
<1>1. /\ o \in Outcome /\ o # Idle /\ o.job # "none"
      /\ ended' = [ended EXCEPT ![c] = Idle]
      /\ UNCHANGED <<db, tx, faults, queueHistory>>
  BY SettleCases DEF IInv
<1>2. Prompt /\ Parts
  BY <1>1 DEF Prompt, InTurn, queueHistory, IInv
<1>3. tx = NoTx /\ \A e \in Caller : ended'[e] = Idle
  BY <1>1, <1>2 DEF Parts, OneCaller, IInv, Types, QueuesTypeOK
<1>4. IF o.ok THEN Done(o, db) ELSE Undoable(o, db)
  BY <1>1, <1>2 DEF Parts
<1>5. /\ Distinct /\ Backs(db) /\ (active = NoQueue => parked = {})
  BY <1>2 DEF Parts
<1>6. /\ active \in Row /\ parked \in SUBSET QueueContent /\ changed \in BOOLEAN
      /\ o.job \in {"none", "save", "restore", "delete"} /\ o.ok \in BOOLEAN
  BY <1>1 DEF IInv, Types, QueuesTypeOK, Outcome
<1>7. Distinct' /\ (active' = NoQueue => parked' = {}) /\ Fits(db)'
  <2>1. CASE ~HasAccount /\ UNCHANGED memory
    <3>1. Fits(db)
      BY <1>1, <1>4, <1>5, <1>6, <2>1 DEF Done, Undoable, Fits, AsStored, HasAccount
    <3> QED
      BY <1>1, <1>5, <2>1, <3>1
      DEF memory, Distinct, Ids, Fits, Backs, WholeDb, Covered, NotKept, AsStored
  <2>2. CASE HasAccount /\ o.ok /\ o.job \in {"save", "restore"} /\ Committed(o)
    <3>1. /\ WroteAccount(o, db) /\ Fits(db)
      BY <1>4, <2>2 DEF Done
    <3>2. parked' = {} /\ UNCHANGED <<active, changed>>
      BY <2>2, <3>1 DEF Committed, Without, WroteAccount, Ids
    <3>3. held' = {l \in held : changed /\ l \in active.lists /\ l \notin o.stored}
      BY <2>2, <3>2 DEF Committed
    <3>4. Covered(active, db)'
      <4>1. CASE changed
        BY <1>1, <3>1, <3>2, <3>3, <4>1 DEF WroteAccount, Covered
      <4>2. CASE ~changed
        BY <1>1, <3>1, <3>2, <4>2 DEF WroteAccount, Fits, AsStored, Covered
      <4> QED
        BY <4>1, <4>2
    <3> QED
      BY <1>1, <3>1, <3>2, <3>4
      DEF WroteAccount, Distinct, Ids, Fits, Backs, WholeDb, NotKept, AsStored
  <2>3. CASE /\ HasAccount /\ ~o.ok /\ o.job = "save"
             /\ changed' = TRUE /\ UNCHANGED <<active, parked, held, done>>
    <3>1. NotKept(active, db)
      BY <1>4, <2>3 DEF Undoable
    <3> QED
      BY <1>1, <1>5, <2>3, <3>1
      DEF Distinct, Ids, Fits, Backs, WholeDb, Covered, NotKept, AsStored
  <2>4. CASE HasAccount /\ ~o.ok /\ o.job = "restore" /\ PutBack(parked, o.target, o.previous)
    <3>1. /\ Covered(o.previous, db) /\ NotKept(o.previous, db)
          /\ IF o.previous = NoQueue THEN parked = {} ELSE o.previous \in parked
          /\ \A t \in o.target : t.id = active.id /\ t.adjusted /\ Covered(t, db)
          /\ \A t, u \in o.target : t = u
      BY <1>4, <2>4 DEF Undoable
    <3>2. CASE o.previous = NoQueue
      <4>1. active' = NoQueue /\ parked' = {}
        BY <2>4, <3>2 DEF PutBack
      <4> QED
        BY <1>1, <1>5, <4>1
        DEF Distinct, Ids, Fits, Backs, WholeDb, Covered, NotKept, AsStored
    <3>3. CASE o.previous # NoQueue
      <4>1. /\ active' = o.previous /\ changed' = TRUE /\ held' = held
            /\ parked' = Without(parked, {o.previous.id}) \cup o.target
        BY <2>4, <3>3 DEF PutBack
      <4>2. o.previous.id # active.id
        BY <1>5, <3>1, <3>3 DEF Distinct, Ids
      <4>3. \A p \in parked' : p.id # o.previous.id
        BY <3>1, <4>1, <4>2 DEF Without
      <4>4. \A p, r \in parked' : p.id = r.id => p = r
        BY <1>5, <3>1, <4>1 DEF Without, Distinct, Ids
      <4>5. Distinct'
        BY <4>1, <4>3, <4>4 DEF Distinct, Ids
      <4>6. Fits(db)'
        BY <1>1, <1>5, <3>1, <4>1 DEF Fits, Backs, WholeDb, Covered, NotKept, AsStored, Without
      <4> QED
        BY <3>3, <4>1, <4>5, <4>6
    <3> QED
      BY <3>2, <3>3
  <2>5. CASE /\ HasAccount /\ o.job = "delete"
             /\ parked' = IF o.ok THEN parked ELSE parked \cup o.target
             /\ UNCHANGED <<active, held, done, changed>>
    <3>1. CASE o.ok
      <4>1. Fits(db) /\ parked' = parked
        BY <1>4, <2>5, <3>1 DEF Done
      <4> QED
        BY <1>1, <1>5, <2>5, <4>1
        DEF Distinct, Ids, Fits, Backs, WholeDb, Covered, NotKept, AsStored
    <3>2. CASE ~o.ok
      <4>1. /\ NotKept(active, db) /\ AsStored(db)
            /\ o.target # {} => changed
            /\ \A t \in o.target :
                   /\ t.id # active.id /\ t.id \notin Ids(parked)
                   /\ t.adjusted /\ Covered(t, db)
            /\ \A t, u \in o.target : t = u
        BY <1>4, <2>5, <3>2 DEF Undoable
      <4>2. parked' = parked \cup o.target
        BY <2>5, <3>2
      <4>3. Distinct'
        BY <1>5, <2>5, <4>1, <4>2 DEF Distinct, Ids
      <4>4. Fits(db)'
        BY <1>1, <1>5, <1>6, <2>5, <4>1, <4>2
        DEF Fits, Backs, WholeDb, Covered, NotKept, AsStored
      <4> QED
        BY <2>5, <4>3, <4>4 DEF HasAccount
    <3> QED
      BY <1>6, <3>1, <3>2
  <2> QED
    BY <2>1, <2>2, <2>3, <2>4, <2>5, SettleCases DEF IInv
<1> QED
  BY <1>1, <1>3, <1>7 DEF Parts, OneCaller, Fits

LEMMA HangUpParts ==
  ASSUME IInv, Types', NEW c \in Caller, HangUp(c), Prompt'
  PROVE  Parts'
<1>1. Prompt /\ Parts /\ UNCHANGED <<active, parked, held, changed, db>>
  <2>1. UNCHANGED <<active, parked, held, changed, db, overtaken, borrowed>>
    BY DEF HangUp, memory
  <2>2. abandoned \in BOOLEAN /\ (abandoned => abandoned')
    BY DEF HangUp, IInv, Types, QueuesTypeOK
  <2> QED
    BY <2>1, <2>2 DEF Prompt, InTurn, IInv
<1>2. CASE tx.caller = c /\ tx' = [tx EXCEPT !.caller = None] /\ UNCHANGED ended
  <2>1. tx # NoTx
    BY <1>2, IdleIs, QueueStoreAssumptions DEF QueueStoreAssumptions, Caller, Saver
  <2>2. tx'.outcome = tx.outcome /\ tx'.db = tx.db
    BY <1>2 DEF IInv, Types, QueuesTypeOK
  <2>3. tx' # NoTx
    BY <1>1, <2>1, <2>2, IdleIs DEF Parts, OneCaller
  <2>4. /\ Done(tx.outcome, tx.db)' /\ Undoable(tx.outcome, db)' /\ LeavesRows(tx.outcome)'
        /\ OneCaller' /\ Distinct' /\ Backs(db)' /\ AllIdle
    BY <1>1, <1>2, <2>1, <2>2
    DEF Parts, Done, WroteAccount, Undoable, LeavesRows, OneCaller, Distinct, AllIdle,
        Ids, Fits, Backs, WholeDb, Covered, NotKept, AsStored
  <2> QED
    BY <1>1, <1>2, <2>3, <2>4 DEF Parts, AllIdle
<1>3. CASE ended[c] # Idle /\ ended' = [ended EXCEPT ![c] = Idle] /\ UNCHANGED tx /\ ended[c].ok
  <2>1. tx = NoTx /\ \A e \in Caller : ended'[e] = Idle
    BY <1>1, <1>3 DEF Parts, OneCaller, IInv, Types, QueuesTypeOK
  <2>2. Fits(db)
    BY <1>1, <1>3 DEF Parts, Done
  <2>3. Fits(db)' /\ Distinct' /\ OneCaller'
    BY <1>1, <1>3, <2>1, <2>2
    DEF Parts, OneCaller, Distinct, Ids, Fits, Backs, WholeDb, Covered, NotKept, AsStored
  <2> QED
    BY <1>1, <1>3, <2>1, <2>3 DEF Parts, Fits
<1> QED
  BY <1>2, <1>3 DEF HangUp, Prompt, InTurn

LEMMA CrashParts ==
  ASSUME IInv, Types', Crash, Prompt'
  PROVE  Parts'
<1>1. Prompt /\ Parts
  BY DEF Crash, Prompt, InTurn, IInv
<1>2. /\ active' = IF db.active = None THEN NoQueue ELSE db.queues[db.active]
      /\ parked' = {} /\ held' = {} /\ changed' = FALSE /\ tx' = NoTx /\ db' = db
      /\ ended' = [e \in Caller |-> Idle]
  BY DEF Crash
<1>3. active' # NoQueue => db.active \in Queue /\ active' = db.queues[db.active]
                           /\ active'.id = db.active
  BY <1>2 DEF IInv, Types, QueuesTypeOK, Database, Stored
<1>4. Fits(db)'
  BY <1>1, <1>2, <1>3 DEF Parts, Fits, Backs, WholeDb, Covered, NotKept, AsStored
<1> QED
  BY <1>2, <1>4 DEF Parts, OneCaller, Distinct, Ids, Fits

LEMMA InitParts ==
  ASSUME QueuesInit, Types
  PROVE  Parts
<1>1. Fits(db)
  BY IdleIs, Contents
  DEF QueuesInit, Fits, Backs, WholeDb, Covered, NotKept, AsStored
<1> QED
  BY <1>1 DEF QueuesInit, Parts, OneCaller, Distinct, Ids, Fits

(* Every step keeps the invariant.                                         *)
LEMMA StepInvariant ==
  ASSUME IInv, [QueuesNext]_queueVars
  PROVE  IInv'
<1>1. Types'
  BY StepTypes DEF IInv
<1>2. SUFFICES ASSUME Prompt' PROVE Parts'
  BY <1>1 DEF IInv
<1>3. CASE QueuesNext
  <2>1. ASSUME NEW q \in Queue, Start(q) PROVE Parts'
    BY <1>1, <1>2, <2>1, StartParts
  <2>2. ASSUME NEW q \in Queue, NEW c \in Client, Restore(c, q) PROVE Parts'
    BY <1>1, <1>2, <2>2, RestoreParts
  <2>3. ASSUME NEW q \in Queue, NEW c \in Client, Delete(c, q) PROVE Parts'
    BY <1>1, <1>2, <2>3, DeleteParts
  <2>4. ASSUME NEW e \in Edit, Apply(e) PROVE Parts'
    BY <1>1, <1>2, <2>4, ApplyParts
  <2>5. ASSUME NEW c \in Caller, Settle(c) PROVE Parts'
    BY <1>1, <1>2, <2>5, SettleParts
  <2>6. ASSUME NEW c \in Caller, HangUp(c) PROVE Parts'
    BY <1>1, <1>2, <2>6, HangUpParts
  <2>7. CASE SweepLists \/ \E q \in Queue : Expire(q)
    BY <1>1, <1>2, <2>7, RetentionParts
  <2>8. CASE Save \/ Commit \/ FailCommit \/ Crash
    BY <1>1, <1>2, <2>8, SaveParts, CommitParts, FailCommitParts, CrashParts
  <2> QED
    BY <1>3, <2>1, <2>2, <2>3, <2>4, <2>5, <2>6, <2>7, <2>8 DEF QueuesNext
<1>4. CASE UNCHANGED queueVars
  <2>1. Parts
    BY <1>2, <1>4 DEF queueVars, queueHistory, Prompt, InTurn, IInv
  <2> QED
    BY <1>4, <2>1
    DEF queueVars, memory, Parts, OneCaller, Distinct, Done, WroteAccount, Undoable, LeavesRows,
        Ids, Fits, Backs, WholeDb, Covered, NotKept, AsStored
<1> QED
  BY <1>3, <1>4

-----------------------------------------------------------------------------
(***************************************************************************)
(* The invariant above holds of every execution: between a job's body, its *)
(* commit and what its caller does about it, memory and the database cover *)
(* each other (save.rs:85-158, keep.rs:83-337).                            *)
(***************************************************************************)
THEOREM QueuesInvariant == QueuesSpec => []IInv
<1>1. QueuesInit => IInv
  BY InitTypes, InitParts DEF IInv
<1>2. IInv /\ [QueuesNext]_queueVars => IInv'
  BY StepInvariant
<1> QED
  BY <1>1, <1>2, PTL DEF QueuesSpec

(***************************************************************************)
(* What the invariant says of a state: rows and memory have their lists.   *)
(***************************************************************************)
LEMMA WholeFollows ==
  ASSUME IInv
  PROVE  StoredQueuesAreWhole /\ MemoryIsWhole
<1>1. SUFFICES ASSUME Prompt
               PROVE  /\ UsedLists(db.queues) \subseteq db.lists
                      /\ UNION {p.lists : p \in {active} \cup ToBeKept} \subseteq held \cup db.lists
  BY DEF StoredQueuesAreWhole, MemoryIsWhole
<1>2. Backs(db) /\ active \in Row /\ parked \in SUBSET QueueContent
  BY <1>1 DEF IInv, Parts, Types, QueuesTypeOK
<1>3. ASSUME NEW p \in {active} \cup ToBeKept
      PROVE  p.lists \subseteq held \cup db.lists
  <2>1. CASE p = NoQueue
    BY <2>1, Contents
  <2>2. CASE p # NoQueue
    <3>1. p.id \in Queue /\ Covered(p, db)
      BY <1>2, <1>3, <2>2, Contents DEF ToBeKept, Backs
    <3> QED
      BY <1>2, <2>2, <3>1 DEF Covered, Backs, WholeDb
  <2> QED
    BY <2>1, <2>2
<1> QED
  BY <1>2, <1>3 DEF Backs, WholeDb, UsedLists

LEMMA QuietFollows ==
  ASSUME IInv
  PROVE  UnsavedIsNoticed /\ KeptIsNotPlaying
<1>1. SUFFICES ASSUME Prompt, Quiet, HasAccount
               PROVE  /\ ~changed => /\ db.active = active.id /\ db.queues[active.id] = active
                                     /\ \A p \in parked : Settled(p)
                      /\ ~KeptRow(active.id)
  BY DEF UnsavedIsNoticed, KeptIsNotPlaying
<1>2. Fits(db) /\ active # NoQueue
  BY <1>1 DEF IInv, Parts, Quiet, WriterFree, Unsettled, HasAccount
<1> QED
  BY <1>2 DEF Fits, NotKept, AsStored, Settled, KeptRow, Stored

(***************************************************************************)
(* Every row has its lists stored (save.rs:259-293).                       *)
(***************************************************************************)
THEOREM RowsKeepTheirLists == QueuesSpec => []StoredQueuesAreWhole
  BY QueuesInvariant, WholeFollows, PTL

(***************************************************************************)
(* Every list that memory is to keep is held or stored (save.rs:136-158).  *)
(***************************************************************************)
THEOREM MemoryKeepsItsLists == QueuesSpec => []MemoryIsWhole
  BY QueuesInvariant, WholeFollows, PTL

(***************************************************************************)
(* An account not marked changed is stored as it is (store.rs:51).         *)
(***************************************************************************)
THEOREM ChangesAreMarked == QueuesSpec => []UnsavedIsNoticed
  BY QueuesInvariant, QuietFollows, PTL

(***************************************************************************)
(* A queue kept in a row is not the one that plays (keep.rs:147).          *)
(***************************************************************************)
THEOREM KeptNeverPlays == QueuesSpec => []KeptIsNotPlaying
  BY QueuesInvariant, QuietFollows, PTL

(***************************************************************************)
(* The types of an account, its rows, its jobs and their outcomes.         *)
(***************************************************************************)
THEOREM QueuesTypeCorrect == QueuesSpec => []QueuesTypeOK
<1>1. IInv => QueuesTypeOK
  BY DEF IInv, Types
<1> QED
  BY <1>1, QueuesInvariant, PTL

-----------------------------------------------------------------------------
(* A queue no step touches, and one an edit is added to, lose no edit.     *)
LEMMA PrefixFacts ==
  ASSUME NEW s \in Seq(Edit), NEW e \in Edit
  PROVE  IsPrefix(s, s) /\ IsPrefix(s, Append(s, e))
<1>1. Append(s, e) \in Seq(Edit) /\ Len(s) \in Nat /\ Len(Append(s, e)) = Len(s) + 1
  OBVIOUS
<1>2. \A i \in 1 .. Len(s) : Append(s, e)[i] = s[i]
  OBVIOUS
<1>3. SubSeq(s, 1, Len(s)) = SubSeq(Append(s, e), 1, Len(s))
  BY <1>1, <1>2
<1> QED
  BY <1>1, <1>3 DEF IsPrefix

LEMMA TheOnly ==
  ASSUME NEW ps \in SUBSET QueueContent, \A p, r \in ps : p.id = r.id => p = r, NEW p \in ps
  PROVE  The(p.id, ps) = p
  BY TheIsThere DEF Ids

(* Where a queue is found as it is last known, before and after a step.    *)
LEMMA LatestIs ==
  ASSUME IInv, Prompt, NEW q \in Queue
  PROVE  /\ active.id = q => Latest(q) = active
         /\ \A p \in parked : p.id = q => active.id # q /\ Latest(q) = p
         /\ active.id # q /\ q \notin Ids(parked) => Latest(q) = db.queues[q]
  BY TheOnly DEF Latest, IInv, Parts, Types, QueuesTypeOK, Distinct, Ids

LEMMA LatestIsNext ==
  ASSUME IInv', Prompt', NEW q \in Queue
  PROVE  /\ active'.id = q => Latest(q)' = active'
         /\ \A p \in parked' : p.id = q => active'.id # q /\ Latest(q)' = p
         /\ active'.id # q /\ q \notin Ids(parked') => Latest(q)' = db'.queues[q]
  BY TheOnly DEF Latest, IInv, Parts, Types, QueuesTypeOK, Distinct, Ids

(* No step makes an execution prompt again.                                *)
LEMMA StaysUnprompt ==
  ASSUME IInv, QueuesNext, Prompt'
  PROVE  Prompt
<1>1. overtaken \in BOOLEAN /\ abandoned \in BOOLEAN /\ borrowed \in BOOLEAN
  BY DEF IInv, Types, QueuesTypeOK
<1> DEFINE Stays == /\ overtaken => overtaken'
                    /\ abandoned => abandoned'
                    /\ borrowed => borrowed'
<1> HIDE DEF Stays
<1>2. ASSUME NEW S, BeginsOver(S) PROVE Stays
  BY <1>1, <1>2 DEF Stays, BeginsOver
<1>3. ASSUME \E q \in Queue : Expire(q) PROVE Stays
  BY <1>2, <1>3 DEF Expire
<1>4. ASSUME \/ \E q \in Queue : Start(q)
             \/ \E q \in Queue, c \in Client : Restore(c, q) \/ Delete(c, q)
             \/ Save \/ SweepLists
      PROVE  Stays
  <2>1. Begins
    BY <1>4 DEF Start, Restore, Delete, Save, SweepLists
  <2> QED
    BY <1>2, <2>1 DEF Begins
<1>5. ASSUME \/ \E e \in Edit : Apply(e)
             \/ \E c \in Caller : Settle(c) \/ HangUp(c)
      PROVE  Stays
  BY <1>1, <1>5 DEF Stays, Apply, Settle, HangUp, queueHistory
<1>6. ASSUME Commit \/ FailCommit \/ Crash PROVE Stays
  BY <1>1, <1>6 DEF Stays, Commit, FailCommit, Crash, queueHistory
<1>7. Stays
  BY <1>3, <1>4, <1>5, <1>6 DEF QueuesNext
<1> QED
  BY <1>7 DEF Stays, Prompt, InTurn

LEMMA EditsOutlive ==
  ASSUME IInv, IInv', Prompt, Prompt', QueuesNext, NEW q \in Queue,
         Latest(q).adjusted, faults' = faults, ~Removed(q), ~PutsBack
  PROVE  LosesNoEdit(q)
<1> DEFINE x == Latest(q)
<1>1. /\ parked \in SUBSET QueueContent /\ active \in Row /\ db \in Database
      /\ faults \in Nat /\ ended \in [Caller -> Outcome] /\ Parts
  BY QueueStoreAssumptions DEF QueueStoreAssumptions, IInv, Types, QueuesTypeOK
<1>2. \/ active.id = q /\ x = active
      \/ active.id # q /\ x \in parked /\ x.id = q
      \/ active.id # q /\ q \notin Ids(parked) /\ x = db.queues[q]
  BY LatestIs DEF Ids
<1>3. x \in QueueContent /\ x # NoQueue
  BY <1>1, <1>2, Contents DEF Database
<1>4. SUFFICES ASSUME ~(\E e \in Edit : Apply(e))
               PROVE  Latest(q)' = x
  <2>1. ASSUME Latest(q)' = x PROVE LosesNoEdit(q)
    <3>1. x.edits \in Seq(Edit)
      BY <1>3, Contents
    <3>2. IsPrefix(x.edits, x.edits)
      <4>1. SubSeq(x.edits, 1, Len(x.edits)) = SubSeq(x.edits, 1, Len(x.edits))
        OBVIOUS
      <4>2. Len(x.edits) \in Nat
        BY <3>1
      <4> QED
        BY <4>2 DEF IsPrefix
    <3> QED
      BY <2>1, <3>2 DEF LosesNoEdit
  <2>2. ASSUME NEW e \in Edit, Apply(e) PROVE LosesNoEdit(q)
    <3>1. UNCHANGED <<parked, db>> /\ active.id = On[e]
          /\ active' = [active EXCEPT !.edits = Append(@, e),
                                      !.adjusted = @ \/ Adjusting[e],
                                      !.lists = (@ \ Drops[e]) \cup Adds[e]]
      BY <2>2 DEF Apply
    <3>2. active \in QueueContent
      BY <1>1, <3>1, Contents, QueueStoreAssumptions DEF QueueStoreAssumptions
    <3>3. /\ active'.id = active.id /\ active'.edits = Append(active.edits, e)
          /\ active'.adjusted = (active.adjusted \/ Adjusting[e])
      BY <3>1, <3>2 DEF QueueContent
    <3>4. CASE active.id = q
      <4>1. x = active /\ Latest(q)' = active'
        BY <3>3, <3>4, LatestIs, LatestIsNext
      <4>2. IsPrefix(active.edits, Append(active.edits, e))
        BY <3>2, Contents, PrefixFacts
      <4> QED
        BY <3>3, <4>1, <4>2 DEF LosesNoEdit
    <3>5. CASE active.id # q
      BY <1>2, <2>1, <3>1, <3>3, <3>5, LatestIsNext DEF Ids
    <3> QED
      BY <3>4, <3>5
  <2> QED
    BY <2>1, <2>2
<1>5. ASSUME NEW r \in Queue, Start(r) PROVE Latest(q)' = x
  <2>1. /\ active' = Fresh(r) /\ Fresh(r).id = r /\ db' = db /\ ~Stored(r) /\ ~Names(r)
        /\ parked' = IF HasAccount THEN parked \cup {active} ELSE {}
    BY <1>5 DEF Start, Fresh
  <2>2. r # q
    BY <1>2, <1>3, <2>1, Contents DEF Stored, Names, Ids
  <2>3. active = NoQueue => parked = {} /\ active.id # q
    BY <1>1, Contents DEF Parts
  <2> QED
    BY <1>2, <2>1, <2>2, <2>3, LatestIsNext DEF HasAccount, Ids
<1>6. ASSUME NEW r \in Queue, NEW c \in Client, Restore(c, r) PROVE Latest(q)' = x
  <2> DEFINE from   == FromMemory(r)
             target == IF from # {} THEN The(r, parked) ELSE db.queues[r]
             rest   == IF HasAccount THEN (parked \ from) \cup {active} ELSE {}
  <2>1. /\ active' = target /\ parked' = rest /\ db' = db /\ active.id # r
    BY <1>1, <1>6 DEF Restore, Fault
  <2>2. target \in QueueContent /\ target.id = r
    BY <1>6, RestoreTakes DEF Restore, IInv
  <2>3. active = NoQueue => parked = {} /\ active.id # q
    BY <1>1, Contents DEF Parts
  <2>4. CASE r = q
    <3>1. x = target
      <4>1. CASE r \in Ids(parked)
        BY <1>1, <2>1, <2>4, <4>1, LatestIs, TheIsThere DEF FromMemory
      <4>2. CASE r \notin Ids(parked)
        BY <2>1, <2>4, <4>2, LatestIs DEF FromMemory
      <4> QED
        BY <4>1, <4>2
    <3> QED
      BY <2>1, <2>2, <2>4, <3>1, LatestIsNext
  <2>5. CASE r # q
    <3>1. \A p \in from : p.id = r
      BY <1>1, TheIsThere DEF FromMemory
    <3> HIDE DEF from, target
    <3> QED
      BY <1>2, <2>1, <2>2, <2>3, <2>5, <3>1, LatestIsNext DEF HasAccount, Ids
  <2> QED
    BY <2>4, <2>5
<1>7. ASSUME NEW r \in Queue, NEW c \in Client, Delete(c, r) PROVE Latest(q)' = x
  <2>1. r # q
    BY <1>7 DEF Removed
  <2>2. /\ UNCHANGED <<active, db>> /\ parked' = parked \ FromMemory(r)
    BY <1>1, <1>7 DEF Delete, Fault
  <2>3. \A p \in FromMemory(r) : p.id = r
    BY <1>1, TheIsThere DEF FromMemory
  <2> QED
    BY <1>2, <2>1, <2>2, <2>3, LatestIsNext DEF Ids
<1>8. ASSUME NEW r \in Queue, Expire(r) PROVE Latest(q)' = x
  <2>1. r # q /\ UNCHANGED <<active, parked>> /\ db' = [db EXCEPT !.queues[r] = NoQueue]
    BY <1>8 DEF Expire, Removed, memory
  <2>2. db'.queues[q] = db.queues[q]
    BY <1>1, <2>1 DEF Database
  <2> QED
    BY <1>2, <2>1, <2>2, LatestIsNext DEF Ids
<1>9. CASE Save \/ SweepLists
  <2>1. UNCHANGED <<active, parked>> /\ db'.queues = db.queues
    BY <1>1, <1>9 DEF Save, SweepLists, memory, DropUnused, Database
  <2> QED
    BY <1>2, <2>1, LatestIsNext DEF Ids
<1>10. CASE Commit
  <2>1. UNCHANGED <<active, parked>> /\ db' = tx.db /\ tx # NoTx /\ tx' = NoTx
    BY <1>10 DEF Commit, Reply, memory, WriterFree
  <2>2. \/ tx.db.queues[q] = db.queues[q]
        \/ q \in Ids(parked) \cup {active.id}
    BY <1>1, <2>1 DEF Parts, LeavesRows, Removed
  <2> QED
    BY <1>2, <2>1, <2>2, LatestIsNext DEF Ids
<1>11. ASSUME NEW c \in Caller, Settle(c) PROVE Latest(q)' = x
  <2>1. ended' = [ended EXCEPT ![c] = Idle] /\ UNCHANGED db /\ ended[c] # Idle
    BY <1>11, SettleCases DEF IInv
  <2>2. ended[c].ok
    BY <1>1, <2>1, IdleIs DEF PutsBack
  <2>3. Done(ended[c], db)
    BY <1>1, <2>1, <2>2 DEF Parts
  <2>4. \/ UNCHANGED <<active, parked>>
        \/ /\ ended[c].job \in {"save", "restore"} /\ Committed(ended[c])
    BY <1>11, <2>2, SettleCases DEF IInv, memory
  <2>5. CASE UNCHANGED <<active, parked>>
    BY <1>2, <2>1, <2>5, LatestIsNext DEF Ids
  <2>6. CASE /\ ended[c].job \in {"save", "restore"} /\ Committed(ended[c])
    <3>1. WroteAccount(ended[c], db)
      BY <2>3, <2>6 DEF Done
    <3>2. parked' = {} /\ active' = active
      BY <2>6, <3>1 DEF Committed, Without, WroteAccount, Ids
    <3> QED
      BY <1>2, <2>1, <3>1, <3>2, LatestIsNext DEF WroteAccount, Ids
  <2> QED
    BY <2>4, <2>5, <2>6
<1>12. ~FailCommit /\ ~Crash /\ \A c \in Caller : ~HangUp(c)
  BY <1>1 DEF FailCommit, Crash, HangUp, Fault
<1> QED
  BY <1>4, <1>5, <1>6, <1>7, <1>8, <1>9, <1>10, <1>11, <1>12 DEF QueuesNext

(***************************************************************************)
(* No step but its own deletion or expiry, a fault, or putting back what a *)
(* failed restore replaced, loses an edit of an adjusted queue: not a save *)
(* while it is edited, nor a start or restore in its place (save.rs:136-   *)
(* 158, keep.rs:83-140).                                                   *)
(***************************************************************************)
THEOREM NoEditIsLost == QueuesSpec => EditsOutliveJobs
<1>1. IInv /\ IInv' /\ [QueuesNext]_queueVars =>
        [\A q \in Queue :
           Latest(q).adjusted /\ Prompt' /\ faults' = faults /\ ~Removed(q) /\ ~PutsBack =>
               LosesNoEdit(q)]_queueVars
  <2> SUFFICES ASSUME IInv, IInv', QueuesNext, NEW q \in Queue,
                      Latest(q).adjusted, Prompt', faults' = faults, ~Removed(q), ~PutsBack
               PROVE  LosesNoEdit(q)
    OBVIOUS
  <2>1. Prompt
    BY StaysUnprompt
  <2> QED
    BY <2>1, EditsOutlive
<1> QED
  BY <1>1, QueuesInvariant, PTL DEF QueuesSpec, EditsOutliveJobs
=============================================================================
