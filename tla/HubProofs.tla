----------------------------- MODULE HubProofs -----------------------------
(***************************************************************************)
(* What the tasks of a connection rely on of the hub: but for joining and  *)
(* dropping, its operations only fill outboxes and let go of connections.  *)
(***************************************************************************)
EXTENDS Hub, WellFoundedInduction, TLAPS

\* h holds the connections of hub, fewer of them open.
OnlyCloses(h, hub) ==
    /\ h \in [Connection -> Links]
    /\ \A c \in Connection : h[c].device = hub[c].device /\ (h[c].open => hub[c].open)

(* A message more, or the connection let go of (Hub::retain).              *)
LEMMA OfferOnlyCloses ==
  ASSUME NEW link \in Links, NEW n \in Nat
  PROVE  /\ Offer(link, n) \in Links
         /\ Offer(link, n).device = link.device
         /\ Offer(link, n).open => link.open
<1>1. /\ link.queued \in Nat /\ link.queued <= Outbox /\ link.open \in BOOLEAN
      /\ link.device \in Device \cup {NoDevice} /\ Outbox \in Nat
      /\ link = [device |-> link.device, open |-> link.open, queued |-> link.queued]
  BY OutboxAssumption DEF Links, OutboxAssumption
<1>2. CASE link.queued + n <= Outbox
  <2>1. link.queued + n \in 0 .. Outbox
    BY <1>1, <1>2
  <2>2. Offer(link, n) = [device |-> link.device, open |-> link.open, queued |-> link.queued + n]
    BY <1>1, <1>2 DEF Offer
  <2> QED
    BY <1>1, <2>1, <2>2 DEF Links
<1>3. CASE ~(link.queued + n <= Outbox)
  <2>1. Offer(link, n) = [device |-> link.device, open |-> FALSE, queued |-> Outbox]
    BY <1>1, <1>3 DEF Offer
  <2> QED
    BY <1>1, <2>1 DEF Links
<1> QED
  BY <1>2, <1>3

(* Messages to whichever connections (Hub::retain).                        *)
LEMMA SendEachOnlyCloses ==
  ASSUME NEW hub \in [Connection -> Links], NEW n \in [Connection -> Nat]
  PROVE  OnlyCloses(SendEach(hub, n), hub)
<1>1. ASSUME NEW c \in Connection
      PROVE  /\ SendEach(hub, n)[c] \in Links
             /\ SendEach(hub, n)[c].device = hub[c].device
             /\ SendEach(hub, n)[c].open => hub[c].open
  <2>1. hub[c] \in Links /\ n[c] \in Nat
    OBVIOUS
  <2> QED
    BY <2>1, OfferOnlyCloses DEF SendEach
<1>2. SendEach(hub, n) \in [Connection -> Links]
  BY <1>1 DEF SendEach
<1> QED
  BY <1>1, <1>2 DEF OnlyCloses

(* A message to all, and to one (Hub::broadcast, Hub::send).               *)
LEMMA BroadcastOnlyCloses ==
  ASSUME NEW hub \in [Connection -> Links]
  PROVE  OnlyCloses(Broadcast(hub), hub)
  BY SendEachOnlyCloses DEF Broadcast

LEMMA SendOnlyCloses ==
  ASSUME NEW hub \in [Connection -> Links], NEW id
  PROVE  OnlyCloses(Send(hub, id), hub)
  BY SendEachOnlyCloses DEF Send

(* A device's connections are closed, and no other (Hub::revoke).          *)
LEMMA RevokeCloses ==
  ASSUME NEW hub \in [Connection -> Links], NEW d
  PROVE  /\ OnlyCloses(Revoke(hub, d), hub)
         /\ \A c \in Connection : Revoke(hub, d)[c].open => hub[c].device # d
<1>1. ASSUME NEW c \in Connection
      PROVE  /\ Revoke(hub, d)[c] \in Links
             /\ Revoke(hub, d)[c].device = hub[c].device
             /\ Revoke(hub, d)[c].open => hub[c].open /\ hub[c].device # d
  <2>1. /\ Offer(hub[c], 1) \in Links
        /\ Offer(hub[c], 1).device = hub[c].device
    BY OfferOnlyCloses
  <2> QED
    BY <2>1 DEF Revoke, Links
<1>2. Revoke(hub, d) \in [Connection -> Links]
  BY <1>1 DEF Revoke
<1> QED
  BY <1>1, <1>2 DEF OnlyCloses

(* A message is received (Presence::next).                                 *)
LEMMA ReceiveOnlyCloses ==
  ASSUME NEW hub \in [Connection -> Links], NEW c \in Connection, hub[c].queued > 0
  PROVE  OnlyCloses(Receive(hub, c), hub)
<1>1. /\ hub[c].queued \in 0 .. Outbox /\ hub[c].open \in BOOLEAN
      /\ hub[c].device \in Device \cup {NoDevice} /\ Outbox \in Nat
  BY OutboxAssumption DEF Links, OutboxAssumption
<1>2. [hub[c] EXCEPT !.queued = @ - 1] \in Links
  BY <1>1 DEF Links
<1> QED
  BY <1>2 DEF Receive, OnlyCloses, Links

(* A connection's end (Presence::drop).                                    *)
LEMMA DropCloses ==
  ASSUME NEW hub \in [Connection -> Links], NEW c \in Connection
  PROVE  /\ Drop(hub, c) \in [Connection -> Links] /\ ~Drop(hub, c)[c].open
         /\ \A b \in Connection : b # c => Drop(hub, c)[b] = hub[b]
  BY OutboxAssumption DEF Drop, NoLink, Links, OutboxAssumption

(* A connection joins (Hub::connect).                                      *)
LEMMA ConnectOpens ==
  ASSUME NEW hub \in [Connection -> Links], NEW c \in Connection, NEW d \in Device
  PROVE  /\ Connect(hub, c, d) \in [Connection -> Links]
         /\ Connect(hub, c, d)[c].device = d
         /\ \A b \in Connection : b # c => Connect(hub, c, d)[b] = hub[b]
  BY OutboxAssumption DEF Connect, Links, OutboxAssumption

-----------------------------------------------------------------------------
(* A set of natural numbers has a least one.                               *)
LEMMA LeastNat ==
  ASSUME NEW T \in SUBSET Nat, T # {}
  PROVE  \E x \in T : \A y \in T : x <= y
<1> DEFINE Less == {ss \in Nat \X Nat : ss[1] < ss[2]}
<1>1. OpToRel(<, Nat) = Less
  BY DEF OpToRel
<1>2. IsWellFoundedOn(Less, Nat)
  BY <1>1, NatLessThanWellFounded
<1> HIDE DEF Less
<1>3. \E x \in T : \A y \in T : ~ (<<y, x>> \in Less)
  BY <1>2, WFMin
<1>4. \A x, y \in T : <<y, x>> \notin Less => x <= y
  BY DEF Less
<1> QED
  BY <1>3, <1>4

(* Of some connections, one was opened last.                               *)
LEMMA OneIsLast ==
  ASSUME NEW held \in SUBSET Connection, held # {}
  PROVE  \E c \in held : \A b \in held : b <= c
<1>1. \A c \in held : c \in Nat /\ c <= MaxConnections /\ MaxConnections \in Nat
  BY ConnectionsAssumption DEF Connection, ConnectionsAssumption
<1> DEFINE ages == {MaxConnections - c : c \in held}
<1>2. ages \in SUBSET Nat /\ ages # {}
  BY <1>1
<1>3. PICK a \in ages : \A b \in ages : a <= b
  BY <1>2, LeastNat
<1>4. PICK c \in held : a = MaxConnections - c
  OBVIOUS
<1>5. ASSUME NEW b \in held PROVE b <= c
  <2>1. MaxConnections - b \in ages
    OBVIOUS
  <2>2. a <= MaxConnections - b
    BY <1>3, <2>1
  <2> QED
    BY <1>1, <1>4, <2>2
<1> QED
  BY <1>5

(* What is newest of a device is a connection of it, or none is held       *)
(* (Hub::newest).                                                          *)
LEMMA NewestIsCounted ==
  ASSUME NEW hub, NEW d
  PROVE  Newest(hub, d) = NoConnection \/ Newest(hub, d) \in Counted(hub)
<1> DEFINE held == {c \in Counted(hub) : hub[c].device = d}
<1>1. CASE held = {}
  BY <1>1 DEF Newest
<1>2. CASE held # {}
  <2>1. \E c \in held : \A b \in held : b <= c
    BY <1>2, OneIsLast DEF Counted
  <2>2. Newest(hub, d) \in held
    BY <1>2, <2>1 DEF Newest
  <2> QED
    BY <2>2
<1> QED
  BY <1>1, <1>2
=============================================================================
