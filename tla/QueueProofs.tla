----------------------------- MODULE QueueProofs -----------------------------
(***************************************************************************)
(* Proofs about a device's copy of the queue (ClientQueue), whatever the   *)
(* account's queues, the edits and which bar which, how many edits the     *)
(* server remembers, and however many of them users make and how much      *)
(* fails: the invariant of the device, the server and all that is on its   *)
(* way between them; that no edit is replayed over a queue that has it;    *)
(* that none goes without being shown or told of; and that a device with   *)
(* nothing left to hear or send shows the server's queue.                  *)
(*                                                                         *)
(* The shuffle's rounds (Permutation) follow at the end.                   *)
(***************************************************************************)
EXTENDS ClientQueue, Permutation, NaturalsInduction, WellFoundedInduction, TLAPS

\* Edit e made version v.
Applied(es, e, v) == v \in 1 .. Len(es) /\ es[v] = e

Prefix(es, fs) == Len(es) <= Len(fs) /\ \A i \in 1 .. Len(es) : es[i] = fs[i]

Contents == [repeat : BOOLEAN, rows : {"viewed", "resolved"}, edits : Seq(Edit)]
OfQueue == Queue \cup {None}
Message == [type : {"hello", "queueEdit", "queueReplaced"}, queue : OfQueue, version : Nat,
            edit : Edit \cup {None}]
Pending == [edit : OwnEdit, queue : Queue, version : Nat]

DeviceType(d) ==
    /\ DOMAIN d = {"queue", "content", "run", "pending", "count", "refetch", "held", "starting",
                   "restoring", "reported"}
    /\ d.queue \in OfQueue /\ d.content \in Contents /\ d.run \in Nat
    /\ d.count \in Nat /\ DOMAIN d.pending \subseteq 1 .. d.count
    /\ d.pending \in [DOMAIN d.pending -> Pending]
    /\ d.refetch \in BOOLEAN /\ d.held \in Seq(Message)
    /\ d.starting \in Own \cup {None} /\ d.restoring \in OfQueue /\ d.reported \subseteq OwnEdit
    /\ \A i \in DOMAIN d.pending : d.pending[i].queue = d.queue
    /\ d.queue = None => d.content.edits = <<>>

(***************************************************************************)
(* What hearing messages and rebuilding the view do: the queue confirmed   *)
(* goes on from what it was, and a pending edit that goes is in it, or the *)
(* user is told.                                                           *)
(***************************************************************************)
Goes(d2, d) ==
    /\ d2.queue = d.queue /\ d2.run = d.run /\ d2.count = d.count
    /\ d2.held \in {d.held, <<>>} /\ d2.starting \in {d.starting, None}
    /\ DOMAIN d2.pending \subseteq DOMAIN d.pending
    /\ \A i \in DOMAIN d2.pending : d2.pending[i] = d.pending[i]
    /\ Prefix(d.content.edits, d2.content.edits)
    /\ \A i \in DOMAIN d2.pending :
          d2.pending[i].edit \in ToSet(d2.content.edits) => d2.pending[i].edit \in ToSet(d.content.edits)
Follows(d2, d) ==
    /\ Goes(d2, d) /\ d.reported \subseteq d2.reported
    /\ \A i \in DOMAIN d.pending \ DOMAIN d2.pending :
          d.pending[i].edit \in d2.reported \cup ToSet(d2.content.edits)

\* Of some numbers one is the least.
LEMMA LeastNat ==
    ASSUME NEW T \in SUBSET Nat, T # {}
    PROVE  \E x \in T : \A y \in T : x <= y
  <1>. DEFINE Less == {ss \in Nat \X Nat : ss[1] < ss[2]}
  <1>1. OpToRel(<, Nat) = Less
    BY DEF OpToRel
  <1>2. IsWellFoundedOn(Less, Nat)
    BY <1>1, NatLessThanWellFounded
  <1>. HIDE DEF Less
  <1>3. \E x \in T : \A y \in T : ~ (<<y, x>> \in Less)
    BY <1>2, WFMin
  <1>4. \A x, y \in T : <<y, x>> \notin Less => x <= y
    BY DEF Less
  <1>. QED BY <1>3, <1>4

\* A queue goes on from another that goes on from a third.
LEMMA PrefixGoesOn ==
    ASSUME NEW es \in Seq(Edit), NEW fs \in Seq(Edit), NEW gs \in Seq(Edit)
    PROVE  /\ Prefix(es, es)
           /\ Prefix(es, fs) => ToSet(es) \subseteq ToSet(fs)
           /\ Prefix(es, fs) /\ Prefix(fs, gs) => Prefix(es, gs)
           /\ \A e, v : Applied(es, e, v) /\ Prefix(es, fs) => Applied(fs, e, v)
           /\ \A e, v : Applied(es, e, v) => e \in ToSet(es)
           /\ Prefix(es, fs) /\ Len(es) = Len(fs) => es = fs
  <1>1. Prefix(es, es)
    BY DEF Prefix
  <1>2. Prefix(es, fs) => ToSet(es) \subseteq ToSet(fs)
    BY DEF Prefix, ToSet
  <1>3. Prefix(es, fs) /\ Prefix(fs, gs) => Prefix(es, gs)
    BY DEF Prefix
  <1>4. \A e, v : Applied(es, e, v) /\ Prefix(es, fs) => Applied(fs, e, v)
    BY DEF Prefix, Applied
  <1>5. \A e, v : Applied(es, e, v) => e \in ToSet(es)
    BY DEF Applied, ToSet
  <1>6. Prefix(es, fs) /\ Len(es) = Len(fs) => es = fs
    BY DEF Prefix
  <1>. QED BY <1>1, <1>2, <1>3, <1>4, <1>5, <1>6

\* An edit applied is the last of the queue.
LEMMA AppendGoesOn ==
    ASSUME NEW es \in Seq(Edit), NEW e \in Edit
    PROVE  /\ Append(es, e) \in Seq(Edit) /\ Len(Append(es, e)) = Len(es) + 1
           /\ Prefix(es, Append(es, e))
           /\ ToSet(Append(es, e)) = ToSet(es) \cup {e}
           /\ Applied(Append(es, e), e, Len(es) + 1)
           /\ \A fs \in Seq(Edit) : Prefix(es, fs) /\ Applied(fs, e, Len(es) + 1) => Prefix(Append(es, e), fs)
  <1>1. Append(es, e) \in Seq(Edit) /\ Len(Append(es, e)) = Len(es) + 1
    OBVIOUS
  <1>2. /\ \A i \in 1 .. Len(es) : Append(es, e)[i] = es[i]
        /\ Append(es, e)[Len(es) + 1] = e
    OBVIOUS
  <1>3. Prefix(es, Append(es, e)) /\ Applied(Append(es, e), e, Len(es) + 1)
    BY <1>1, <1>2 DEF Prefix, Applied
  <1>4. ToSet(Append(es, e)) = ToSet(es) \cup {e}
    <2>1. DOMAIN Append(es, e) = 1 .. (Len(es) + 1) /\ DOMAIN es = 1 .. Len(es) /\ Len(es) \in Nat
      OBVIOUS
    <2>. QED BY <1>2, <2>1 DEF ToSet
  <1>5. ASSUME NEW fs \in Seq(Edit), Prefix(es, fs), Applied(fs, e, Len(es) + 1)
        PROVE  Prefix(Append(es, e), fs)
    BY <1>1, <1>2, <1>5 DEF Prefix, Applied
  <1>. QED BY <1>1, <1>3, <1>4, <1>5

\* What hearing does may be nothing.
LEMMA FollowsItself ==
    ASSUME NEW d, DeviceType(d)
    PROVE  Follows(d, d)
  <1>1. d.content.edits \in Seq(Edit)
    BY DEF DeviceType, Contents
  <1>. QED BY <1>1, PrefixGoesOn DEF Follows, Goes

\* And it may be done twice.
LEMMA FollowsOn ==
    ASSUME NEW d, NEW d2, NEW d3, DeviceType(d), DeviceType(d2), DeviceType(d3),
           Follows(d2, d), Follows(d3, d2)
    PROVE  Follows(d3, d)
  <1>1. d.content.edits \in Seq(Edit) /\ d2.content.edits \in Seq(Edit) /\ d3.content.edits \in Seq(Edit)
    BY DEF DeviceType, Contents
  <1>2. /\ Prefix(d.content.edits, d3.content.edits)
        /\ ToSet(d2.content.edits) \subseteq ToSet(d3.content.edits)
    BY <1>1, PrefixGoesOn DEF Follows, Goes
  <1>3. \A i \in DOMAIN d3.pending : d3.pending[i] = d2.pending[i] /\ d2.pending[i] = d.pending[i]
    BY DEF Follows, Goes
  <1>4. ASSUME NEW i \in DOMAIN d.pending \ DOMAIN d3.pending
        PROVE  d.pending[i].edit \in d3.reported \cup ToSet(d3.content.edits)
    BY <1>2 DEF Follows, Goes
  <1>5. ASSUME NEW i \in DOMAIN d3.pending, d3.pending[i].edit \in ToSet(d3.content.edits)
        PROVE  d3.pending[i].edit \in ToSet(d.content.edits)
    BY <1>3, <1>5 DEF Follows, Goes
  <1>. QED BY <1>2, <1>3, <1>4, <1>5 DEF Follows, Goes

(* Giving pending edits up (#drop).                                        *)
LEMMA GiveUpFollows ==
    ASSUME NEW d, DeviceType(d), NEW gone \in SUBSET DOMAIN d.pending
    PROVE  /\ DeviceType(GiveUp(d, gone)) /\ Follows(GiveUp(d, gone), d)
           /\ GiveUp(d, gone).content = d.content /\ GiveUp(d, gone).refetch = d.refetch
           /\ DOMAIN GiveUp(d, gone).pending = DOMAIN d.pending \ gone
  <1>. DEFINE g == GiveUp(d, gone)
  <1>1. /\ DOMAIN g = DOMAIN d
        /\ g.queue = d.queue /\ g.run = d.run /\ g.count = d.count /\ g.held = d.held
        /\ g.starting = d.starting /\ g.restoring = d.restoring /\ g.content = d.content
        /\ g.refetch = d.refetch
        /\ g.pending = [i \in DOMAIN d.pending \ gone |-> d.pending[i]]
        /\ g.reported = d.reported \cup {d.pending[i].edit : i \in gone}
    BY DEF DeviceType, GiveUp, Restrict
  <1>2. DOMAIN g.pending = DOMAIN d.pending \ gone /\ \A i \in DOMAIN g.pending : g.pending[i] = d.pending[i]
    BY <1>1
  <1>3. \A i \in DOMAIN d.pending : d.pending[i] \in Pending /\ d.pending[i].edit \in OwnEdit
    BY DEF DeviceType, Pending
  <1>4. g.reported \subseteq OwnEdit
    BY <1>1, <1>3 DEF DeviceType
  <1>5. g.pending \in [DOMAIN g.pending -> Pending]
    BY <1>1, <1>2, <1>3
  <1>6. d.content.edits \in Seq(Edit)
    BY DEF DeviceType, Contents
  <1>. HIDE DEF g
  <1>8. DeviceType(g)
    BY <1>1, <1>2, <1>4, <1>5 DEF DeviceType
  <1>9. Follows(g, d)
    BY <1>1, <1>2, <1>6, PrefixGoesOn DEF Follows, Goes
  <1>. QED BY <1>1, <1>2, <1>8, <1>9 DEF g


(* The view is built again (#rebuild).                                     *)
LEMMA RebuildFollows ==
    ASSUME NEW d, DeviceType(d)
    PROVE  /\ DeviceType(Rebuild(d)) /\ Follows(Rebuild(d), d)
           /\ Rebuild(d).content = d.content /\ Rebuild(d).refetch = d.refetch
  <1>1. DOMAIN d.pending \ Replayable(d) \in SUBSET DOMAIN d.pending
    OBVIOUS
  <1>. QED BY <1>1, GiveUpFollows DEF Rebuild

(* Nothing changes but that the queue is to be fetched.                    *)
LEMMA FetchLater ==
    ASSUME NEW d, DeviceType(d)
    PROVE  LET r == [d EXCEPT !.refetch = TRUE]
           IN  /\ DeviceType(r) /\ Follows(r, d) /\ r.refetch = TRUE /\ r.content = d.content
               /\ r.pending = d.pending
  <1>. DEFINE r == [d EXCEPT !.refetch = TRUE]
  <1>1. /\ DOMAIN r = DOMAIN d /\ r.refetch = TRUE
        /\ r.queue = d.queue /\ r.run = d.run /\ r.count = d.count /\ r.held = d.held
        /\ r.starting = d.starting /\ r.restoring = d.restoring /\ r.content = d.content
        /\ r.pending = d.pending /\ r.reported = d.reported
    BY DEF DeviceType
  <1>2. d.content.edits \in Seq(Edit)
    BY DEF DeviceType, Contents
  <1>. HIDE DEF r
  <1>3. DeviceType(r)
    BY <1>1 DEF DeviceType
  <1>4. Follows(r, d)
    BY <1>1, <1>2, PrefixGoesOn DEF Follows, Goes
  <1>. QED BY <1>1, <1>3, <1>4 DEF r

(* The edits of the server's queue, or any others that the confirmed queue *)
(* starts as, with what the message says of them.                          *)
Says(m, d, es) == m.queue = d.queue => Applied(es, m.edit, m.version)

(* The confirmed queue after d went on with some of the messages, whose    *)
(* edits are of the set known.                                             *)
Hears(d2, d, known) ==
    /\ DeviceType(d2) /\ Follows(d2, d)
    /\ ToSet(d.content.edits) \subseteq known => ToSet(d2.content.edits) \subseteq known

\* The confirmed queue is as far as the message, and a fetch to come still comes.
Reaches(d2, m) == m.queue = d2.queue /\ m.version <= Version(d2.content)
Refetches(d2, d) == d.refetch => d2.refetch

(* One message, with no fetch under way (#heard, #confirm).                *)
LEMMA ConfirmHears ==
    ASSUME NEW d, DeviceType(d), NEW m \in Message, NEW known, m.edit \in known \cap Edit, d.queue # None
    PROVE  /\ Hears(Confirm(d, m), d, known)
           /\ \A es \in Seq(Edit) : Prefix(d.content.edits, es) /\ Applied(es, m.edit, Version(d.content) + 1)
                 => Prefix(Confirm(d, m).content.edits, es)
           /\ Refetches(Confirm(d, m), d)
           /\ Confirm(d, m).refetch \/ Version(Confirm(d, m).content) = Version(d.content) + 1
  <1>. DEFINE base == d.content.edits
              d1 == [d EXCEPT !.content.edits = Append(@, m.edit),
                              !.pending = Restrict(@, {i \in DOMAIN @ : @[i].edit # m.edit})]
  <1>1. base \in Seq(Edit) /\ d.content \in Contents /\ m.edit \in Edit
    BY DEF DeviceType, Contents
  <1>2. CASE ~Accepts(base, m.edit)
    <2>. DEFINE r == [d EXCEPT !.refetch = TRUE]
    <2>1. Confirm(d, m) = r
      BY <1>2 DEF Confirm
    <2>2. DeviceType(r) /\ Follows(r, d) /\ r.refetch = TRUE /\ r.content = d.content
      BY FetchLater
    <2>. HIDE DEF r
    <2>. QED BY <2>1, <2>2 DEF Hears, Refetches
  <1>3. CASE Accepts(base, m.edit)
    <2>1. Confirm(d, m) = Rebuild(d1)
      BY <1>3 DEF Confirm
    <2>2. /\ DOMAIN d1 = DOMAIN d /\ d1.refetch = d.refetch
          /\ d1.queue = d.queue /\ d1.run = d.run /\ d1.count = d.count /\ d1.held = d.held
          /\ d1.starting = d.starting /\ d1.restoring = d.restoring
          /\ d1.reported = d.reported
          /\ d1.content = [d.content EXCEPT !.edits = Append(@, m.edit)]
          /\ d1.pending = [i \in {i \in DOMAIN d.pending : d.pending[i].edit # m.edit} |-> d.pending[i]]
      BY DEF DeviceType, Restrict
    <2>3. d1.content \in Contents /\ d1.content.edits = Append(base, m.edit)
      <3>1. Append(base, m.edit) \in Seq(Edit)
        BY <1>1, AppendGoesOn
      <3>. HIDE DEF d1
      <3>. QED BY <1>1, <2>2, <3>1 DEF Contents
    <2>4. /\ DOMAIN d1.pending \subseteq DOMAIN d.pending
          /\ \A i \in DOMAIN d1.pending : d1.pending[i] = d.pending[i] /\ d1.pending[i].edit # m.edit
          /\ \A i \in DOMAIN d.pending \ DOMAIN d1.pending : d.pending[i].edit = m.edit
      <3>. HIDE DEF d1
      <3>1. DOMAIN d1.pending = {i \in DOMAIN d.pending : d.pending[i].edit # m.edit}
        BY <2>2
      <3>2. \A i \in DOMAIN d1.pending : d1.pending[i] = d.pending[i]
        BY <2>2, <3>1
      <3>. QED BY <3>1, <3>2
    <2>5. d1.pending \in [DOMAIN d1.pending -> Pending]
      BY <2>2, <2>4 DEF DeviceType
    <2>. HIDE DEF d1
    <2>6. DeviceType(d1)
      BY <2>2, <2>3, <2>4, <2>5 DEF DeviceType
    <2>7. /\ Prefix(base, d1.content.edits) /\ ToSet(d1.content.edits) = ToSet(base) \cup {m.edit}
      BY <1>1, <2>3, AppendGoesOn
    <2>8. Follows(d1, d)
      BY <2>2, <2>4, <2>7 DEF Follows, Goes
    <2>9. /\ DeviceType(Rebuild(d1)) /\ Follows(Rebuild(d1), d1)
          /\ Rebuild(d1).content = d1.content /\ Rebuild(d1).refetch = d1.refetch
      BY <2>6, RebuildFollows
    <2>10. Follows(Rebuild(d1), d)
      BY <2>6, <2>8, <2>9, FollowsOn
    <2>11. \A es \in Seq(Edit) : Prefix(base, es) /\ Applied(es, m.edit, Len(base) + 1)
                 => Prefix(d1.content.edits, es)
      BY <1>1, <2>3, AppendGoesOn
    <2>12. Version(Rebuild(d1).content) = Version(d.content) + 1 /\ Refetches(Rebuild(d1), d)
      <3>1. Len(d1.content.edits) = Len(base) + 1
        BY <1>1, <2>3, AppendGoesOn
      <3>. QED BY <2>2, <2>9, <3>1 DEF Refetches, Version
    <2>. QED BY <2>1, <2>2, <2>7, <2>9, <2>10, <2>11, <2>12 DEF Hears, Version
  <1>. QED BY <1>2, <1>3

\* A message heard leaves the confirmed queue within what it and the message say.
LEMMA HeardHears ==
    ASSUME NEW d, DeviceType(d), NEW m \in Message, NEW known, m.edit \in known \cap Edit, m.queue # None
    PROVE  /\ Hears(Heard(d, m), d, known)
           /\ \A es \in Seq(Edit) : Prefix(d.content.edits, es) /\ Says(m, d, es)
                 => Prefix(Heard(d, m).content.edits, es)
           /\ Refetches(Heard(d, m), d) /\ (Heard(d, m).refetch \/ Reaches(Heard(d, m), m))
  <1>1. CASE m.queue = d.queue /\ m.version = Version(d.content) + 1
    <2>1. Heard(d, m) = Confirm(d, m)
      BY <1>1 DEF Heard
    <2>2. d.queue # None
      BY <1>1
    <2>3. /\ Hears(Confirm(d, m), d, known)
          /\ \A es \in Seq(Edit) : Prefix(d.content.edits, es) /\ Applied(es, m.edit, Version(d.content) + 1)
                => Prefix(Confirm(d, m).content.edits, es)
          /\ Refetches(Confirm(d, m), d)
          /\ Confirm(d, m).refetch \/ Version(Confirm(d, m).content) = Version(d.content) + 1
      BY <2>2, ConfirmHears
    <2>4. Confirm(d, m).queue = d.queue
      BY <2>3 DEF Hears, Follows, Goes
    <2>5. Confirm(d, m).refetch \/ Reaches(Confirm(d, m), m)
      <3>1. m.version \in Nat
        BY DEF Message
      <3>. QED BY <1>1, <2>3, <2>4, <3>1 DEF Reaches
    <2>. HIDE DEF Hears, Reaches, Refetches
    <2>. QED BY <1>1, <2>1, <2>3, <2>5 DEF Says
  <1>2. CASE m.queue = d.queue /\ m.version <= Version(d.content) /\ m.version # Version(d.content) + 1
    <2>1. Heard(d, m) = d
      BY <1>2 DEF Heard
    <2>. QED BY <1>2, <2>1, FollowsItself DEF Hears, Reaches, Refetches
  <1>3. CASE ~(m.queue = d.queue /\ m.version <= Version(d.content) + 1)
    <2>. DEFINE r == [d EXCEPT !.refetch = TRUE]
    <2>1. Heard(d, m) = r
      <3>1. m.version \in Nat /\ Version(d.content) \in Nat
        BY DEF Message, DeviceType, Contents, Version
      <3>. QED BY <1>3, <3>1 DEF Heard
    <2>2. DeviceType(r) /\ Follows(r, d) /\ r.refetch = TRUE /\ r.content = d.content
      BY FetchLater
    <2>. HIDE DEF r
    <2>. QED BY <2>1, <2>2 DEF Hears, Refetches
  <1>4. m.version \in Nat /\ Version(d.content) \in Nat
    BY DEF Message, DeviceType, Contents, Version
  <1>. QED BY <1>1, <1>2, <1>3, <1>4

(* The messages held, one after the other.                                 *)
LEMMA HeardAllHears ==
    ASSUME NEW d, DeviceType(d), NEW ms \in Seq(Message), NEW known,
           \A i \in DOMAIN ms : ms[i].edit \in known \cap Edit /\ ms[i].queue # None
    PROVE  /\ Hears(HeardAll(d, ms), d, known)
           /\ \A es \in Seq(Edit) : Prefix(d.content.edits, es) /\ (\A i \in DOMAIN ms : Says(ms[i], d, es))
                 => Prefix(HeardAll(d, ms).content.edits, es)
           /\ Refetches(HeardAll(d, ms), d)
           /\ HeardAll(d, ms).refetch \/ \A i \in DOMAIN ms : Reaches(HeardAll(d, ms), ms[i])
  <1>. DEFINE F(g, n) == IF n = 0 THEN d ELSE Heard(g[n - 1], ms[n])
              P(n) == \E g : g = [k \in 0 .. n |-> F(g, k)]
              L == Len(ms)
  <1>1. L \in Nat /\ DOMAIN ms = 1 .. L
    OBVIOUS
  <1>2. P(0)
    <2>. DEFINE g == [k \in 0 .. 0 |-> d]
    <2>1. g = [k \in 0 .. 0 |-> F(g, k)]
      OBVIOUS
    <2>. QED BY <2>1
  <1>3. ASSUME NEW n \in Nat, P(n) PROVE P(n + 1)
    <2>1. PICK g : g = [k \in 0 .. n |-> F(g, k)]
      BY <1>3
    <2>. DEFINE h == [k \in 0 .. n + 1 |-> IF k = n + 1 THEN Heard(g[n], ms[n + 1]) ELSE g[k]]
    <2>2. \A k \in 0 .. n + 1 : h[k] = F(h, k)
      <3>1. ASSUME NEW k \in 0 .. n PROVE h[k] = F(h, k)
        <4>1. h[k] = g[k] /\ g[k] = F(g, k)
          BY <2>1
        <4>2. k # 0 => k - 1 \in 0 .. n /\ h[k - 1] = g[k - 1]
          OBVIOUS
        <4>. QED BY <4>1, <4>2
      <3>2. h[n + 1] = F(h, n + 1)
        OBVIOUS
      <3>. QED BY <3>1, <3>2
    <2>. QED BY <2>2
  <1>4. \A n \in Nat : P(n)
    <2>. HIDE DEF P
    <2>. DEFINE T == {n \in Nat : ~P(n)}
    <2>1. SUFFICES ASSUME T # {} PROVE FALSE
      OBVIOUS
    <2>2. PICK n \in T : \A k \in T : n <= k
      BY <2>1, LeastNat
    <2>3. n # 0 /\ n - 1 \in Nat /\ n - 1 \notin T
      BY <1>2, <2>2
    <2>4. P((n - 1) + 1)
      BY <1>3, <2>3
    <2>. QED BY <2>2, <2>3, <2>4
  <1>. DEFINE heard == CHOOSE g : g = [k \in 0 .. L |-> F(g, k)]
  <1>5. heard = [k \in 0 .. L |-> F(heard, k)]
    BY <1>1, <1>4
  <1>6. HeardAll(d, ms) = heard[L]
    BY DEF HeardAll
  <1>. HIDE DEF heard, P
  <1>7. heard[0] = d /\ \A n \in 1 .. L : heard[n] = Heard(heard[n - 1], ms[n])
    BY <1>1, <1>5
  <1>. DEFINE Good(n) ==
                /\ Hears(heard[n], d, known)
                /\ \A es \in Seq(Edit) : Prefix(d.content.edits, es)
                       /\ (\A i \in DOMAIN ms : Says(ms[i], d, es))
                      => Prefix(heard[n].content.edits, es)
                /\ Refetches(heard[n], d)
                /\ heard[n].refetch \/ \A i \in 1 .. n : Reaches(heard[n], ms[i])
  <1>8. Good(0)
    BY <1>7, FollowsItself DEF Hears, Refetches
  <1>9. ASSUME NEW n \in 1 .. L, Good(n - 1) PROVE Good(n)
    <2>. DEFINE b == heard[n - 1]
    <2>1. DeviceType(b) /\ Follows(b, d) /\ b.queue = d.queue
          /\ (ToSet(d.content.edits) \subseteq known => ToSet(b.content.edits) \subseteq known)
      BY <1>9 DEF Hears, Follows, Goes
    <2>2. ms[n] \in Message /\ ms[n].edit \in known \cap Edit /\ ms[n].queue # None /\ n \in DOMAIN ms
      BY <1>1
    <2>3. heard[n] = Heard(b, ms[n])
      BY <1>7
    <2>. HIDE DEF b
    <2>4. /\ Hears(heard[n], b, known)
          /\ \A es \in Seq(Edit) : Prefix(b.content.edits, es) /\ Says(ms[n], b, es)
                 => Prefix(heard[n].content.edits, es)
          /\ Refetches(heard[n], b) /\ (heard[n].refetch \/ Reaches(heard[n], ms[n]))
      BY <2>1, <2>2, <2>3, HeardHears
    <2>5. Hears(heard[n], d, known)
      <3>1. DeviceType(heard[n]) /\ Follows(heard[n], b)
        BY <2>4 DEF Hears
      <3>2. Follows(heard[n], d)
        BY <2>1, <3>1, FollowsOn
      <3>. QED BY <2>1, <2>4, <3>2 DEF Hears
    <2>6. ASSUME NEW es \in Seq(Edit), Prefix(d.content.edits, es), \A i \in DOMAIN ms : Says(ms[i], d, es)
          PROVE  Prefix(heard[n].content.edits, es)
      <3>1. Prefix(b.content.edits, es)
        BY <1>9, <2>6 DEF b
      <3>2. Says(ms[n], b, es)
        BY <2>1, <2>2, <2>6 DEF Says
      <3>. QED BY <2>4, <3>1, <3>2
    <2>7. Refetches(heard[n], d) /\ (heard[n].refetch \/ \A i \in 1 .. n : Reaches(heard[n], ms[i]))
      <3>1. Refetches(b, d) /\ (b.refetch \/ \A i \in 1 .. n - 1 : Reaches(b, ms[i]))
        BY <1>9 DEF b
      <3>2. heard[n].queue = b.queue /\ Version(b.content) <= Version(heard[n].content)
            /\ Version(b.content) \in Nat /\ Version(heard[n].content) \in Nat
        BY <2>1, <2>4 DEF Hears, Follows, Goes, Prefix, Version, DeviceType, Contents
      <3>3. ASSUME ~heard[n].refetch, NEW i \in 1 .. n PROVE Reaches(heard[n], ms[i])
        <4>1. CASE i = n
          BY <2>4, <3>3, <4>1
        <4>2. CASE i # n
          <5>1. Reaches(b, ms[i]) /\ ms[i].version \in Nat
            <6>1. ~b.refetch
              BY <2>4, <3>3 DEF Refetches
            <6>2. i \in 1 .. n - 1 /\ i \in DOMAIN ms
              BY <1>1, <1>9, <4>2
            <6>3. ms[i].version \in Nat
              <7>1. ms[i] \in Message
                BY <6>2
              <7>. QED BY <7>1 DEF Message
            <6>. QED BY <3>1, <6>1, <6>2, <6>3
          <5>. QED BY <3>2, <5>1 DEF Reaches
        <4>. QED BY <4>1, <4>2
      <3>. QED BY <2>4, <3>1, <3>3 DEF Refetches
    <2>. QED BY <2>5, <2>6, <2>7
  <1>10. Good(L)
    <2>. HIDE DEF Good
    <2>. DEFINE T == {n \in 0 .. L : ~Good(n)}
    <2>1. SUFFICES ASSUME T # {} PROVE FALSE
      BY <1>1
    <2>5. T \in SUBSET Nat
      BY <1>1
    <2>2. PICK n \in T : \A k \in T : n <= k
      BY <2>1, <2>5, LeastNat
    <2>3. n \in 1 .. L /\ n - 1 \in 0 .. L /\ n - 1 \notin T
      BY <1>1, <1>8, <2>2
    <2>4. Good(n - 1)
      BY <2>3
    <2>. QED BY <1>9, <2>2, <2>3, <2>4
  <1>. QED BY <1>1, <1>6, <1>10


(* A fetch answered leaves pending the edits its queue may be without      *)
(* (#caughtUp).                                                            *)
Left(d) ==
    [d EXCEPT !.pending = Restrict(@, Unanswered(d) \cup
                                      {i \in DOMAIN d.pending : d.pending[i].version > Version(d.content)})]

\* What is left pending is what was, less answered edits the queue is not behind.
LEMMA LeftGoes ==
    ASSUME NEW d, DeviceType(d)
    PROVE  /\ DeviceType(Left(d)) /\ Goes(Left(d), d)
           /\ Left(d).content = d.content /\ Left(d).reported = d.reported
           /\ Left(d).refetch = d.refetch
           /\ \A i \in DOMAIN Left(d).pending : Sent(d.pending[i])
                  => d.pending[i].version > Version(d.content)
           /\ \A i \in DOMAIN d.pending \ DOMAIN Left(d).pending :
                 Sent(d.pending[i]) /\ d.pending[i].version <= Version(d.content)
  <1>. DEFINE g == Left(d)
              stay == Unanswered(d) \cup {i \in DOMAIN d.pending : d.pending[i].version > Version(d.content)}
  <1>1. /\ DOMAIN g = DOMAIN d
        /\ g.queue = d.queue /\ g.run = d.run /\ g.count = d.count /\ g.held = d.held
        /\ g.starting = d.starting /\ g.restoring = d.restoring /\ g.content = d.content
        /\ g.refetch = d.refetch /\ g.reported = d.reported
        /\ g.pending = [i \in stay |-> d.pending[i]]
    BY DEF DeviceType, Left, Restrict
  <1>2. DOMAIN g.pending = stay /\ \A i \in DOMAIN g.pending : g.pending[i] = d.pending[i]
    BY <1>1
  <1>3. stay \subseteq DOMAIN d.pending
    BY DEF Unanswered
  <1>4. \A i \in DOMAIN d.pending : d.pending[i] \in Pending /\ d.pending[i].version \in Nat
    BY DEF DeviceType, Pending
  <1>5. d.content.edits \in Seq(Edit) /\ Version(d.content) \in Nat
    BY DEF DeviceType, Contents, Version
  <1>6. g.pending \in [DOMAIN g.pending -> Pending]
    BY <1>1, <1>2, <1>3, <1>4
  <1>7. \A i \in stay : Sent(d.pending[i]) => d.pending[i].version > Version(d.content)
    BY DEF Unanswered
  <1>8. \A i \in DOMAIN d.pending \ stay : Sent(d.pending[i]) /\ d.pending[i].version <= Version(d.content)
    BY <1>4, <1>5 DEF Unanswered
  <1>. HIDE DEF g, stay
  <1>9. DeviceType(g)
    BY <1>1, <1>2, <1>3, <1>6 DEF DeviceType
  <1>10. Goes(g, d)
    BY <1>1, <1>2, <1>3, <1>5, PrefixGoesOn DEF Goes
  <1>. QED BY <1>1, <1>2, <1>7, <1>8, <1>9, <1>10 DEF g

\* Catching up leaves the confirmed queue within what it and the messages held say.
LEMMA CaughtUpHears ==
    ASSUME NEW d, DeviceType(d), NEW ms \in Seq(Message), NEW known,
           \A i \in DOMAIN ms : ms[i].edit \in known \cap Edit /\ ms[i].queue # None
    PROVE  /\ Hears(CaughtUp(d, ms), Left(d), known)
           /\ \A es \in Seq(Edit) : Prefix(d.content.edits, es) /\ (\A i \in DOMAIN ms : Says(ms[i], d, es))
                 => Prefix(CaughtUp(d, ms).content.edits, es)
           /\ Refetches(CaughtUp(d, ms), d)
           /\ \/ CaughtUp(d, ms).refetch
              \/ /\ \A i \in DOMAIN ms : Reaches(CaughtUp(d, ms), ms[i])
                 /\ \A i \in DOMAIN CaughtUp(d, ms).pending : ~Sent(CaughtUp(d, ms).pending[i])
  <1>. DEFINE g == Left(d)
              heard == HeardAll(g, ms)
              told == IF heard.refetch THEN heard
                      ELSE GiveUp(heard, DOMAIN heard.pending \ Unanswered(heard))
  <1>1. CaughtUp(d, ms) = Rebuild(told)
    BY DEF CaughtUp, Left
  <1>2. DeviceType(g) /\ g.content = d.content /\ g.queue = d.queue /\ g.refetch = d.refetch
    BY LeftGoes DEF Goes
  <1>. HIDE DEF g
  <1>3. /\ Hears(heard, g, known)
        /\ \A es \in Seq(Edit) : Prefix(g.content.edits, es) /\ (\A i \in DOMAIN ms : Says(ms[i], g, es))
              => Prefix(heard.content.edits, es)
        /\ Refetches(heard, g) /\ (heard.refetch \/ \A i \in DOMAIN ms : Reaches(heard, ms[i]))
    BY <1>2, HeardAllHears
  <1>. HIDE DEF heard
  <1>4. DeviceType(heard) /\ Follows(heard, g)
    BY <1>3 DEF Hears
  <1>5. /\ DeviceType(told) /\ Follows(told, heard) /\ told.content = heard.content
        /\ told.refetch = heard.refetch
        /\ heard.refetch \/ \A i \in DOMAIN told.pending : ~Sent(told.pending[i])
    <2>1. CASE heard.refetch
      BY <1>4, <2>1, FollowsItself
    <2>2. CASE ~heard.refetch
      <3>. DEFINE gone == DOMAIN heard.pending \ Unanswered(heard)
      <3>1. told = GiveUp(heard, gone) /\ gone \in SUBSET DOMAIN heard.pending
        BY <2>2
      <3>2. /\ DeviceType(told) /\ Follows(told, heard) /\ told.content = heard.content
            /\ told.refetch = heard.refetch /\ DOMAIN told.pending = DOMAIN heard.pending \ gone
        BY <1>4, <3>1, GiveUpFollows
      <3>. HIDE DEF told
      <3>3. \A i \in DOMAIN told.pending : i \in Unanswered(heard) /\ told.pending[i] = heard.pending[i]
        BY <3>2 DEF Follows, Goes
      <3>. QED BY <3>2, <3>3 DEF Unanswered
    <2>. QED BY <2>1, <2>2
  <1>. HIDE DEF told
  <1>6. /\ DeviceType(Rebuild(told)) /\ Follows(Rebuild(told), told) /\ Rebuild(told).content = told.content
        /\ Rebuild(told).refetch = told.refetch
    BY <1>5, RebuildFollows
  <1>11. \/ Rebuild(told).refetch
         \/ /\ \A i \in DOMAIN ms : Reaches(Rebuild(told), ms[i])
            /\ \A i \in DOMAIN Rebuild(told).pending : ~Sent(Rebuild(told).pending[i])
    <2>1. Rebuild(told).queue = heard.queue /\ Rebuild(told).content = heard.content
      BY <1>5, <1>6 DEF Follows, Goes
    <2>2. \A i \in DOMAIN Rebuild(told).pending : i \in DOMAIN told.pending
                                                  /\ Rebuild(told).pending[i] = told.pending[i]
      BY <1>6 DEF Follows, Goes
    <2>. QED BY <1>3, <1>5, <1>6, <2>1, <2>2 DEF Reaches
  <1>12. Refetches(Rebuild(told), d)
    BY <1>2, <1>3, <1>5, <1>6 DEF Refetches
  <1>7. Follows(Rebuild(told), g)
    <2>1. Follows(told, g)
      BY <1>2, <1>4, <1>5, FollowsOn
    <2>. QED BY <1>2, <1>5, <1>6, <2>1, FollowsOn
  <1>8. Hears(Rebuild(told), g, known)
    BY <1>3, <1>5, <1>6, <1>7 DEF Hears
  <1>9. \A m, es : Says(m, d, es) <=> Says(m, g, es)
    BY <1>2 DEF Says
  <1>10. ASSUME NEW es \in Seq(Edit), Prefix(d.content.edits, es), \A i \in DOMAIN ms : Says(ms[i], d, es)
         PROVE  Prefix(Rebuild(told).content.edits, es)
    BY <1>2, <1>3, <1>5, <1>6, <1>9, <1>10
  <1>. QED BY <1>1, <1>8, <1>10, <1>11, <1>12 DEF g

-----------------------------------------------------------------------------
(***************************************************************************)
(* The invariant.  Its conjuncts are of the values d of device, s of       *)
(* server, h of http, la of late, ib of inbox, md of made and fg of        *)
(* forgotten, so that a step is taken one of them at a time.               *)
(***************************************************************************)

\* The edits of queue q as the server holds it, none if it does not.
EditsIn(s, q) == IF q \in DOMAIN s.queues THEN s.queues[q].edits ELSE <<>>

IsQueues(qs) == DOMAIN qs \subseteq Queue /\ \A q \in DOMAIN qs : qs[q] \in Contents
ServerType(s) ==
    /\ DOMAIN s = {"run", "active", "done", "telling", "saved", "queues"}
    /\ DOMAIN s.saved = {"active", "queues"}
    /\ s.run \in Nat \ {0} /\ IsQueues(s.queues) /\ IsQueues(s.saved.queues)
    /\ s.active \in DOMAIN s.queues \cup {None}
    /\ s.saved.active \in DOMAIN s.saved.queues \cup {None}
    /\ DOMAIN s.saved.queues \subseteq DOMAIN s.queues
    /\ \A q \in DOMAIN s.saved.queues : Prefix(s.saved.queues[q].edits, s.queues[q].edits)
    /\ s.done \in Seq([edit : Edit, version : Nat])

AnswerType(a) ==
    /\ DOMAIN a = {"status", "version", "run", "queue", "content"}
    /\ a.version \in Nat /\ a.run \in Nat /\ a.queue \in OfQueue /\ a.content \in Contents
Has(h, status) == h.at \in {"answered", "installing"} /\ h.answer.status = status
Reads(h) == h.kind \in {"fetch", "restore"}
HttpType(h) ==
    /\ DOMAIN h = {"kind", "queue", "edit", "known", "at", "stale", "answer"}
    /\ h.kind \in {"none", "start", "edit", "restore", "fetch"}
    /\ h.at \in {"idle", "sent", "applied", "answered", "installing"}
    /\ h.kind = "none" => h.at = "idle"
    /\ h.kind = "start" => h.queue \in Own /\ h.edit = None
    /\ h.kind = "edit" => h.queue \in Queue /\ h.edit \in OwnEdit
    /\ h.kind = "restore" => h.queue \in Queue /\ h.edit = None
    /\ h.at = "applied" => h.kind \in {"start", "restore"}
    /\ h.at = "installing" => Reads(h) /\ h.answer.status = "ok"
    /\ h.stale \in BOOLEAN /\ AnswerType(h.answer)
    /\ Reads(h) /\ Has(h, "ok") => h.answer.queue \in Queue
    /\ h.kind = "fetch" /\ h.at = "answered" => h.answer.status \in {"ok", "same", "missing", "lost"}
LateType(la) == \A r \in la :
    \/ r.kind = "start" /\ r.queue \in Own /\ r.edit = None
    \/ r.kind = "edit" /\ r.queue \in Queue /\ r.edit \in OwnEdit
    \/ r.kind = "restore" /\ r.queue \in Queue /\ r.edit = None
InboxType(ib) ==
    /\ ib \in Seq(Message)
    /\ \A i \in DOMAIN ib : ib[i].type = "queueEdit" => ib[i].edit \in Edit /\ ib[i].queue \in Queue

Types(d, s, h, la, ib, md, fg) ==
    /\ DeviceType(d) /\ ServerType(s) /\ HttpType(h) /\ LateType(la) /\ InboxType(ib)
    /\ md \subseteq Edit \cup Queue /\ DOMAIN fg = {"edits", "queues"}
    /\ h.kind # "fetch" => d.held = <<>>
    /\ \A i \in DOMAIN d.held : d.held[i].edit \in Edit /\ d.held[i].queue # None
    /\ h.at = "applied" => s.active # None
    /\ d.run <= s.run /\ h.answer.run <= s.run

\* Edit e is asked for, of queue q.
Asks(d, h, la, e, q) ==
    \/ \E i \in DOMAIN d.pending : d.pending[i].edit = e /\ d.pending[i].queue = q
    \/ h.kind = "edit" /\ h.edit = e /\ h.queue = q
    \/ \E r \in la : r.kind = "edit" /\ r.edit = e /\ r.queue = q

\* What is anywhere has been made before.
KnownEdits(d, s, h, la, ib, md) ==
    /\ \A q \in DOMAIN s.queues : ToSet(s.queues[q].edits) \subseteq md \cup {Past}
    /\ ToSet(d.content.edits) \subseteq md \cup {Past}
    /\ ToSet(h.answer.content.edits) \subseteq md \cup {Past}
    /\ \A i \in DOMAIN ib : ib[i].edit \in md \cup {Past, None}
    /\ \A i \in DOMAIN d.held : d.held[i].edit \in md \cup {Past}
    /\ \A i \in DOMAIN s.done : s.done[i].edit \in md \cup {Past}
    /\ \A e \in OwnEdit, q \in Queue : Asks(d, h, la, e, q) => e \in md
KnownQueues(d, s, h, la, ib, md) ==
    /\ DOMAIN s.queues \subseteq md \cup {First, Older}
    /\ \A r \in la : r.kind = "start" => r.queue \in md
    /\ h.kind = "start" => h.queue \in md
    /\ d.starting \in md \cup {None}
    /\ \A i \in DOMAIN ib : ib[i].type = "queueEdit" => ib[i].queue \in md \cup {First, Older}

\* An edit is of one queue, however often it is sent.
OneQueue(d, h, la) ==
    \A e \in OwnEdit, p, q \in Queue : Asks(d, h, la, e, p) /\ Asks(d, h, la, e, q) => p = q

\* Edit e made version v of queue q, unless a crash lost it.
Placed(s, fg, e, q, v) == e \in fg.edits \/ Applied(EditsIn(s, q), e, v)
\* The version an edit was answered with is its place in the queue.
Places(d, s, h, la, fg) ==
    /\ h.kind = "edit" /\ (Has(h, "applied") \/ Has(h, "again"))
          => Placed(s, fg, h.edit, h.queue, h.answer.version)
    /\ \A i \in DOMAIN d.pending : Sent(d.pending[i])
          => Placed(s, fg, d.pending[i].edit, d.queue, d.pending[i].version)
    /\ \A i \in DOMAIN s.done : \A q \in Queue : Asks(d, h, la, s.done[i].edit, q)
          => Placed(s, fg, s.done[i].edit, q, s.done[i].version)

\* While the queue is read, nobody but the page has an edit not answered.
Unsent(s, h, la, e) ==
    /\ \A q \in DOMAIN s.queues : e \notin ToSet(s.queues[q].edits)
    /\ \A r \in la : r.edit # e
    /\ Has(h, "ok") => e \notin ToSet(h.answer.content.edits)
NotYet(d, s, h, la) ==
    Reads(h) => \A i \in Unanswered(d) : Unsent(s, h, la, d.pending[i].edit)

\* What is read has the edits answered, and what is shown once has no pending one.
HasIt(p, es, fg) == p.edit \in fg.edits \/ Applied(es, p.edit, p.version)
ReadsAnswered(d, h, fg) ==
    Reads(h) /\ Has(h, "ok") =>
        \A i \in DOMAIN d.pending : Sent(d.pending[i]) /\ d.pending[i].queue = h.answer.queue
            => HasIt(d.pending[i], h.answer.content.edits, fg)
Once(d, fg) == Edits(d.pending) \cap ToSet(d.content.edits) \subseteq fg.edits

\* What a message says is so.
IsSo(s, fg, m) == m.queue \in fg.queues \/ Applied(EditsIn(s, m.queue), m.edit, m.version)
\* In one run of the server, edits es are the first of those it holds of queue q.
Behind(s, fg, run, q, es) ==
    run = s.run /\ q \notin fg.queues => Prefix(es, EditsIn(s, q))
Installs(h) == h.at = "installing" /\ ~h.stale
InStep(d, s, h, ib, fg) ==
    /\ \A i \in DOMAIN ib : ib[i].type = "queueEdit" => IsSo(s, fg, ib[i])
    /\ h.kind = "fetch" /\ (h.at = "sent" \/ h.answer.run = s.run)
          => \A i \in DOMAIN d.held : IsSo(s, fg, d.held[i])
    /\ ~Installs(h) => Behind(s, fg, d.run, d.queue, d.content.edits)
    /\ Reads(h) /\ Has(h, "ok")
          => Behind(s, fg, h.answer.run, h.answer.queue, h.answer.content.edits)
    /\ Installs(h) => d.run = h.answer.run

\* A start made while the queue is read is of a queue nobody has yet.
Overtakes(d, s, h, la, ib) ==
    Reads(h) /\ h.stale =>
        /\ d.queue \in Own /\ d.queue \notin DOMAIN s.queues /\ d.content.edits = <<>>
        /\ \A r \in la : r.kind = "start" => r.queue # d.queue
        /\ \A i \in DOMAIN ib : ib[i].type = "queueEdit" => ib[i].queue # d.queue

\* The tag a fetch is sent with names what is confirmed, which "same" says is the server's.
Sames(d, h, fg) ==
    h.kind = "fetch" /\ ~h.stale =>
        /\ h.at = "sent" => h.known = Known(d)
        /\ Has(h, "same") =>
              /\ h.answer.run = d.run
              /\ d.queue \notin fg.queues =>
                    \A i \in DOMAIN d.pending : Sent(d.pending[i]) => HasIt(d.pending[i], d.content.edits, fg)

Inv(d, s, h, la, ib, md, fg) ==
    /\ Types(d, s, h, la, ib, md, fg)
    /\ KnownEdits(d, s, h, la, ib, md) /\ KnownQueues(d, s, h, la, ib, md)
    /\ OneQueue(d, h, la) /\ Places(d, s, h, la, fg)
    /\ NotYet(d, s, h, la) /\ ReadsAnswered(d, h, fg) /\ Once(d, fg)
    /\ InStep(d, s, h, ib, fg) /\ Overtakes(d, s, h, la, ib) /\ Sames(d, h, fg)
QueueInv == Inv(device, server, http, late, inbox, made, forgotten)

\* Only the device's edits are asked for.
LEMMA AsksTyped ==
    ASSUME NEW d, NEW h, NEW la, NEW e, NEW q, DeviceType(d), HttpType(h), LateType(la), Asks(d, h, la, e, q)
    PROVE  e \in OwnEdit /\ q \in Queue
  <1>1. \A i \in DOMAIN d.pending : d.pending[i].edit \in OwnEdit /\ d.pending[i].queue \in Queue
    BY DEF DeviceType, Pending
  <1>. QED BY <1>1 DEF Asks, HttpType, LateType

\* A queue's edits are edits.
LEMMA EditsInTyped ==
    ASSUME NEW s, NEW q, ServerType(s)
    PROVE  EditsIn(s, q) \in Seq(Edit)
  BY DEF ServerType, IsQueues, Contents, EditsIn

-----------------------------------------------------------------------------
(***************************************************************************)
(* The server goes from s to s2, with edits and queues there that were not,*)
(* and so does what it has lost.                                           *)
(***************************************************************************)
Moves(s2, fg2, s, fg) ==
    /\ s.run <= s2.run /\ fg.edits \subseteq fg2.edits /\ fg.queues \subseteq fg2.queues
    /\ \A q, e, v : Applied(EditsIn(s, q), e, v) => Placed(s2, fg2, e, q, v)
    /\ s2.run = s.run => \A q : q \in fg2.queues \/ Prefix(EditsIn(s, q), EditsIn(s2, q))
NewEdits(s2, s, new) ==
    \A q \in DOMAIN s2.queues :
        \/ (q \in DOMAIN s.queues /\ ToSet(s2.queues[q].edits) \subseteq ToSet(s.queues[q].edits) \cup new)
        \/ ToSet(s2.queues[q].edits) \subseteq new
NewDone(s2, fg2, s, d, h, la, md2) ==
    \A i \in DOMAIN s2.done :
        \/ \E j \in DOMAIN s.done : s2.done[i] = s.done[j]
        \/ /\ s2.done[i].edit \in md2 \cup {Past}
           /\ \A q \in Queue : Asks(d, h, la, s2.done[i].edit, q)
                 => Placed(s2, fg2, s2.done[i].edit, q, s2.done[i].version)

\* new are the edits that come to be there, and newq the queues.
ServerGoes(d, s, h, la, ib, md, fg, s2, md2, fg2, new, newq) ==
    /\ ServerType(s2) /\ DOMAIN fg2 = {"edits", "queues"}
    /\ md \subseteq md2 /\ md2 \subseteq Edit \cup Queue
    /\ Moves(s2, fg2, s, fg) /\ NewDone(s2, fg2, s, d, h, la, md2)
    /\ s2.run # s.run => ib = <<>> /\ h.at \notin {"sent", "applied"}
    /\ h.at = "applied" => s2.active # None
    /\ NewEdits(s2, s, new) /\ new \subseteq md2 \cup {Past}
    /\ Reads(h) => \A i \in Unanswered(d) : d.pending[i].edit \notin new
    /\ DOMAIN s2.queues \subseteq DOMAIN s.queues \cup newq /\ newq \subseteq md2 \cup {First, Older}
    /\ Reads(h) /\ h.stale => d.queue \notin newq

\* So moved, the server leaves the invariant as it was.
LEMMA ServerMoves ==
    ASSUME NEW d, NEW s, NEW h, NEW la, NEW ib, NEW md, NEW fg, Inv(d, s, h, la, ib, md, fg),
           NEW s2, NEW md2, NEW fg2, NEW new, NEW newq,
           ServerGoes(d, s, h, la, ib, md, fg, s2, md2, fg2, new, newq)
    PROVE  Inv(d, s2, h, la, ib, md2, fg2)
  <1>. USE DEF Inv, ServerGoes
  <1>0. \A q, e, v : Placed(s, fg, e, q, v) => Placed(s2, fg2, e, q, v)
    BY DEF Moves, Placed
  <1>1. Types(d, s2, h, la, ib, md2, fg2)
    <2>1. d.run <= s2.run /\ h.answer.run <= s2.run
      BY DEF Types, Moves, ServerType, DeviceType, HttpType, AnswerType
    <2>. QED BY <2>1 DEF Types
  <1>2. KnownEdits(d, s2, h, la, ib, md2)
    <2>1. \A q \in DOMAIN s2.queues : ToSet(s2.queues[q].edits) \subseteq md2 \cup {Past}
      BY DEF KnownEdits, NewEdits
    <2>2. \A i \in DOMAIN s2.done : s2.done[i].edit \in md2 \cup {Past}
      BY DEF KnownEdits, NewDone
    <2>. QED BY <2>1, <2>2 DEF KnownEdits
  <1>3. KnownQueues(d, s2, h, la, ib, md2)
    BY DEF KnownQueues
  <1>4. OneQueue(d, h, la)
    OBVIOUS
  <1>5. Places(d, s2, h, la, fg2)
    <2>1. ASSUME NEW i \in DOMAIN s2.done, NEW q \in Queue, Asks(d, h, la, s2.done[i].edit, q)
          PROVE  Placed(s2, fg2, s2.done[i].edit, q, s2.done[i].version)
      <3>1. CASE \E j \in DOMAIN s.done : s2.done[i] = s.done[j]
        BY <1>0, <2>1, <3>1 DEF Places
      <3>. QED BY <2>1, <3>1 DEF NewDone
    <2>2. \A i \in DOMAIN d.pending : Sent(d.pending[i])
             => Placed(s2, fg2, d.pending[i].edit, d.queue, d.pending[i].version)
      BY <1>0 DEF Places
    <2>3. h.kind = "edit" /\ (Has(h, "applied") \/ Has(h, "again"))
             => Placed(s2, fg2, h.edit, h.queue, h.answer.version)
      BY <1>0 DEF Places
    <2>. QED BY <2>1, <2>2, <2>3 DEF Places
  <1>6. NotYet(d, s2, h, la)
    BY DEF NotYet, Unsent, NewEdits
  <1>7. ReadsAnswered(d, h, fg2) /\ Once(d, fg2)
    BY DEF ReadsAnswered, Once, HasIt, Moves
  <1>8. InStep(d, s2, h, ib, fg2)
    <2>. DEFINE In(q) == q \notin fg2.queues => q \notin fg.queues /\ Prefix(EditsIn(s, q), EditsIn(s2, q))
    <2>1. ASSUME s2.run = s.run PROVE \A q : In(q)
      BY <2>1 DEF Moves
    <2>2. \A q : EditsIn(s, q) \in Seq(Edit) /\ EditsIn(s2, q) \in Seq(Edit)
      BY EditsInTyped DEF Types
    <2>3. d.content.edits \in Seq(Edit) /\ h.answer.content.edits \in Seq(Edit)
      BY DEF Types, DeviceType, HttpType, AnswerType, Contents
    <2>4. /\ d.run \in Nat /\ s.run \in Nat /\ s2.run \in Nat /\ h.answer.run \in Nat
          /\ d.run <= s.run /\ s.run <= s2.run /\ h.answer.run <= s.run
      BY DEF Types, DeviceType, ServerType, HttpType, AnswerType, Moves
    <2>5. ASSUME s2.run = s.run, NEW m, IsSo(s, fg, m)
          PROVE  IsSo(s2, fg2, m)
      BY <2>1, <2>2, <2>5, PrefixGoesOn DEF IsSo
    <2>6. ASSUME NEW run \in {d.run, h.answer.run}, NEW q, NEW es \in Seq(Edit), Behind(s, fg, run, q, es)
          PROVE  Behind(s2, fg2, run, q, es)
      <3>1. CASE s2.run = s.run
        BY <2>1, <2>2, <2>6, <3>1, PrefixGoesOn DEF Behind
      <3>2. CASE s2.run # s.run
        BY <2>4, <3>2 DEF Behind
      <3>. QED BY <3>1, <3>2
    <2>7. \A i \in DOMAIN ib : ib[i].type = "queueEdit" => IsSo(s2, fg2, ib[i])
      <3>1. CASE s2.run = s.run
        BY <2>5, <3>1 DEF InStep
      <3>2. CASE s2.run # s.run
        BY <3>2
      <3>. QED BY <3>1, <3>2
    <2>8. h.kind = "fetch" /\ (h.at = "sent" \/ h.answer.run = s2.run)
             => \A i \in DOMAIN d.held : IsSo(s2, fg2, d.held[i])
      <3>1. CASE s2.run = s.run
        BY <2>5, <3>1 DEF InStep
      <3>2. CASE s2.run # s.run
        BY <2>4, <3>2
      <3>. QED BY <3>1, <3>2
    <2>. QED BY <2>3, <2>6, <2>7, <2>8 DEF InStep
  <1>9. Overtakes(d, s2, h, la, ib)
    BY DEF Overtakes
  <1>10. Sames(d, h, fg2)
    BY DEF Sames, HasIt, Moves
  <1>. QED BY <1>1, <1>2, <1>3, <1>4, <1>5, <1>6, <1>7, <1>8, <1>9, <1>10

-----------------------------------------------------------------------------
(* The messages on their way are ones that were, and new ones.             *)
Fine(m, s, md, fg) ==
    \/ m.type # "queueEdit" /\ m.edit = None
    \/ m.edit \in Edit /\ m.edit \in md \cup {Past} /\ m.queue \in DOMAIN s.queues /\ IsSo(s, fg, m)

\* Messages that were there, or that are so, may be on their way.
LEMMA InboxMoves ==
    ASSUME NEW d, NEW s, NEW h, NEW la, NEW ib, NEW md, NEW fg, Inv(d, s, h, la, ib, md, fg),
           NEW ib2 \in Seq(Message),
           \A i \in DOMAIN ib2 : (\E j \in DOMAIN ib : ib2[i] = ib[j]) \/ Fine(ib2[i], s, md, fg)
    PROVE  Inv(d, s, h, la, ib2, md, fg)
  <1>1. DOMAIN s.queues \subseteq Queue /\ DOMAIN s.queues \subseteq md \cup {First, Older}
    BY DEF Inv, Types, ServerType, IsQueues, KnownQueues
  <1>2. InboxType(ib2)
    BY <1>1 DEF Inv, Types, InboxType, Fine
  <1>3. \A i \in DOMAIN ib2 : ib2[i].edit \in md \cup {Past, None}
    BY DEF Inv, KnownEdits, Fine
  <1>4. \A i \in DOMAIN ib2 : ib2[i].type = "queueEdit" =>
           ib2[i].queue \in md \cup {First, Older} /\ IsSo(s, fg, ib2[i])
    BY <1>1 DEF Inv, KnownQueues, InStep, Fine
  <1>5. Overtakes(d, s, h, la, ib2)
    BY DEF Inv, Overtakes, Fine
  <1>6. Types(d, s, h, la, ib2, md, fg)
    BY <1>2 DEF Inv, Types
  <1>7. KnownEdits(d, s, h, la, ib2, md) /\ KnownQueues(d, s, h, la, ib2, md)
    BY <1>3, <1>4 DEF Inv, KnownEdits, KnownQueues
  <1>8. InStep(d, s, h, ib2, fg)
    BY <1>4 DEF Inv, InStep
  <1>. QED BY <1>5, <1>6, <1>7, <1>8 DEF Inv

\* One more message that is so.
LEMMA Appended ==
    ASSUME NEW d, NEW s, NEW h, NEW la, NEW ib, NEW md, NEW fg, Inv(d, s, h, la, ib, md, fg),
           NEW m \in Message, Fine(m, s, md, fg)
    PROVE  Inv(d, s, h, la, Append(ib, m), md, fg)
  <1>1. ib \in Seq(Message)
    BY DEF Inv, Types, InboxType
  <1>2. /\ Append(ib, m) \in Seq(Message)
        /\ \A i \in DOMAIN Append(ib, m)  :
               (i \in DOMAIN ib /\ Append(ib, m)[i] = ib[i]) \/ Append(ib, m)[i] = m
    BY <1>1
  <1>. QED BY <1>2, InboxMoves

\* One message less, or all of them.
LEMMA TailOrNone ==
    ASSUME NEW d, NEW s, NEW h, NEW la, NEW ib, NEW md, NEW fg, Inv(d, s, h, la, ib, md, fg)
    PROVE  /\ Inv(d, s, h, la, <<>>, md, fg)
           /\ ib # <<>> => Inv(d, s, h, la, Tail(ib), md, fg)
  <1>1. ib \in Seq(Message)
    BY DEF Inv, Types, InboxType
  <1>2. ASSUME ib # <<>>
        PROVE  Tail(ib) \in Seq(Message) /\ \A i \in DOMAIN Tail(ib) :
                   \E j \in DOMAIN ib : Tail(ib)[i] = ib[j]
    <2>1. \A i \in DOMAIN Tail(ib) : i + 1 \in DOMAIN ib /\ Tail(ib)[i] = ib[i + 1]
      BY <1>1, <1>2
    <2>. QED BY <1>1, <1>2, <2>1
  <1>3. <<>> \in Seq(Message) /\ DOMAIN <<>> = {}
    OBVIOUS
  <1>4. Inv(d, s, h, la, <<>>, md, fg)
    BY <1>3, InboxMoves
  <1>. QED BY <1>2, <1>4, InboxMoves

(* Requests given up are of those there were, and the one under way.       *)
LEMMA LateMoves ==
    ASSUME NEW d, NEW s, NEW h, NEW la, NEW ib, NEW md, NEW fg, Inv(d, s, h, la, ib, md, fg),
           NEW la2, \A r \in la2 : r \in la \/ /\ h.kind \in {"start", "edit", "restore"}
                                                /\ r.kind = h.kind /\ r.queue = h.queue /\ r.edit = h.edit
    PROVE  Inv(d, s, h, la2, ib, md, fg)
  <1>1. \A e, q : Asks(d, h, la2, e, q) => Asks(d, h, la, e, q)
    BY DEF Asks
  <1>2. LateType(la2)
    BY DEF Inv, Types, LateType, HttpType
  <1>3. Types(d, s, h, la2, ib, md, fg)
    BY <1>2 DEF Inv, Types
  <1>4. KnownEdits(d, s, h, la2, ib, md)
    BY <1>1 DEF Inv, KnownEdits
  <1>5. KnownQueues(d, s, h, la2, ib, md)
    BY DEF Inv, KnownQueues
  <1>6. OneQueue(d, h, la2) /\ Places(d, s, h, la2, fg)
    BY <1>1 DEF Inv, OneQueue, Places
  <1>7. NotYet(d, s, h, la2)
    <2>1. \A i \in Unanswered(d) : d.pending[i].edit \in OwnEdit
      BY DEF Inv, Types, DeviceType, Pending, Unanswered
    <2>2. None \notin OwnEdit
      BY IdsAssumption DEF IdsAssumption, Edit
    <2>3. Reads(h) => \A r \in la2 : r \in la \/ r.edit = None
      BY DEF Inv, Types, HttpType, Reads
    <2>. QED BY <2>1, <2>2, <2>3 DEF Inv, NotYet, Unsent
  <1>8. Overtakes(d, s, h, la2, ib)
    <2>1. Reads(h) => \A r \in la2 : r.kind = "start" => r \in la
      BY DEF Reads
    <2>. QED BY <2>1 DEF Inv, Overtakes
  <1>. QED BY <1>3, <1>4, <1>5, <1>6, <1>7, <1>8 DEF Inv

(* The request under way is answered, or written.                          *)
LEMMA HttpMoves ==
    ASSUME NEW d, NEW s, NEW h, NEW la, NEW ib, NEW md, NEW fg, Inv(d, s, h, la, ib, md, fg),
           h.at # "installing", NEW h2, HttpType(h2),
           h2.kind = h.kind, h2.queue = h.queue, h2.edit = h.edit, h2.stale = h.stale,
           h2.at \in {"applied", "answered"}, h2.at = "applied" => s.active # None,
           h2.answer.run <= s.run, ToSet(h2.answer.content.edits) \subseteq md \cup {Past},
           h.kind = "fetch" /\ h2.answer.run = s.run => h.at = "sent",
           h.kind = "edit" /\ (Has(h2, "applied") \/ Has(h2, "again"))
              => Placed(s, fg, h.edit, h.queue, h2.answer.version),
           Reads(h) /\ Has(h2, "ok") =>
              /\ \A i \in Unanswered(d) : d.pending[i].edit \notin ToSet(h2.answer.content.edits)
              /\ Behind(s, fg, h2.answer.run, h2.answer.queue, h2.answer.content.edits),
           ReadsAnswered(d, h2, fg), Sames(d, h2, fg)
    PROVE  Inv(d, s, h2, la, ib, md, fg)
  <1>1. \A e, q : Asks(d, h2, la, e, q) <=> Asks(d, h, la, e, q)
    BY DEF Asks
  <1>2. Types(d, s, h2, la, ib, md, fg)
    BY DEF Inv, Types
  <1>3. KnownEdits(d, s, h2, la, ib, md)
    BY <1>1 DEF Inv, KnownEdits
  <1>4. KnownQueues(d, s, h2, la, ib, md)
    BY DEF Inv, KnownQueues
  <1>5. OneQueue(d, h2, la) /\ Places(d, s, h2, la, fg)
    BY <1>1 DEF Inv, OneQueue, Places
  <1>6. NotYet(d, s, h2, la)
    BY DEF Inv, NotYet, Unsent, Reads
  <1>7. InStep(d, s, h2, ib, fg)
    BY DEF Inv, InStep, Installs, Reads
  <1>8. Overtakes(d, s, h2, la, ib)
    BY DEF Inv, Overtakes, Reads
  <1>. QED BY <1>2, <1>3, <1>4, <1>5, <1>6, <1>7, <1>8 DEF Inv

\* A new queue has no edits.
LEMMA FreshContent ==
    ASSUME NEW repeat \in BOOLEAN, NEW rows \in {"viewed", "resolved"}
    PROVE  LET c == Fresh(repeat, rows)
           IN  c \in Contents /\ c.edits = <<>> /\ ToSet(c.edits) = {} /\ c.edits \in Seq(Edit)
  <1>1. DOMAIN <<>> = {} /\ <<>> \in Seq(Edit)
    OBVIOUS
  <1>2. Fresh(repeat, rows) \in Contents /\ Fresh(repeat, rows).edits = <<>>
    BY <1>1 DEF Fresh, Contents
  <1>. QED BY <1>1, <1>2 DEF ToSet

\* An answer of no more than a status.
LEMMA AnsweredIs ==
    ASSUME NEW status
    PROVE  LET a == Answered(status)
           IN  /\ DOMAIN a = {"status", "version", "run", "queue", "content"}
               /\ a.status = status /\ a.version = 0 /\ a.run = 0 /\ a.queue = None
               /\ a.content \in Contents /\ ToSet(a.content.edits) = {}
  <1>. DEFINE c == Fresh(FALSE, "viewed")
  <1>1. c \in Contents /\ ToSet(c.edits) = {}
    BY FreshContent
  <1>. HIDE DEF c
  <1>2. NoAnswer = [status |-> "none", version |-> 0, run |-> 0, queue |-> None, content |-> c]
    BY DEF NoAnswer, c
  <1>. QED BY <1>1, <1>2 DEF Answered

\* An answer that has no queue, version or run of the server with it.
LEMMA PlainAnswer ==
    ASSUME NEW d, NEW s, NEW h, NEW la, NEW ib, NEW md, NEW fg, Inv(d, s, h, la, ib, md, fg),
           h.at \in {"sent", "applied", "answered"},
           NEW status \in {"lost", "refused", "changed", "missing", "ok"}, status = "ok" => h.kind = "start",
           h.kind = "fetch" => status \in {"lost", "missing"}
    PROVE  Inv(d, s, [h EXCEPT !.at = "answered", !.answer = Answered(status)], la, ib, md, fg)
  <1>. DEFINE a == Answered(status)
              h2 == [h EXCEPT !.at = "answered", !.answer = a]
  <1>1. HttpType(h) /\ s.run \in Nat \ {0} /\ h.kind # "none"
    BY DEF Inv, Types, HttpType, ServerType
  <1>2. /\ DOMAIN h2 = DOMAIN h /\ h2.at = "answered" /\ h2.answer = a
        /\ h2.kind = h.kind /\ h2.queue = h.queue /\ h2.edit = h.edit /\ h2.stale = h.stale
        /\ h2.known = h.known
    BY <1>1 DEF HttpType
  <1>3. /\ DOMAIN a = {"status", "version", "run", "queue", "content"}
        /\ a.status = status /\ a.version = 0 /\ a.run = 0 /\ a.queue = None
        /\ a.content \in Contents /\ ToSet(a.content.edits) = {}
    BY AnsweredIs
  <1>. HIDE DEF a, h2
  <1>5. AnswerType(a)
    BY <1>3 DEF AnswerType, OfQueue
  <1>6. Reads(h2) => ~Has(h2, "ok")
    BY <1>1, <1>2, <1>3 DEF Reads, Has
  <1>7. HttpType(h2)
    <2>1. h2.kind = "fetch" => h2.answer.status \in {"ok", "same", "missing", "lost"}
      BY <1>2, <1>3
    <2>. QED BY <1>1, <1>2, <1>5, <1>6, <2>1 DEF HttpType
  <1>8. ~Has(h2, "applied") /\ ~Has(h2, "again") /\ ~Has(h2, "same") /\ h2.at # "sent"
    BY <1>2, <1>3 DEF Has
  <1>9. ReadsAnswered(d, h2, fg) /\ Sames(d, h2, fg) /\ (Reads(h) => ~Has(h2, "ok"))
    BY <1>2, <1>6, <1>8 DEF ReadsAnswered, Sames, Reads
  <1>10. h2.answer.run = 0 /\ h2.answer.run <= s.run /\ h2.answer.run # s.run
         /\ ToSet(h2.answer.content.edits) = {}
    BY <1>1, <1>2, <1>3
  <1>11. Inv(d, s, h2, la, ib, md, fg)
    BY <1>2, <1>7, <1>8, <1>9, <1>10, HttpMoves
  <1>. QED BY <1>11 DEF h2, a

\* The request is written, and its handler goes on.
LEMMA Written ==
    ASSUME NEW d, NEW s, NEW h, NEW la, NEW ib, NEW md, NEW fg, Inv(d, s, h, la, ib, md, fg),
           h.at = "sent", h.kind \in {"start", "restore"}, s.active # None
    PROVE  Inv(d, s, [h EXCEPT !.at = "applied"], la, ib, md, fg)
  <1>. DEFINE h2 == [h EXCEPT !.at = "applied"]
  <1>1. HttpType(h)
    BY DEF Inv, Types
  <1>2. /\ DOMAIN h2 = DOMAIN h /\ h2.at = "applied" /\ h2.answer = h.answer
        /\ h2.kind = h.kind /\ h2.queue = h.queue /\ h2.edit = h.edit /\ h2.stale = h.stale
    BY <1>1 DEF HttpType
  <1>. HIDE DEF h2
  <1>3. ~Has(h2, "applied") /\ ~Has(h2, "again") /\ ~Has(h2, "same") /\ ~Has(h2, "ok") /\ h2.at # "sent"
    BY <1>2 DEF Has
  <1>4. HttpType(h2)
    BY <1>1, <1>2, <1>3 DEF HttpType
  <1>5. ReadsAnswered(d, h2, fg) /\ Sames(d, h2, fg)
    BY <1>3 DEF ReadsAnswered, Sames
  <1>6. h2.answer.run <= s.run /\ ToSet(h2.answer.content.edits) \subseteq md \cup {Past}
    BY <1>2 DEF Inv, Types, KnownEdits
  <1>7. Inv(d, s, h2, la, ib, md, fg)
    BY <1>2, <1>3, <1>4, <1>5, <1>6, HttpMoves
  <1>. QED BY <1>7 DEF h2

\* An edit is answered with the version it made, or makes now.
LEMMA VersionAnswer ==
    ASSUME NEW d, NEW s, NEW h, NEW la, NEW ib, NEW md, NEW fg, Inv(d, s, h, la, ib, md, fg),
           h.at = "sent", h.kind = "edit",
           NEW status \in {"applied", "again"}, NEW v \in Nat, Placed(s, fg, h.edit, h.queue, v)
    PROVE  Inv(d, s, [h EXCEPT !.at = "answered", !.answer = [Answered(status) EXCEPT !.version = v]],
               la, ib, md, fg)
  <1>. DEFINE a == [Answered(status) EXCEPT !.version = v]
              h2 == [h EXCEPT !.at = "answered", !.answer = a]
  <1>1. HttpType(h) /\ s.run \in Nat \ {0} /\ ~Reads(h)
    BY DEF Inv, Types, HttpType, ServerType, Reads
  <1>2. /\ DOMAIN h2 = DOMAIN h /\ h2.at = "answered" /\ h2.answer = a
        /\ h2.kind = h.kind /\ h2.queue = h.queue /\ h2.edit = h.edit /\ h2.stale = h.stale
    BY <1>1 DEF HttpType
  <1>3. /\ DOMAIN a = {"status", "version", "run", "queue", "content"}
        /\ a.status = status /\ a.version = v /\ a.run = 0 /\ a.queue = None
        /\ a.content \in Contents /\ ToSet(a.content.edits) = {}
    BY AnsweredIs
  <1>. HIDE DEF a, h2
  <1>5. AnswerType(a)
    BY <1>3 DEF AnswerType, OfQueue
  <1>6. ~Reads(h2)
    BY <1>1, <1>2 DEF Reads
  <1>7. HttpType(h2)
    BY <1>1, <1>2, <1>5, <1>6 DEF HttpType
  <1>8. ReadsAnswered(d, h2, fg) /\ Sames(d, h2, fg)
    BY <1>2, <1>6 DEF ReadsAnswered, Sames, Reads
  <1>9. h2.answer.run <= s.run /\ ToSet(h2.answer.content.edits) = {} /\ h2.answer.version = v
    BY <1>1, <1>2, <1>3
  <1>10. Inv(d, s, h2, la, ib, md, fg)
    BY <1>1, <1>2, <1>7, <1>8, <1>9, HttpMoves
  <1>. QED BY <1>10 DEF h2, a

\* The active queue is the answer to a fetch or a restore.
LEMMA SnapshotAnswer ==
    ASSUME NEW d, NEW s, NEW h, NEW la, NEW ib, NEW md, NEW fg, Inv(d, s, h, la, ib, md, fg),
           (h.at = "sent" /\ h.kind = "fetch") \/ (h.at = "applied" /\ h.kind = "restore"), s.active # None,
           NEW a, DOMAIN a = {"status", "version", "run", "queue", "content"},
           a.status = "ok", a.version = 0, a.run = s.run, a.queue = s.active, a.content = s.queues[s.active]
    PROVE  Inv(d, s, [h EXCEPT !.at = "answered", !.answer = a], la, ib, md, fg)
  <1>. DEFINE h2 == [h EXCEPT !.at = "answered", !.answer = a]
  <1>1. HttpType(h) /\ ServerType(s) /\ DeviceType(d)
    BY DEF Inv, Types
  <1>2. /\ DOMAIN h2 = DOMAIN h /\ h2.at = "answered" /\ h2.answer = a
        /\ h2.kind = h.kind /\ h2.queue = h.queue /\ h2.edit = h.edit /\ h2.stale = h.stale
    BY <1>1 DEF HttpType
  <1>. HIDE DEF h2
  <1>3. s.active \in DOMAIN s.queues /\ s.active \in Queue /\ a.content \in Contents /\ s.run \in Nat
        /\ a.content.edits \in Seq(Edit)
    BY <1>1 DEF ServerType, IsQueues, Contents
  <1>4. AnswerType(a)
    BY <1>3 DEF AnswerType, OfQueue
  <1>5. HttpType(h2)
    BY <1>1, <1>2, <1>3, <1>4 DEF HttpType, Reads
  <1>6. ~Has(h2, "applied") /\ ~Has(h2, "again") /\ ~Has(h2, "same") /\ h2.at # "sent"
    BY <1>2 DEF Has
  <1>7. EditsIn(s, s.active) = a.content.edits
    BY <1>3 DEF EditsIn
  <1>8. ASSUME NEW i \in DOMAIN d.pending, Sent(d.pending[i]), d.pending[i].queue = a.queue
        PROVE  HasIt(d.pending[i], a.content.edits, fg)
    <2>1. d.pending[i].queue = d.queue
      BY <1>1 DEF DeviceType
    <2>2. Placed(s, fg, d.pending[i].edit, s.active, d.pending[i].version)
      BY <1>8, <2>1 DEF Inv, Places
    <2>. QED BY <1>7, <2>2 DEF Placed, HasIt
  <1>9. ReadsAnswered(d, h2, fg) /\ Sames(d, h2, fg)
    BY <1>2, <1>6, <1>8 DEF ReadsAnswered, Sames
  <1>10. Reads(h) /\ \A i \in Unanswered(d) : d.pending[i].edit \notin ToSet(a.content.edits)
    BY <1>3 DEF Inv, NotYet, Unsent, Reads
  <1>11. Behind(s, fg, a.run, a.queue, a.content.edits)
    BY <1>3, <1>7, PrefixGoesOn DEF Behind
  <1>12. ToSet(a.content.edits) \subseteq md \cup {Past} /\ a.run <= s.run
    BY <1>3 DEF Inv, KnownEdits
  <1>13. h.at # "installing" /\ h.kind # "edit" /\ (h.kind = "fetch" => h.at = "sent")
    OBVIOUS
  <1>14. Inv(d, s, h2, la, ib, md, fg)
    BY <1>2, <1>5, <1>6, <1>9, <1>10, <1>11, <1>12, <1>13, HttpMoves
  <1>. QED BY <1>14 DEF h2

\* The tag the fetch was sent with is the active queue's.
LEMMA SameAnswer ==
    ASSUME NEW d, NEW s, NEW h, NEW la, NEW ib, NEW md, NEW fg, Inv(d, s, h, la, ib, md, fg),
           h.at = "sent", h.kind = "fetch", s.active # None,
           h.known = [run |-> s.run, queue |-> s.active, version |-> Version(s.queues[s.active])]
    PROVE  Inv(d, s, [h EXCEPT !.at = "answered", !.answer = [Answered("same") EXCEPT !.run = s.run]],
               la, ib, md, fg)
  <1>. DEFINE a == [Answered("same") EXCEPT !.run = s.run]
              h2 == [h EXCEPT !.at = "answered", !.answer = a]
  <1>1. HttpType(h) /\ ServerType(s) /\ DeviceType(d)
    BY DEF Inv, Types
  <1>2. /\ DOMAIN h2 = DOMAIN h /\ h2.at = "answered" /\ h2.answer = a
        /\ h2.kind = h.kind /\ h2.queue = h.queue /\ h2.edit = h.edit /\ h2.stale = h.stale
    BY <1>1 DEF HttpType
  <1>3. /\ DOMAIN a = {"status", "version", "run", "queue", "content"}
        /\ a.status = "same" /\ a.version = 0 /\ a.run = s.run /\ a.queue = None
        /\ a.content \in Contents /\ ToSet(a.content.edits) = {}
    BY AnsweredIs
  <1>. HIDE DEF a, h2
  <1>5. AnswerType(a) /\ s.run \in Nat \ {0}
    BY <1>1, <1>3 DEF AnswerType, OfQueue, ServerType
  <1>6. ~Has(h2, "ok") /\ ~Has(h2, "applied") /\ ~Has(h2, "again") /\ h2.at # "sent"
    BY <1>2, <1>3 DEF Has
  <1>7. HttpType(h2)
    <2>1. h2.answer.status \in {"ok", "same", "missing", "lost"}
      BY <1>2, <1>3
    <2>. QED BY <1>1, <1>2, <1>5, <1>6, <2>1 DEF HttpType
  <1>8. ~h.stale => d.run = s.run /\ d.queue = s.active /\ Version(d.content) = Version(s.queues[s.active])
    BY <1>5 DEF Inv, Sames, Known, NoTag
  <1>9. d.content.edits \in Seq(Edit) /\ EditsIn(s, d.queue) \in Seq(Edit)
    BY <1>1, EditsInTyped DEF DeviceType, Contents
  <1>10. ~h.stale /\ d.queue \notin fg.queues => d.content.edits = EditsIn(s, d.queue)
    <2>1. s.active \in DOMAIN s.queues
      BY <1>1 DEF ServerType
    <2>2. ~h.stale => Len(d.content.edits) = Len(EditsIn(s, d.queue))
      BY <1>8, <2>1 DEF EditsIn, Version
    <2>3. ~h.stale /\ d.queue \notin fg.queues => Prefix(d.content.edits, EditsIn(s, d.queue))
      BY <1>8 DEF Inv, InStep, Installs, Behind
    <2>. QED BY <1>9, <2>2, <2>3, PrefixGoesOn
  <1>11. Sames(d, h2, fg)
    <2>1. ASSUME ~h.stale, d.queue \notin fg.queues, NEW i \in DOMAIN d.pending, Sent(d.pending[i])
          PROVE  HasIt(d.pending[i], d.content.edits, fg)
      BY <1>10, <2>1 DEF Inv, Places, Placed, HasIt
    <2>. QED BY <1>2, <1>3, <1>6, <1>8, <2>1 DEF Sames
  <1>12. ReadsAnswered(d, h2, fg)
    BY <1>6 DEF ReadsAnswered
  <1>13. h2.answer.run <= s.run /\ ToSet(h2.answer.content.edits) = {}
    BY <1>2, <1>3, <1>5
  <1>14. Inv(d, s, h2, la, ib, md, fg)
    BY <1>2, <1>6, <1>7, <1>11, <1>12, <1>13, HttpMoves
  <1>. QED BY <1>14 DEF h2, a

-----------------------------------------------------------------------------
(* What the server does to what it holds (Apply, Start, Restore and the    *)
(* rest), whoever asked for it.                                            *)
AfterEdit(s, e) ==
    LET q == s.active
        es == Append(s.queues[q].edits, e)
        done == Append(s.done, [edit |-> e, version |-> Len(es)])
    IN [s EXCEPT !.queues[q].edits = es, !.done = IF Len(done) > Remembered THEN Tail(done) ELSE done]

\* What the server holds then.
LEMMA AfterEditIs ==
    ASSUME NEW s, ServerType(s), s.active # None, NEW e \in Edit
    PROVE  LET s2 == AfterEdit(s, e)
               n == Len(s.queues[s.active].edits) + 1
           IN  /\ ServerType(s2) /\ s2.run = s.run /\ s2.active = s.active /\ s2.telling = s.telling
               /\ DOMAIN s2.queues = DOMAIN s.queues /\ NewEdits(s2, s, {e})
               /\ \A q : q # s.active => EditsIn(s2, q) = EditsIn(s, q)
               /\ n \in Nat \ {0} /\ Len(EditsIn(s, s.active)) + 1 = n /\ Len(EditsIn(s2, s.active)) = n
               /\ Applied(EditsIn(s2, s.active), e, n)
               /\ \A q : Prefix(EditsIn(s, q), EditsIn(s2, q))
               /\ \A i \in DOMAIN s2.done : \/ \E j \in DOMAIN s.done : s2.done[i] = s.done[j]
                                            \/ s2.done[i].edit = e /\ s2.done[i].version = n
  <1>. DEFINE s2 == AfterEdit(s, e)
              old == s.queues[s.active]
              es == Append(old.edits, e)
              entry == [edit |-> e, version |-> Len(es)]
              done == Append(s.done, entry)
  <1>1. s.active \in DOMAIN s.queues /\ s.active \in Queue
    BY DEF ServerType, IsQueues
  <1>2. old \in Contents /\ old.edits \in Seq(Edit)
    BY <1>1 DEF ServerType, IsQueues, Contents
  <1>3. /\ es \in Seq(Edit) /\ Len(es) = Len(old.edits) + 1 /\ Prefix(old.edits, es)
        /\ ToSet(es) = ToSet(old.edits) \cup {e} /\ Applied(es, e, Len(old.edits) + 1)
    BY <1>2, AppendGoesOn
  <1>4. /\ entry \in [edit : Edit, version : Nat] /\ entry.edit = e /\ entry.version = Len(old.edits) + 1
        /\ s.done \in Seq([edit : Edit, version : Nat])
    BY <1>1, <1>2, <1>3 DEF ServerType
  <1>5. /\ DOMAIN s2 = DOMAIN s /\ s2.run = s.run /\ s2.active = s.active /\ s2.saved = s.saved
        /\ s2.telling = s.telling
        /\ s2.queues = [s.queues EXCEPT ![s.active] = [old EXCEPT !.edits = es]]
        /\ s2.done = IF Len(done) > Remembered THEN Tail(done) ELSE done
    BY <1>1 DEF ServerType, AfterEdit
  <1>6. /\ DOMAIN s2.queues = DOMAIN s.queues
        /\ \A q \in DOMAIN s.queues : q # s.active => s2.queues[q] = s.queues[q]
        /\ s2.queues[s.active] = [old EXCEPT !.edits = es]
    BY <1>1, <1>5
  <1>. HIDE DEF entry, es
  <1>7. s2.queues[s.active].edits = es /\ s2.queues[s.active] \in Contents
    BY <1>2, <1>3, <1>6 DEF Contents
  <1>8. /\ s2.done \in Seq([edit : Edit, version : Nat])
        /\ \A i \in DOMAIN s2.done : s2.done[i] = entry \/ \E j \in DOMAIN s.done : s2.done[i] = s.done[j]
    <2>1. /\ done \in Seq([edit : Edit, version : Nat]) /\ done # <<>> /\ Len(done) = Len(s.done) + 1
          /\ \A i \in DOMAIN done : done[i] = entry \/ (i \in DOMAIN s.done /\ done[i] = s.done[i])
      <3>. DEFINE E == [edit : Edit, version : Nat]
      <3>1. entry \in E /\ s.done \in Seq(E)
        BY <1>4
      <3>. HIDE DEF E
      <3>2. done \in Seq(E) /\ done # <<>> /\ Len(done) = Len(s.done) + 1
        BY <3>1
      <3>3. \A i \in DOMAIN done : done[i] = entry \/ (i \in DOMAIN s.done /\ done[i] = s.done[i])
        BY <3>1
      <3>. QED BY <3>2, <3>3 DEF E
    <2>. HIDE DEF done
    <2>2. Tail(done) \in Seq([edit : Edit, version : Nat])
          /\ \A i \in DOMAIN Tail(done) : i + 1 \in DOMAIN done /\ Tail(done)[i] = done[i + 1]
      BY <2>1
    <2>. QED BY <1>5, <2>1, <2>2
  <1>. HIDE DEF s2, old, done
  <1>9. /\ \A q : q # s.active => EditsIn(s2, q) = EditsIn(s, q)
        /\ EditsIn(s, s.active) = old.edits /\ EditsIn(s2, s.active) = es
    BY <1>1, <1>6, <1>7 DEF EditsIn, old
  <1>10. \A q : EditsIn(s, q) \in Seq(Edit) /\ EditsIn(s2, q) \in Seq(Edit)
             /\ Prefix(EditsIn(s, q), EditsIn(s2, q))
    BY <1>1, <1>2, <1>3, <1>9, EditsInTyped, PrefixGoesOn
  <1>11. ServerType(s2)
    <2>1. IsQueues(s2.queues)
      BY <1>1, <1>6, <1>7 DEF ServerType, IsQueues
    <2>2. \A q \in DOMAIN s.saved.queues : Prefix(s.saved.queues[q].edits, s2.queues[q].edits)
      <3>1. ASSUME NEW q \in DOMAIN s.saved.queues PROVE Prefix(s.saved.queues[q].edits, s2.queues[q].edits)
        <4>1. q \in DOMAIN s.queues /\ s.saved.queues[q].edits \in Seq(Edit)
              /\ Prefix(s.saved.queues[q].edits, s.queues[q].edits)
          BY <1>1 DEF ServerType, IsQueues, Contents
        <4>2. s.queues[q].edits = EditsIn(s, q) /\ s2.queues[q].edits = EditsIn(s2, q)
          BY <1>6, <4>1 DEF EditsIn
        <4>. QED BY <1>10, <4>1, <4>2, PrefixGoesOn
      <3>. QED BY <3>1
    <2>. QED BY <1>1, <1>5, <1>6, <1>8, <2>1, <2>2 DEF ServerType
  <1>12. NewEdits(s2, s, {e})
    BY <1>3, <1>6, <1>7 DEF NewEdits, old
  <1>13. \A i \in DOMAIN s2.done : \/ \E j \in DOMAIN s.done : s2.done[i] = s.done[j]
                                   \/ s2.done[i].edit = e /\ s2.done[i].version = Len(old.edits) + 1
    BY <1>4, <1>8
  <1>14. Len(old.edits) + 1 \in Nat \ {0}
    BY <1>2
  <1>. QED BY <1>3, <1>5, <1>6, <1>9, <1>10, <1>11, <1>12, <1>13, <1>14 DEF s2, old

\* The server applies an edit nobody has had applied (Queues::apply).
LEMMA EditMoves ==
    ASSUME NEW d, NEW s, NEW h, NEW la, NEW ib, NEW md, NEW fg, Inv(d, s, h, la, ib, md, fg),
           NEW e \in Edit, NEW md2, md \subseteq md2, md2 \subseteq Edit \cup Queue, e \in md2 \cup {Past},
           s.active # None, \A q \in Queue : Asks(d, h, la, e, q) => q = s.active,
           Reads(h) => \A i \in Unanswered(d) : d.pending[i].edit # e
    PROVE  LET s2 == AfterEdit(s, e)
           IN  /\ Inv(d, s2, h, la, ib, md2, fg)
               /\ s2.active = s.active /\ DOMAIN s2.queues = DOMAIN s.queues
               /\ Applied(EditsIn(s2, s.active), e, Len(s.queues[s.active].edits) + 1)
  <1>. DEFINE s2 == AfterEdit(s, e)
              n == Len(s.queues[s.active].edits) + 1
  <1>1. ServerType(s) /\ s.run \in Nat /\ DOMAIN fg = {"edits", "queues"}
    BY DEF Inv, Types, ServerType
  <1>2. /\ ServerType(s2) /\ s2.run = s.run /\ s2.active = s.active /\ s2.telling = s.telling
        /\ DOMAIN s2.queues = DOMAIN s.queues /\ NewEdits(s2, s, {e})
        /\ Applied(EditsIn(s2, s.active), e, n)
        /\ \A q : Prefix(EditsIn(s, q), EditsIn(s2, q))
        /\ \A i \in DOMAIN s2.done : \/ \E j \in DOMAIN s.done : s2.done[i] = s.done[j]
                                     \/ s2.done[i].edit = e /\ s2.done[i].version = n
    BY <1>1, AfterEditIs
  <1>. HIDE DEF s2, n
  <1>3. Moves(s2, fg, s, fg)
    <2>1. \A q : EditsIn(s, q) \in Seq(Edit) /\ EditsIn(s2, q) \in Seq(Edit)
      BY <1>1, <1>2, EditsInTyped
    <2>. QED BY <1>1, <1>2, <2>1, PrefixGoesOn DEF Moves, Placed
  <1>4. NewDone(s2, fg, s, d, h, la, md2)
    BY <1>2 DEF NewDone, Placed
  <1>5. ServerGoes(d, s, h, la, ib, md, fg, s2, md2, fg, {e}, {})
    BY <1>1, <1>2, <1>3, <1>4 DEF ServerGoes, Inv, Types
  <1>6. Inv(d, s2, h, la, ib, md2, fg)
    BY <1>5, ServerMoves
  <1>. QED BY <1>2, <1>6 DEF s2, n

\* The queues stay as they are.
LEMMA SameMoves ==
    ASSUME NEW s, NEW s2, NEW fg, ServerType(s), s2.run = s.run, \A q : EditsIn(s2, q) = EditsIn(s, q)
    PROVE  Moves(s2, fg, s, fg)
  <1>1. s.run <= s2.run
    BY DEF ServerType
  <1>2. \A q : Prefix(EditsIn(s, q), EditsIn(s2, q))
    BY EditsInTyped, PrefixGoesOn
  <1>3. \A q, e, v : Applied(EditsIn(s, q), e, v) => Placed(s2, fg, e, q, v)
    BY DEF Placed
  <1>. QED BY <1>1, <1>2, <1>3 DEF Moves

AfterStart(s, q, repeat, rows, telling) ==
    [s EXCEPT !.active = q, !.telling = telling, !.queues =
        [p \in DOMAIN s.queues \cup {q} |-> IF p = q THEN Fresh(repeat, rows) ELSE s.queues[p]]]

\* A queue is started (start_in).
LEMMA StartMoves ==
    ASSUME NEW d, NEW s, NEW h, NEW la, NEW ib, NEW md, NEW fg, Inv(d, s, h, la, ib, md, fg),
           NEW q \in Queue, q \notin DOMAIN s.queues, NEW md2, md \subseteq md2,
           md2 \subseteq Edit \cup Queue,
           q \in md2, Reads(h) /\ h.stale => d.queue # q,
           NEW repeat \in BOOLEAN, NEW rows \in {"viewed", "resolved"}, NEW telling
    PROVE  Inv(d, AfterStart(s, q, repeat, rows, telling), h, la, ib, md2, fg)
  <1>. DEFINE s2 == AfterStart(s, q, repeat, rows, telling)
              fresh == Fresh(repeat, rows)
  <1>1. ServerType(s) /\ DOMAIN fg = {"edits", "queues"} /\ q # None
    <2>1. q # None
      BY IdsAssumption DEF IdsAssumption
    <2>. QED BY <2>1 DEF Inv, Types
  <1>2. fresh \in Contents /\ fresh.edits = <<>> /\ ToSet(fresh.edits) = {}
    BY FreshContent
  <1>. HIDE DEF fresh
  <1>3. /\ DOMAIN s2 = DOMAIN s /\ s2.run = s.run /\ s2.active = q /\ s2.saved = s.saved /\ s2.done = s.done
        /\ s2.queues = [p \in DOMAIN s.queues \cup {q} |-> IF p = q THEN fresh ELSE s.queues[p]]
    BY <1>1 DEF ServerType, AfterStart, fresh
  <1>4. /\ DOMAIN s2.queues = DOMAIN s.queues \cup {q} /\ s2.queues[q] = fresh
        /\ \A p \in DOMAIN s.queues : s2.queues[p] = s.queues[p]
    BY <1>3
  <1>. HIDE DEF s2
  <1>5. \A p : EditsIn(s2, p) = EditsIn(s, p)
    BY <1>2, <1>4 DEF EditsIn
  <1>6. ServerType(s2)
    <2>1. IsQueues(s2.queues)
      BY <1>1, <1>2, <1>4 DEF ServerType, IsQueues
    <2>. QED BY <1>1, <1>3, <1>4, <2>1 DEF ServerType
  <1>7. Moves(s2, fg, s, fg)
    BY <1>1, <1>3, <1>5, SameMoves
  <1>8. NewEdits(s2, s, {})
    BY <1>2, <1>4 DEF NewEdits
  <1>9. NewDone(s2, fg, s, d, h, la, md2)
    BY <1>3 DEF NewDone
  <1>10. ServerGoes(d, s, h, la, ib, md, fg, s2, md2, fg, {}, {q})
    BY <1>1, <1>3, <1>4, <1>6, <1>7, <1>8, <1>9 DEF ServerGoes
  <1>11. Inv(d, s2, h, la, ib, md2, fg)
    BY <1>10, ServerMoves
  <1>. QED BY <1>11 DEF s2

\* What is active, told and saved changes, and none of the queues.
LEMMA QueuesStay ==
    ASSUME NEW d, NEW s, NEW h, NEW la, NEW ib, NEW md, NEW fg, Inv(d, s, h, la, ib, md, fg),
           NEW s2, ServerType(s2), s2.run = s.run, s2.queues = s.queues, s2.done = s.done,
           h.at = "applied" => s2.active # None
    PROVE  Inv(d, s2, h, la, ib, md, fg)
  <1>1. ServerType(s) /\ DOMAIN fg = {"edits", "queues"} /\ md \subseteq Edit \cup Queue
    BY DEF Inv, Types
  <1>2. \A p : EditsIn(s2, p) = EditsIn(s, p)
    BY DEF EditsIn
  <1>3. Moves(s2, fg, s, fg)
    BY <1>1, <1>2, SameMoves
  <1>4. NewEdits(s2, s, {}) /\ NewDone(s2, fg, s, d, h, la, md)
    BY DEF NewEdits, NewDone
  <1>5. ServerGoes(d, s, h, la, ib, md, fg, s2, md, fg, {}, {})
    BY <1>1, <1>3, <1>4 DEF ServerGoes
  <1>. QED BY <1>5, ServerMoves

\* made grows.
LEMMA MadeGrows ==
    ASSUME NEW d, NEW s, NEW h, NEW la, NEW ib, NEW md, NEW fg, Inv(d, s, h, la, ib, md, fg),
           NEW md2, md \subseteq md2, md2 \subseteq Edit \cup Queue
    PROVE  Inv(d, s, h, la, ib, md2, fg)
  <1>1. ServerType(s) /\ DOMAIN fg = {"edits", "queues"} /\ (h.at = "applied" => s.active # None)
    BY DEF Inv, Types
  <1>2. Moves(s, fg, s, fg)
    BY <1>1, SameMoves
  <1>3. NewEdits(s, s, {}) /\ NewDone(s, fg, s, d, h, la, md2)
    BY DEF NewEdits, NewDone
  <1>4. ServerGoes(d, s, h, la, ib, md, fg, s, md2, fg, {}, {})
    BY <1>1, <1>2, <1>3 DEF ServerGoes
  <1>. QED BY <1>4, ServerMoves

AfterRestore(s, q, telling) ==
    [s EXCEPT !.active = q, !.telling = telling, !.saved = [active |-> q, queues |-> s.queues]]
\* A kept queue is active again, and saved (restore_in).
LEMMA RestoreMoves ==
    ASSUME NEW d, NEW s, NEW h, NEW la, NEW ib, NEW md, NEW fg, Inv(d, s, h, la, ib, md, fg),
           NEW q \in DOMAIN s.queues, NEW telling
    PROVE  Inv(d, AfterRestore(s, q, telling), h, la, ib, md, fg)
  <1>. DEFINE s2 == AfterRestore(s, q, telling)
  <1>1. ServerType(s) /\ q \in Queue /\ q # None
    <2>1. None \notin Queue
      BY IdsAssumption DEF IdsAssumption
    <2>. QED BY <2>1 DEF Inv, Types, ServerType, IsQueues
  <1>2. /\ DOMAIN s2 = DOMAIN s /\ s2.run = s.run /\ s2.active = q /\ s2.done = s.done /\ s2.queues = s.queues
        /\ s2.saved = [active |-> q, queues |-> s.queues]
    BY <1>1 DEF ServerType, AfterRestore
  <1>. HIDE DEF s2
  <1>3. DOMAIN s2.saved = {"active", "queues"} /\ s2.saved.active = q /\ s2.saved.queues = s.queues
    BY <1>2
  <1>4. \A p \in DOMAIN s.queues : Prefix(s.queues[p].edits, s.queues[p].edits)
    BY <1>1, PrefixGoesOn DEF ServerType, IsQueues, Contents
  <1>5. ServerType(s2)
    BY <1>1, <1>2, <1>3, <1>4 DEF ServerType
  <1>6. Inv(d, s2, h, la, ib, md, fg)
    BY <1>1, <1>2, <1>5, QueuesStay
  <1>. QED BY <1>6 DEF s2

\* Whom a handler has still to tell is of no account.
LEMMA TellingMoves ==
    ASSUME NEW d, NEW s, NEW h, NEW la, NEW ib, NEW md, NEW fg, Inv(d, s, h, la, ib, md, fg), NEW telling
    PROVE  Inv(d, [s EXCEPT !.telling = telling], h, la, ib, md, fg)
  <1>. DEFINE s2 == [s EXCEPT !.telling = telling]
  <1>1. ServerType(s) /\ (h.at = "applied" => s.active # None)
    BY DEF Inv, Types
  <1>2. /\ DOMAIN s2 = DOMAIN s /\ s2.run = s.run /\ s2.active = s.active /\ s2.done = s.done
        /\ s2.queues = s.queues /\ s2.saved = s.saved
    BY <1>1 DEF ServerType
  <1>. HIDE DEF s2
  <1>3. ServerType(s2)
    BY <1>1, <1>2 DEF ServerType
  <1>4. Inv(d, s2, h, la, ib, md, fg)
    BY <1>1, <1>2, <1>3, QueuesStay
  <1>. QED BY <1>4 DEF s2

KeptQueues(s) == {q \in DOMAIN s.queues : q = s.active \/ Adjusted(s.queues[q])}
AfterSave(s) ==
    LET queues == [q \in KeptQueues(s) |-> s.queues[q]]
    IN [s EXCEPT !.queues = queues, !.saved = [active |-> s.active, queues |-> queues]]

\* The account is saved, less the queues it lets go of.
LEMMA SaveMoves ==
    ASSUME NEW d, NEW s, NEW h, NEW la, NEW ib, NEW md, NEW fg, Inv(d, s, h, la, ib, md, fg),
           NEW fg2, DOMAIN fg2 = {"edits", "queues"}, fg.edits \subseteq fg2.edits,
           fg2.queues = fg.queues \cup (DOMAIN s.queues \ KeptQueues(s)),
           \A q \in DOMAIN s.queues \ KeptQueues(s) : ToSet(s.queues[q].edits) \subseteq fg2.edits
    PROVE  Inv(d, AfterSave(s), h, la, ib, md, fg2)
  <1>. DEFINE s2 == AfterSave(s)
              kept == KeptQueues(s)
              queues == [q \in kept |-> s.queues[q]]
  <1>1. ServerType(s) /\ md \subseteq Edit \cup Queue /\ (h.at = "applied" => s.active # None)
    BY DEF Inv, Types
  <1>2. kept \subseteq DOMAIN s.queues /\ (s.active \in DOMAIN s.queues => s.active \in kept)
    BY DEF KeptQueues
  <1>3. /\ DOMAIN s2 = DOMAIN s /\ s2.run = s.run /\ s2.active = s.active /\ s2.done = s.done
        /\ s2.queues = queues /\ s2.saved = [active |-> s.active, queues |-> queues]
    BY <1>1 DEF ServerType, AfterSave
  <1>4. DOMAIN queues = kept /\ \A q \in kept : queues[q] = s.queues[q]
    OBVIOUS
  <1>. HIDE DEF s2, kept, queues
  <1>5. DOMAIN s2.saved = {"active", "queues"} /\ s2.saved.active = s.active /\ s2.saved.queues = queues
    BY <1>3
  <1>6. \A q \in kept : Prefix(queues[q].edits, queues[q].edits)
    BY <1>1, <1>2, <1>4, PrefixGoesOn DEF ServerType, IsQueues, Contents
  <1>7. IsQueues(queues)
    BY <1>1, <1>2, <1>4 DEF ServerType, IsQueues
  <1>8. ServerType(s2)
    BY <1>1, <1>2, <1>3, <1>4, <1>5, <1>6, <1>7 DEF ServerType
  <1>9. \A q : IF q \in DOMAIN s.queues \ kept
               THEN q \in fg2.queues /\ EditsIn(s, q) = s.queues[q].edits
               ELSE EditsIn(s2, q) = EditsIn(s, q)
    BY <1>2, <1>3, <1>4 DEF EditsIn, kept
  <1>10. Moves(s2, fg2, s, fg)
    <2>1. \A q : EditsIn(s, q) \in Seq(Edit)
      BY <1>1, EditsInTyped
    <2>2. ASSUME NEW q, NEW e, NEW v, Applied(EditsIn(s, q), e, v)
          PROVE  Placed(s2, fg2, e, q, v)
      <3>1. CASE q \in DOMAIN s.queues \ kept
        <4>1. e \in ToSet(EditsIn(s, q))
          BY <2>1, <2>2, PrefixGoesOn
        <4>. QED BY <1>9, <3>1, <4>1 DEF Placed, kept
      <3>2. CASE q \notin DOMAIN s.queues \ kept
        BY <1>9, <2>2, <3>2 DEF Placed
      <3>. QED BY <3>1, <3>2
    <2>3. \A q : q \in fg2.queues \/ Prefix(EditsIn(s, q), EditsIn(s2, q))
      BY <1>9, <2>1, PrefixGoesOn
    <2>. QED BY <1>1, <1>3, <2>2, <2>3 DEF Moves, ServerType
  <1>11. NewEdits(s2, s, {}) /\ NewDone(s2, fg2, s, d, h, la, md)
    BY <1>2, <1>3, <1>4 DEF NewEdits, NewDone
  <1>12. ServerGoes(d, s, h, la, ib, md, fg, s2, md, fg2, {}, {})
    BY <1>1, <1>2, <1>3, <1>4, <1>8, <1>10, <1>11 DEF ServerGoes
  <1>13. Inv(d, s2, h, la, ib, md, fg2)
    BY <1>12, ServerMoves
  <1>. QED BY <1>13 DEF s2

AfterRestart(s) ==
    [s EXCEPT !.run = @ + 1, !.done = <<>>, !.telling = {},
              !.active = s.saved.active, !.queues = s.saved.queues]

\* The server starts again with what it saved.
LEMMA RestartMoves ==
    ASSUME NEW d, NEW s, NEW h, NEW la, NEW md, NEW fg, Inv(d, s, h, la, <<>>, md, fg),
           h.at \notin {"sent", "applied"},
           NEW fg2, DOMAIN fg2 = {"edits", "queues"}, fg2.queues = fg.queues, fg.edits \subseteq fg2.edits,
           \A q \in DOMAIN s.queues :
              LET n == IF q \in DOMAIN s.saved.queues THEN Len(s.saved.queues[q].edits) ELSE 0
              IN  \A i \in n + 1 .. Len(s.queues[q].edits) : s.queues[q].edits[i] \in fg2.edits
    PROVE  Inv(d, AfterRestart(s), h, la, <<>>, md, fg2)
  <1>. DEFINE s2 == AfterRestart(s)
  <1>1. ServerType(s) /\ md \subseteq Edit \cup Queue
    BY DEF Inv, Types
  <1>2. /\ DOMAIN s2 = DOMAIN s /\ s2.run = s.run + 1 /\ s2.active = s.saved.active /\ s2.done = <<>>
        /\ s2.queues = s.saved.queues /\ s2.saved = s.saved
    BY <1>1 DEF ServerType, AfterRestart
  <1>. HIDE DEF s2
  <1>3. s.run \in Nat /\ s.run < s2.run /\ s2.run \in Nat \ {0}
    BY <1>1, <1>2 DEF ServerType
  <1>4. \A q \in DOMAIN s.saved.queues : /\ q \in DOMAIN s.queues
                                         /\ s.saved.queues[q].edits \in Seq(Edit)
                                         /\ s.queues[q].edits \in Seq(Edit)
                                         /\ Prefix(s.saved.queues[q].edits, s.queues[q].edits)
                                         /\ Prefix(s.saved.queues[q].edits, s.saved.queues[q].edits)
    BY <1>1, PrefixGoesOn DEF ServerType, IsQueues, Contents
  <1>5. ServerType(s2)
    <2>1. <<>> \in Seq([edit : Edit, version : Nat])
      OBVIOUS
    <2>. QED BY <1>1, <1>2, <1>3, <1>4, <2>1 DEF ServerType
  <1>6. Moves(s2, fg2, s, fg)
    <2>1. ASSUME NEW q, NEW e, NEW v, Applied(EditsIn(s, q), e, v)
          PROVE  Placed(s2, fg2, e, q, v)
      <3>1. q \in DOMAIN s.queues /\ EditsIn(s, q) = s.queues[q].edits
        <4>1. ~Applied(<<>>, e, v)
          BY DEF Applied
        <4>. QED BY <2>1, <4>1 DEF EditsIn
      <3>. DEFINE n == IF q \in DOMAIN s.saved.queues THEN Len(s.saved.queues[q].edits) ELSE 0
      <3>2. s.queues[q].edits \in Seq(Edit)
        BY <1>1, <3>1 DEF ServerType, IsQueues, Contents
      <3>3. v \in 1 .. Len(s.queues[q].edits) /\ e = s.queues[q].edits[v] /\ n \in Nat
        BY <1>4, <2>1, <3>1, <3>2 DEF Applied
      <3>4. CASE v > n
        <4>1. v \in n + 1 .. Len(s.queues[q].edits)
          BY <3>2, <3>3, <3>4
        <4>. QED BY <3>1, <3>3, <4>1 DEF Placed
      <3>5. CASE v <= n
        <4>1. q \in DOMAIN s.saved.queues /\ v \in 1 .. Len(s.saved.queues[q].edits)
          BY <3>3, <3>5
        <4>2. EditsIn(s2, q) = s.saved.queues[q].edits
          BY <1>2, <4>1 DEF EditsIn
        <4>3. s.saved.queues[q].edits[v] = e
          BY <1>4, <3>3, <4>1 DEF Prefix
        <4>. QED BY <4>1, <4>2, <4>3 DEF Placed, Applied
      <3>6. v > n \/ v <= n
        BY <3>2, <3>3
      <3>. QED BY <3>4, <3>5, <3>6
    <2>. QED BY <1>3, <2>1 DEF Moves
  <1>7. NewEdits(s2, s, {})
    <2>1. \A q \in DOMAIN s.saved.queues : ToSet(s.saved.queues[q].edits) \subseteq ToSet(s.queues[q].edits)
      BY <1>4, PrefixGoesOn
    <2>. QED BY <1>2, <1>4, <2>1 DEF NewEdits
  <1>8. NewDone(s2, fg2, s, d, h, la, md)
    BY <1>2 DEF NewDone
  <1>9. ServerGoes(d, s, h, la, <<>>, md, fg, s2, md, fg2, {}, {})
    BY <1>1, <1>2, <1>4, <1>5, <1>6, <1>7, <1>8 DEF ServerGoes
  <1>10. Inv(d, s2, h, la, <<>>, md, fg2)
    BY <1>9, ServerMoves
  <1>. QED BY <1>10 DEF s2

-----------------------------------------------------------------------------
(* What the device does to what it holds.                                  *)
LEMMA DeviceMoves ==
    ASSUME NEW d, NEW s, NEW h, NEW la, NEW ib, NEW md, NEW fg, Inv(d, s, h, la, ib, md, fg),
           NEW d2, DeviceType(d2), Goes(d2, d), ToSet(d2.content.edits) \subseteq md \cup {Past},
           h.kind = "fetch" => d2.content = d.content,
           Reads(h) /\ h.stale => d2.content.edits = <<>>,
           ~Installs(h) => Behind(s, fg, d.run, d.queue, d2.content.edits)
    PROVE  Inv(d2, s, h, la, ib, md, fg)
  <1>1. /\ d2.queue = d.queue /\ d2.run = d.run /\ d2.held \in {d.held, <<>>}
        /\ d2.starting \in {d.starting, None}
        /\ \A i \in DOMAIN d2.pending : i \in DOMAIN d.pending /\ d2.pending[i] = d.pending[i]
    BY DEF Goes
  <1>2. \A i \in DOMAIN d2.held : i \in DOMAIN d.held /\ d2.held[i] = d.held[i]
    BY <1>1
  <1>3. \A e, q : Asks(d2, h, la, e, q) => Asks(d, h, la, e, q)
    BY <1>1 DEF Asks
  <1>4. Types(d2, s, h, la, ib, md, fg)
    BY <1>1, <1>2 DEF Inv, Types
  <1>5. KnownEdits(d2, s, h, la, ib, md) /\ KnownQueues(d2, s, h, la, ib, md)
    BY <1>1, <1>2, <1>3 DEF Inv, KnownEdits, KnownQueues
  <1>6. OneQueue(d2, h, la)
    BY <1>3 DEF Inv, OneQueue
  <1>7. Places(d2, s, h, la, fg)
    BY <1>1, <1>3 DEF Inv, Places
  <1>8. NotYet(d2, s, h, la)
    BY <1>1 DEF Inv, NotYet, Unanswered
  <1>9. ReadsAnswered(d2, h, fg)
    BY <1>1 DEF Inv, ReadsAnswered
  <1>10. Once(d2, fg)
    BY <1>1 DEF Inv, Once, Goes, Edits
  <1>11. InStep(d2, s, h, ib, fg)
    BY <1>1, <1>2 DEF Inv, InStep
  <1>12. Overtakes(d2, s, h, la, ib)
    BY <1>1 DEF Inv, Overtakes
  <1>13. Sames(d2, h, fg)
    BY <1>1 DEF Inv, Sames, Known
  <1>. QED BY <1>4, <1>5, <1>6, <1>7, <1>8, <1>9, <1>10, <1>11, <1>12, <1>13 DEF Inv

\* The request under way has had its answer.
LEMMA NothingSentIs ==
    /\ HttpType(NothingSent) /\ NothingSent.kind = "none" /\ NothingSent.at = "idle"
    /\ ~NothingSent.stale /\ NothingSent.answer.run = 0
    /\ ToSet(NothingSent.answer.content.edits) = {}
  <1>. DEFINE c == Fresh(FALSE, "viewed")
              a == NoAnswer
  <1>1. c \in Contents /\ ToSet(c.edits) = {}
    BY FreshContent
  <1>. HIDE DEF c
  <1>2. a = [status |-> "none", version |-> 0, run |-> 0, queue |-> None, content |-> c]
    BY DEF NoAnswer, c
  <1>3. /\ DOMAIN a = {"status", "version", "run", "queue", "content"}
        /\ a.status = "none" /\ a.version = 0 /\ a.run = 0 /\ a.queue = None
        /\ a.content \in Contents /\ ToSet(a.content.edits) = {}
    BY <1>1, <1>2
  <1>. HIDE DEF a
  <1>4. AnswerType(a)
    BY <1>3 DEF AnswerType, OfQueue
  <1>. QED BY <1>3, <1>4 DEF NothingSent, HttpType, Reads, a

\* A request not needed any more is forgotten.
LEMMA Forget ==
    ASSUME NEW d, NEW s, NEW h, NEW la, NEW ib, NEW md, NEW fg, Inv(d, s, h, la, ib, md, fg),
           d.held = <<>>, ~Installs(h)
    PROVE  Inv(d, s, NothingSent, la, ib, md, fg)
  <1>. DEFINE h2 == NothingSent
  <1>1. /\ HttpType(h2) /\ h2.kind = "none" /\ h2.at = "idle"
        /\ ~h2.stale /\ h2.answer.run = 0 /\ ToSet(h2.answer.content.edits) = {}
    BY NothingSentIs
  <1>. HIDE DEF h2
  <1>2. ~Reads(h2) /\ ~Installs(h2)
    BY <1>1 DEF Reads, Installs
  <1>3. \A e, q : Asks(d, h2, la, e, q) => Asks(d, h, la, e, q)
    BY <1>1 DEF Asks
  <1>4. s.run \in Nat
    BY DEF Inv, Types, ServerType
  <1>5. Types(d, s, h2, la, ib, md, fg)
    BY <1>1, <1>4 DEF Inv, Types
  <1>6. KnownEdits(d, s, h2, la, ib, md) /\ KnownQueues(d, s, h2, la, ib, md)
    BY <1>1, <1>3 DEF Inv, KnownEdits, KnownQueues
  <1>7. OneQueue(d, h2, la) /\ Places(d, s, h2, la, fg)
    BY <1>1, <1>3 DEF Inv, OneQueue, Places
  <1>8. NotYet(d, s, h2, la) /\ ReadsAnswered(d, h2, fg) /\ Overtakes(d, s, h2, la, ib)
    BY <1>2 DEF NotYet, ReadsAnswered, Overtakes
  <1>9. InStep(d, s, h2, ib, fg)
    BY <1>1, <1>2 DEF Inv, InStep
  <1>10. Sames(d, h2, fg)
    BY <1>1 DEF Sames
  <1>11. Inv(d, s, h2, la, ib, md, fg)
    BY <1>5, <1>6, <1>7, <1>8, <1>9, <1>10 DEF Inv
  <1>. QED BY <1>11 DEF h2

\* A message is held while a fetch is under way.
LEMMA HeldMoves ==
    ASSUME NEW d, NEW s, NEW h, NEW la, NEW ib, NEW md, NEW fg, Inv(d, s, h, la, ib, md, fg),
           h.kind = "fetch", NEW i \in DOMAIN ib, ib[i].type = "queueEdit"
    PROVE  Inv([d EXCEPT !.held = Append(@, ib[i])], s, h, la, ib, md, fg)
  <1>. DEFINE m == ib[i]
              d2 == [d EXCEPT !.held = Append(@, m)]
  <1>1. /\ DeviceType(d) /\ m \in Message /\ m.edit \in Edit /\ m.queue \in Queue /\ d.held \in Seq(Message)
        /\ m.queue # None /\ m.edit # None
    <2>1. None \notin Queue \cup Edit
      BY IdsAssumption DEF IdsAssumption
    <2>. QED BY <2>1 DEF Inv, Types, InboxType, DeviceType
  <1>2. m.edit \in md \cup {Past} /\ IsSo(s, fg, m)
    BY <1>1 DEF Inv, KnownEdits, InStep
  <1>. HIDE DEF m
  <1>3. /\ DOMAIN d2 = DOMAIN d /\ d2.held = Append(d.held, m)
        /\ d2.queue = d.queue /\ d2.run = d.run /\ d2.count = d.count /\ d2.starting = d.starting
        /\ d2.restoring = d.restoring /\ d2.content = d.content /\ d2.pending = d.pending
        /\ d2.refetch = d.refetch /\ d2.reported = d.reported
    BY <1>1 DEF DeviceType
  <1>4. /\ Append(d.held, m) \in Seq(Message)
        /\ \A j \in DOMAIN Append(d.held, m) :
              (j \in DOMAIN d.held /\ Append(d.held, m)[j] = d.held[j]) \/ Append(d.held, m)[j] = m
    BY <1>1
  <1>. HIDE DEF d2
  <1>5. \A j \in DOMAIN d2.held : (j \in DOMAIN d.held /\ d2.held[j] = d.held[j]) \/ d2.held[j] = m
    BY <1>3, <1>4
  <1>6. DeviceType(d2)
    BY <1>1, <1>3, <1>4 DEF DeviceType
  <1>7. \A e, q : Asks(d2, h, la, e, q) <=> Asks(d, h, la, e, q)
    BY <1>3 DEF Asks
  <1>8. Types(d2, s, h, la, ib, md, fg)
    BY <1>1, <1>3, <1>5, <1>6 DEF Inv, Types
  <1>9. KnownEdits(d2, s, h, la, ib, md)
    BY <1>2, <1>3, <1>5, <1>7 DEF Inv, KnownEdits
  <1>10. KnownQueues(d2, s, h, la, ib, md)
    BY <1>3 DEF Inv, KnownQueues
  <1>11. OneQueue(d2, h, la) /\ Places(d2, s, h, la, fg)
    BY <1>3, <1>7 DEF Inv, OneQueue, Places
  <1>12. NotYet(d2, s, h, la) /\ ReadsAnswered(d2, h, fg) /\ Once(d2, fg)
    BY <1>3 DEF Inv, NotYet, ReadsAnswered, Once, Unanswered
  <1>13. InStep(d2, s, h, ib, fg)
    BY <1>2, <1>3, <1>5 DEF Inv, InStep
  <1>14. Overtakes(d2, s, h, la, ib) /\ Sames(d2, h, fg)
    BY <1>3 DEF Inv, Overtakes, Sames, Known
  <1>15. Inv(d2, s, h, la, ib, md, fg)
    BY <1>8, <1>9, <1>10, <1>11, <1>12, <1>13, <1>14 DEF Inv
  <1>. QED BY <1>15 DEF d2, m

\* The user edits: with a fresh id, on top.
LEMMA MadeMoves ==
    ASSUME NEW d, NEW s, NEW h, NEW la, NEW ib, NEW md, NEW fg, Inv(d, s, h, la, ib, md, fg),
           NEW e \in OwnEdit, e \notin md, d.queue # None
    PROVE  Inv(Made(d, e), s, h, la, ib, md \cup {e}, fg)
  <1>. DEFINE d2 == Made(d, e)
              place == d.count + 1
              p == [edit |-> e, queue |-> d.queue, version |-> 0]
              md2 == md \cup {e}
  <1>1. DeviceType(d) /\ HttpType(h) /\ LateType(la) /\ d.queue \in Queue /\ md2 \subseteq Edit \cup Queue
    BY DEF Inv, Types, DeviceType, OfQueue, Edit
  <1>2. e # Past /\ e # None
    BY IdsAssumption DEF IdsAssumption, Edit
  <1>3. place \in Nat /\ place \notin DOMAIN d.pending
        /\ DOMAIN d.pending \cup {place} \subseteq 1 .. place
    BY <1>1 DEF DeviceType
  <1>4. p \in Pending /\ p.edit = e /\ p.queue = d.queue /\ ~Sent(p)
    BY <1>1 DEF Pending, Sent
  <1>. HIDE DEF p
  <1>5. /\ DOMAIN d2 = DOMAIN d /\ d2.held = d.held
        /\ d2.queue = d.queue /\ d2.run = d.run /\ d2.count = place /\ d2.starting = d.starting
        /\ d2.restoring = d.restoring /\ d2.content = d.content
        /\ d2.refetch = d.refetch /\ d2.reported = d.reported
        /\ d2.pending = [i \in DOMAIN d.pending \cup {place} |-> IF i = place THEN p ELSE d.pending[i]]
    BY <1>1 DEF DeviceType, Made, p
  <1>6. /\ DOMAIN d2.pending = DOMAIN d.pending \cup {place} /\ d2.pending[place] = p
        /\ \A i \in DOMAIN d.pending : d2.pending[i] = d.pending[i]
    BY <1>3, <1>5
  <1>. HIDE DEF d2, place, md2
  <1>7. DeviceType(d2)
    <2>1. d2.pending \in [DOMAIN d2.pending -> Pending]
      BY <1>1, <1>4, <1>5, <1>6 DEF DeviceType
    <2>. QED BY <1>1, <1>3, <1>4, <1>5, <1>6, <2>1 DEF DeviceType
  <1>8. \A f \in OwnEdit, q \in Queue : Asks(d, h, la, f, q) => f \in md /\ f # e
    BY DEF Inv, KnownEdits
  <1>9. \A f, q : Asks(d2, h, la, f, q) => Asks(d, h, la, f, q) \/ (f = e /\ q = d.queue)
    BY <1>4, <1>6 DEF Asks
  <1>10. Types(d2, s, h, la, ib, md2, fg)
    BY <1>1, <1>5, <1>7 DEF Inv, Types
  <1>11. KnownEdits(d2, s, h, la, ib, md2)
    BY <1>5, <1>9 DEF Inv, KnownEdits, md2
  <1>12. KnownQueues(d2, s, h, la, ib, md2)
    BY <1>5 DEF Inv, KnownQueues, md2
  <1>13. OneQueue(d2, h, la)
    BY <1>8, <1>9 DEF Inv, OneQueue
  <1>14. Places(d2, s, h, la, fg)
    <2>1. \A i \in DOMAIN s.done : s.done[i].edit # e
      BY <1>2 DEF Inv, KnownEdits
    <2>2. \A i \in DOMAIN d2.pending : Sent(d2.pending[i]) => i \in DOMAIN d.pending
              /\ d2.pending[i] = d.pending[i]
      BY <1>4, <1>6
    <2>. QED BY <1>5, <1>9, <2>1, <2>2 DEF Inv, Places
  <1>15. NotYet(d2, s, h, la)
    <2>1. Unanswered(d2) = Unanswered(d) \cup {place}
      BY <1>3, <1>4, <1>6 DEF Unanswered
    <2>2. \A r \in la : r.edit # e
      <3>1. \A r \in la : r.kind = "edit" => Asks(d, h, la, r.edit, r.queue)
        BY DEF Asks
      <3>. QED BY <1>1, <1>2, <1>8, <3>1 DEF LateType
    <2>3. Unsent(s, h, la, e)
      BY <1>2, <2>2 DEF Inv, KnownEdits, Unsent
    <2>4. \A i \in Unanswered(d) : i \in DOMAIN d.pending
      BY DEF Unanswered
    <2>. QED BY <1>4, <1>6, <2>1, <2>3, <2>4 DEF Inv, NotYet
  <1>16. ReadsAnswered(d2, h, fg)
    BY <1>4, <1>6 DEF Inv, ReadsAnswered
  <1>17. Once(d2, fg)
    <2>1. e \notin ToSet(d.content.edits)
      BY <1>2 DEF Inv, KnownEdits
    <2>2. Edits(d2.pending) = Edits(d.pending) \cup {e}
      BY <1>4, <1>6 DEF Edits
    <2>. QED BY <1>5, <2>1, <2>2 DEF Inv, Once
  <1>18. InStep(d2, s, h, ib, fg) /\ Overtakes(d2, s, h, la, ib)
    BY <1>5 DEF Inv, InStep, Overtakes
  <1>19. Sames(d2, h, fg)
    BY <1>4, <1>5, <1>6 DEF Inv, Sames, Known
  <1>20. Inv(d2, s, h, la, ib, md2, fg)
    BY <1>10, <1>11, <1>12, <1>13, <1>14, <1>15, <1>16, <1>17, <1>18, <1>19 DEF Inv
  <1>. QED BY <1>20 DEF d2, md2

(* What is sent next (#next, #drain).                                      *)
LEMMA EarliestIs ==
    ASSUME NEW d, DeviceType(d), Unanswered(d) # {}
    PROVE  \E i \in DOMAIN d.pending : Earliest(d) = d.pending[i]
  <1>1. Unanswered(d) \in SUBSET Nat /\ Unanswered(d) \subseteq DOMAIN d.pending
    BY DEF DeviceType, Unanswered
  <1>2. \E i \in Unanswered(d) : \A j \in Unanswered(d) : i <= j
    BY <1>1, LeastNat
  <1>3. Min(Unanswered(d)) \in Unanswered(d)
    BY <1>2 DEF Min
  <1>. QED BY <1>1, <1>3 DEF Earliest

\* What a request says.
LEMMA RequestIs ==
    ASSUME NEW kind, NEW q, NEW e, NEW known
    PROVE  LET r == Request(kind, q, e, known)
           IN  /\ DOMAIN r = {"kind", "queue", "edit", "known", "at", "stale", "answer"}
               /\ r.kind = kind /\ r.queue = q /\ r.edit = e /\ r.known = known
               /\ r.at = "sent" /\ r.stale \in BOOLEAN /\ ~r.stale /\ r.answer = NothingSent.answer
               /\ AnswerType(r.answer)
  <1>. DEFINE n == NothingSent
              r == Request(kind, q, e, known)
  <1>1. /\ DOMAIN n = {"kind", "queue", "edit", "known", "at", "stale", "answer"} /\ n.stale \in BOOLEAN
        /\ ~n.stale
        /\ AnswerType(n.answer)
    BY NothingSentIs DEF HttpType
  <1>2. r = [n EXCEPT !.kind = kind, !.queue = q, !.edit = e, !.known = known, !.at = "sent"]
    BY DEF Request
  <1>. HIDE DEF n, r
  <1>3. /\ DOMAIN r = DOMAIN n /\ r.kind = kind /\ r.queue = q /\ r.edit = e /\ r.known = known
        /\ r.at = "sent" /\ r.stale = n.stale /\ r.answer = n.answer
    BY <1>1, <1>2
  <1>. QED BY <1>1, <1>3 DEF n, r

After(d) == IF Work(d).kind = "fetch" THEN [d EXCEPT !.refetch = FALSE] ELSE d

\* What the device holds then.
LEMMA AfterIs ==
    ASSUME NEW d, DeviceType(d)
    PROVE  LET d2 == After(d)
           IN  /\ DeviceType(d2) /\ d2.queue = d.queue /\ d2.content = d.content /\ d2.pending = d.pending
               /\ d2.run = d.run /\ d2.held = d.held /\ d2.starting = d.starting
               /\ d2.reported = d.reported
               /\ Work(d).kind # "fetch" => d2 = d
  <1>. DEFINE h == Work(d)
              d2 == After(d)
  <1>1. CASE h.kind = "fetch"
    <2>. DEFINE r == [d EXCEPT !.refetch = FALSE]
    <2>1. /\ DOMAIN r = DOMAIN d /\ r.refetch = FALSE /\ r.reported = d.reported
          /\ r.restoring = d.restoring
          /\ r.queue = d.queue /\ r.content = d.content /\ r.pending = d.pending /\ r.count = d.count
          /\ r.run = d.run /\ r.held = d.held /\ r.starting = d.starting
      BY DEF DeviceType
    <2>2. d2 = r
      BY <1>1 DEF After
    <2>. HIDE DEF r
    <2>3. DeviceType(r)
      BY <2>1 DEF DeviceType
    <2>. QED BY <1>1, <2>1, <2>2, <2>3
  <1>2. CASE h.kind # "fetch"
    BY <1>2 DEF After
  <1>. QED BY <1>1, <1>2

\* What is sent, and when nothing is.
LEMMA WorkIs ==
    ASSUME NEW d, DeviceType(d)
    PROVE  LET h == Work(d)
           IN  /\ HttpType(h) /\ h.at \in {"idle", "sent"} /\ ~h.stale /\ h.answer = NothingSent.answer
               /\ h.kind = "start" => h.queue = d.starting /\ d.starting # None
               /\ h.kind = "edit" => \E i \in DOMAIN d.pending : h.edit = d.pending[i].edit
                      /\ h.queue = d.pending[i].queue
               /\ Reads(h) => Unanswered(d) = {}
               /\ h.kind = "fetch" => h.known = Known(d)
               /\ d.starting # None => h.kind = "start"
               /\ h.kind = "none" => h = NothingSent /\ ~d.refetch
               /\ h.kind # "none" => h.at = "sent"
  <1>1. SUFFICES ASSUME NEW h, h = Work(d)
        PROVE  /\ HttpType(h) /\ h.at \in {"idle", "sent"} /\ ~h.stale /\ h.answer = NothingSent.answer
               /\ h.kind = "start" => h.queue = d.starting /\ d.starting # None
               /\ h.kind = "edit" => \E i \in DOMAIN d.pending : h.edit = d.pending[i].edit
                      /\ h.queue = d.pending[i].queue
               /\ Reads(h) => Unanswered(d) = {}
               /\ h.kind = "fetch" => h.known = Known(d)
               /\ d.starting # None => h.kind = "start"
               /\ h.kind = "none" => h = NothingSent /\ ~d.refetch
               /\ h.kind # "none" => h.at = "sent"
    OBVIOUS
  <1>2. CASE d.starting # None
    <2>1. h = Request("start", d.starting, None, NoTag) /\ d.starting \in Own
      BY <1>1, <1>2 DEF Work, DeviceType
    <2>2. /\ DOMAIN h = {"kind", "queue", "edit", "known", "at", "stale", "answer"}
          /\ h.kind = "start" /\ h.queue = d.starting /\ h.edit = None
          /\ h.at = "sent" /\ h.stale \in BOOLEAN /\ ~h.stale /\ h.answer = NothingSent.answer
          /\ AnswerType(h.answer)
      BY <2>1, RequestIs
    <2>. QED BY <1>2, <2>1, <2>2 DEF HttpType, Has, Reads
  <1>3. CASE d.starting = None /\ Unanswered(d) # {}
    <2>1. h = Request("edit", Earliest(d).queue, Earliest(d).edit, NoTag)
      BY <1>1, <1>3 DEF Work
    <2>2. PICK i \in DOMAIN d.pending : Earliest(d) = d.pending[i]
      BY <1>3, EarliestIs
    <2>3. d.pending[i].edit \in OwnEdit /\ d.pending[i].queue \in Queue
      BY DEF DeviceType, Pending
    <2>4. /\ DOMAIN h = {"kind", "queue", "edit", "known", "at", "stale", "answer"}
          /\ h.kind = "edit" /\ h.queue = d.pending[i].queue /\ h.edit = d.pending[i].edit
          /\ h.at = "sent" /\ h.stale \in BOOLEAN /\ ~h.stale /\ h.answer = NothingSent.answer
          /\ AnswerType(h.answer)
      BY <2>1, <2>2, RequestIs
    <2>. QED BY <1>3, <2>3, <2>4 DEF HttpType, Has, Reads
  <1>4. CASE d.starting = None /\ Unanswered(d) = {} /\ d.restoring # None
    <2>1. h = Request("restore", d.restoring, None, NoTag) /\ d.restoring \in Queue
      BY <1>1, <1>4 DEF Work, DeviceType, OfQueue
    <2>2. /\ DOMAIN h = {"kind", "queue", "edit", "known", "at", "stale", "answer"}
          /\ h.kind = "restore" /\ h.queue = d.restoring /\ h.edit = None
          /\ h.at = "sent" /\ h.stale \in BOOLEAN /\ ~h.stale /\ h.answer = NothingSent.answer
          /\ AnswerType(h.answer)
      BY <2>1, RequestIs
    <2>. QED BY <1>4, <2>1, <2>2 DEF HttpType, Has, Reads
  <1>5. CASE d.starting = None /\ Unanswered(d) = {} /\ d.restoring = None /\ d.refetch
    <2>1. h = Request("fetch", None, None, Known(d))
      BY <1>1, <1>5 DEF Work
    <2>2. /\ DOMAIN h = {"kind", "queue", "edit", "known", "at", "stale", "answer"}
          /\ h.kind = "fetch" /\ h.known = Known(d)
          /\ h.at = "sent" /\ h.stale \in BOOLEAN /\ ~h.stale /\ h.answer = NothingSent.answer
          /\ AnswerType(h.answer)
      BY <2>1, RequestIs
    <2>. QED BY <1>5, <2>2 DEF HttpType, Has, Reads
  <1>6. CASE d.starting = None /\ Unanswered(d) = {} /\ d.restoring = None /\ ~d.refetch
    <2>1. h = NothingSent
      BY <1>1, <1>6 DEF Work
    <2>. QED BY <1>6, <2>1, NothingSentIs DEF Reads
  <1>. QED BY <1>2, <1>3, <1>4, <1>5, <1>6

\* The next request is sent.
LEMMA DrainMoves ==
    ASSUME NEW d, NEW s, NEW la, NEW ib, NEW md, NEW fg, Inv(d, s, NothingSent, la, ib, md, fg)
    PROVE  Inv(After(d), s, Work(d), la, ib, md, fg)
  <1>. DEFINE h == Work(d)
              d2 == After(d)
  <1>1. DeviceType(d) /\ d.held = <<>> /\ s.run \in Nat
    BY NothingSentIs DEF Inv, Types, ServerType
  <1>2. /\ DeviceType(d2) /\ d2.queue = d.queue /\ d2.content = d.content /\ d2.pending = d.pending
        /\ d2.run = d.run /\ d2.held = d.held /\ d2.starting = d.starting
    BY <1>1, AfterIs
  <1>3. /\ HttpType(h) /\ h.at \in {"idle", "sent"} /\ ~h.stale /\ h.answer = NothingSent.answer
        /\ h.kind = "start" => h.queue = d.starting /\ d.starting # None
        /\ h.kind = "edit" => \E i \in DOMAIN d.pending : h.edit = d.pending[i].edit
               /\ h.queue = d.pending[i].queue
        /\ Reads(h) => Unanswered(d) = {}
        /\ h.kind = "fetch" => h.known = Known(d)
    BY <1>1, WorkIs
  <1>. HIDE DEF h, d2
  <1>4. h.answer.run = 0 /\ ToSet(h.answer.content.edits) = {}
    BY <1>3, NothingSentIs
  <1>5. ~Installs(h) /\ \A status : ~Has(h, status)
    BY <1>3 DEF Installs, Has
  <1>6. \A e, q : Asks(d2, h, la, e, q) => Asks(d, NothingSent, la, e, q)
    BY <1>2, <1>3 DEF Asks
  <1>7. Types(d2, s, h, la, ib, md, fg)
    BY <1>1, <1>2, <1>3, <1>4 DEF Inv, Types
  <1>8. KnownEdits(d2, s, h, la, ib, md)
    BY <1>2, <1>4, <1>6 DEF Inv, KnownEdits
  <1>9. KnownQueues(d2, s, h, la, ib, md)
    BY <1>2, <1>3 DEF Inv, KnownQueues
  <1>10. OneQueue(d2, h, la) /\ Places(d2, s, h, la, fg)
    BY <1>2, <1>5, <1>6 DEF Inv, OneQueue, Places
  <1>11. NotYet(d2, s, h, la) /\ ReadsAnswered(d2, h, fg) /\ Once(d2, fg)
    BY <1>2, <1>3, <1>5 DEF Inv, NotYet, ReadsAnswered, Once, Unanswered
  <1>12. InStep(d2, s, h, ib, fg)
    <2>1. ~Installs(NothingSent)
      BY NothingSentIs DEF Installs
    <2>. QED BY <1>1, <1>2, <1>5, <2>1 DEF Inv, InStep
  <1>13. Overtakes(d2, s, h, la, ib) /\ Sames(d2, h, fg)
    BY <1>2, <1>3, <1>5 DEF Overtakes, Sames, Known
  <1>14. Inv(d2, s, h, la, ib, md, fg)
    BY <1>7, <1>8, <1>9, <1>10, <1>11, <1>12, <1>13 DEF Inv
  <1>. QED BY <1>14 DEF h, d2

\* An edit is answered with its place.
AfterAnswer(d, e, v) ==
    [d EXCEPT !.pending = [i \in DOMAIN d.pending |->
        IF d.pending[i].edit = e THEN [d.pending[i] EXCEPT !.version = v] ELSE d.pending[i]]]

\* The edit keeps its place.
LEMMA EditAnswerMoves ==
    ASSUME NEW d, NEW s, NEW h, NEW la, NEW ib, NEW md, NEW fg, Inv(d, s, h, la, ib, md, fg),
           h.kind = "edit", Has(h, "applied") \/ Has(h, "again")
    PROVE  Inv(AfterAnswer(d, h.edit, h.answer.version), s, h, la, ib, md, fg)
  <1>. DEFINE d2 == AfterAnswer(d, h.edit, h.answer.version)
              v == h.answer.version
  <1>1. DeviceType(d) /\ v \in Nat /\ h.edit \in OwnEdit /\ h.queue \in Queue /\ ~Reads(h) /\ h.kind # "fetch"
    BY DEF Inv, Types, HttpType, AnswerType, Reads
  <1>2. \A i \in DOMAIN d.pending : d.pending[i] \in Pending /\ d.pending[i].queue = d.queue
    BY <1>1 DEF DeviceType
  <1>3. /\ DOMAIN d2 = DOMAIN d /\ d2.held = d.held
        /\ d2.queue = d.queue /\ d2.run = d.run /\ d2.count = d.count /\ d2.starting = d.starting
        /\ d2.restoring = d.restoring /\ d2.content = d.content
        /\ d2.refetch = d.refetch /\ d2.reported = d.reported
        /\ d2.pending = [i \in DOMAIN d.pending |->
              IF d.pending[i].edit = h.edit THEN [d.pending[i] EXCEPT !.version = v] ELSE d.pending[i]]
    BY <1>1 DEF DeviceType, AfterAnswer
  <1>4. DOMAIN d2.pending = DOMAIN d.pending
    BY <1>3
  <1>5. \A i \in DOMAIN d.pending :
           /\ d2.pending[i] \in Pending /\ d2.pending[i].edit = d.pending[i].edit
           /\ d2.pending[i].queue = d.queue
           /\ IF d.pending[i].edit = h.edit THEN d2.pending[i].version = v ELSE d2.pending[i] = d.pending[i]
    BY <1>1, <1>2, <1>3 DEF Pending
  <1>. HIDE DEF d2, v
  <1>6. DeviceType(d2)
    <2>1. d2.pending \in [DOMAIN d2.pending -> Pending]
      BY <1>3, <1>4, <1>5
    <2>. QED BY <1>1, <1>3, <1>4, <1>5, <2>1 DEF DeviceType
  <1>7. \A e, q : Asks(d2, h, la, e, q) <=> Asks(d, h, la, e, q)
    BY <1>2, <1>4, <1>5 DEF Asks
  <1>8. Types(d2, s, h, la, ib, md, fg)
    BY <1>3, <1>6 DEF Inv, Types
  <1>9. KnownEdits(d2, s, h, la, ib, md) /\ KnownQueues(d2, s, h, la, ib, md) /\ OneQueue(d2, h, la)
    BY <1>3, <1>7 DEF Inv, KnownEdits, KnownQueues, OneQueue
  <1>10. Places(d2, s, h, la, fg)
    <2>1. ASSUME NEW i \in DOMAIN d.pending, d.pending[i].edit = h.edit
          PROVE  Placed(s, fg, d2.pending[i].edit, d2.queue, d2.pending[i].version)
      <3>1. Asks(d, h, la, h.edit, d.queue) /\ Asks(d, h, la, h.edit, h.queue) /\ d.queue \in Queue
        BY <1>2, <2>1 DEF Asks, Pending
      <3>2. d.queue = h.queue
        BY <1>1, <3>1 DEF Inv, OneQueue
      <3>. QED BY <1>3, <1>5, <2>1, <3>2 DEF Inv, Places, v
    <2>. QED BY <1>3, <1>4, <1>5, <1>7, <2>1 DEF Inv, Places
  <1>11. NotYet(d2, s, h, la) /\ ReadsAnswered(d2, h, fg) /\ Overtakes(d2, s, h, la, ib) /\ Sames(d2, h, fg)
    BY <1>1 DEF NotYet, ReadsAnswered, Overtakes, Sames
  <1>12. Once(d2, fg)
    <2>1. Edits(d2.pending) = Edits(d.pending)
      BY <1>4, <1>5 DEF Edits
    <2>. QED BY <1>3, <2>1 DEF Inv, Once
  <1>13. InStep(d2, s, h, ib, fg)
    BY <1>3 DEF Inv, InStep
  <1>14. Inv(d2, s, h, la, ib, md, fg)
    BY <1>8, <1>9, <1>10, <1>11, <1>12, <1>13 DEF Inv
  <1>. QED BY <1>14 DEF d2, v

\* A snapshot has come, and its lists are read.
LEMMA InstallingMoves ==
    ASSUME NEW d, NEW s, NEW h, NEW la, NEW ib, NEW md, NEW fg, Inv(d, s, h, la, ib, md, fg),
           Reads(h), Has(h, "ok"), h.at = "answered", h.kind = "fetch" => ~h.stale
    PROVE  Inv([d EXCEPT !.run = h.answer.run], s, [h EXCEPT !.at = "installing"], la, ib, md, fg)
  <1>. DEFINE d2 == [d EXCEPT !.run = h.answer.run]
              h2 == [h EXCEPT !.at = "installing"]
  <1>1. DeviceType(d) /\ HttpType(h) /\ ServerType(s) /\ h.answer.run \in Nat
    BY DEF Inv, Types, HttpType, AnswerType
  <1>2. /\ DOMAIN d2 = DOMAIN d /\ d2.held = d.held /\ d2.run = h.answer.run
        /\ d2.queue = d.queue /\ d2.count = d.count /\ d2.starting = d.starting
        /\ d2.restoring = d.restoring /\ d2.content = d.content /\ d2.pending = d.pending
        /\ d2.refetch = d.refetch /\ d2.reported = d.reported
    BY <1>1 DEF DeviceType
  <1>3. /\ DOMAIN h2 = DOMAIN h /\ h2.at = "installing" /\ h2.answer = h.answer
        /\ h2.kind = h.kind /\ h2.queue = h.queue /\ h2.edit = h.edit /\ h2.stale = h.stale
    BY <1>1 DEF HttpType
  <1>. HIDE DEF d2, h2
  <1>4. DeviceType(d2)
    BY <1>1, <1>2 DEF DeviceType
  <1>5. Reads(h2) /\ Has(h2, "ok") /\ h2.at # "sent" /\ ~Has(h2, "same") /\ h.kind # "edit"
    BY <1>3 DEF Reads, Has
  <1>6. HttpType(h2)
    BY <1>1, <1>3, <1>5 DEF HttpType, Reads, Has
  <1>7. \A e, q : Asks(d2, h2, la, e, q) <=> Asks(d, h, la, e, q)
    BY <1>2, <1>3 DEF Asks
  <1>8. Types(d2, s, h2, la, ib, md, fg)
    BY <1>2, <1>3, <1>4, <1>6 DEF Inv, Types
  <1>9. KnownEdits(d2, s, h2, la, ib, md) /\ KnownQueues(d2, s, h2, la, ib, md)
    BY <1>2, <1>3, <1>7 DEF Inv, KnownEdits, KnownQueues
  <1>10. OneQueue(d2, h2, la) /\ Places(d2, s, h2, la, fg)
    BY <1>2, <1>3, <1>5, <1>7 DEF Inv, OneQueue, Places
  <1>11. NotYet(d2, s, h2, la) /\ ReadsAnswered(d2, h2, fg) /\ Once(d2, fg)
    BY <1>2, <1>3 DEF Inv, NotYet, ReadsAnswered, Once, Unanswered, Unsent
  <1>12. InStep(d2, s, h2, ib, fg)
    <2>1. ~Installs(h2) => d.content.edits = <<>>
      BY <1>3 DEF Inv, Overtakes, Installs
    <2>2. \A q : Prefix(<<>>, EditsIn(s, q))
      BY <1>1, EditsInTyped DEF Prefix
    <2>3. ~Installs(h2) => Behind(s, fg, d2.run, d2.queue, d2.content.edits)
      BY <1>2, <2>1, <2>2 DEF Behind
    <2>. QED BY <1>2, <1>3, <2>3 DEF Inv, InStep
  <1>13. Overtakes(d2, s, h2, la, ib) /\ Sames(d2, h2, fg)
    BY <1>2, <1>3, <1>5 DEF Inv, Overtakes, Sames
  <1>14. Inv(d2, s, h2, la, ib, md, fg)
    BY <1>8, <1>9, <1>10, <1>11, <1>12, <1>13 DEF Inv
  <1>. QED BY <1>14 DEF d2, h2

\* It is installed, with the pending edits that it may be without.
LEMMA InstalledMoves ==
    ASSUME NEW d, NEW s, NEW h, NEW la, NEW ib, NEW md, NEW fg, Inv(d, s, h, la, ib, md, fg), Installs(h),
           NEW d2, DeviceType(d2), d2.queue = h.answer.queue, d2.content = h.answer.content,
           d2.run = d.run, d2.held = <<>>, d2.starting \in {d.starting, None},
           \A i \in DOMAIN d2.pending :
              /\ i \in DOMAIN d.pending /\ d2.pending[i] = d.pending[i]
              /\ d2.pending[i].queue = h.answer.queue
              /\ Sent(d2.pending[i]) => d2.pending[i].version > Version(h.answer.content)
    PROVE  Inv(d2, s, NothingSent, la, ib, md, fg)
  <1>. DEFINE h2 == NothingSent
  <1>1. /\ HttpType(h2) /\ h2.kind = "none" /\ h2.at = "idle"
        /\ ~h2.stale /\ h2.answer.run = 0 /\ ToSet(h2.answer.content.edits) = {}
    BY NothingSentIs
  <1>. HIDE DEF h2
  <1>2. ~Reads(h2) /\ ~Installs(h2)
    BY <1>1 DEF Reads, Installs
  <1>3. Reads(h) /\ Has(h, "ok") /\ d.run = h.answer.run /\ s.run \in Nat /\ DeviceType(d)
    BY DEF Inv, Types, ServerType, HttpType, InStep, Installs, Has
  <1>4. \A e, q : Asks(d2, h2, la, e, q) => Asks(d, h, la, e, q)
    BY <1>1 DEF Asks
  <1>5. Types(d2, s, h2, la, ib, md, fg)
    BY <1>1, <1>3 DEF Inv, Types
  <1>6. KnownEdits(d2, s, h2, la, ib, md) /\ KnownQueues(d2, s, h2, la, ib, md)
    BY <1>1, <1>4 DEF Inv, KnownEdits, KnownQueues
  <1>7. OneQueue(d2, h2, la)
    BY <1>4 DEF Inv, OneQueue
  <1>8. Places(d2, s, h2, la, fg)
    <2>1. \A i \in DOMAIN d2.pending : d2.queue = d.queue
      BY <1>3 DEF DeviceType
    <2>. QED BY <1>1, <1>4, <2>1 DEF Inv, Places
  <1>9. Once(d2, fg)
    <2>1. ASSUME NEW i \in DOMAIN d2.pending, d2.pending[i].edit \in ToSet(d2.content.edits)
          PROVE  d2.pending[i].edit \in fg.edits
      <3>1. CASE Sent(d2.pending[i])
        <4>1. HasIt(d.pending[i], h.answer.content.edits, fg)
          BY <1>3, <3>1 DEF Inv, ReadsAnswered
        <4>2. d.pending[i].version \in Nat /\ Len(h.answer.content.edits) \in Nat
          BY <1>3 DEF Inv, Types, HttpType, AnswerType, Contents, DeviceType, Pending
        <4>. QED BY <3>1, <4>1, <4>2 DEF HasIt, Applied, Version
      <3>2. CASE ~Sent(d2.pending[i])
        BY <1>3, <2>1, <3>2 DEF Inv, NotYet, Unsent, Unanswered
      <3>. QED BY <3>1, <3>2
    <2>. QED BY <2>1 DEF Once, Edits
  <1>10. NotYet(d2, s, h2, la) /\ ReadsAnswered(d2, h2, fg) /\ Overtakes(d2, s, h2, la, ib)
             /\ Sames(d2, h2, fg)
    BY <1>1, <1>2 DEF NotYet, ReadsAnswered, Overtakes, Sames
  <1>11. InStep(d2, s, h2, ib, fg)
    BY <1>1, <1>2, <1>3 DEF Inv, InStep
  <1>12. Inv(d2, s, h2, la, ib, md, fg)
    BY <1>5, <1>6, <1>7, <1>8, <1>9, <1>10, <1>11 DEF Inv
  <1>. QED BY <1>12 DEF h2

\* There is no queue.
LEMMA ClearMoves ==
    ASSUME NEW d, NEW s, NEW h, NEW la, NEW ib, NEW md, NEW fg, Inv(d, s, h, la, ib, md, fg),
           NEW d2, DeviceType(d2), d2.content.edits = <<>>, DOMAIN d2.pending = {},
           d2.run = d.run, d2.held = <<>>, d2.starting \in {d.starting, None}
    PROVE  Inv(d2, s, NothingSent, la, ib, md, fg)
  <1>. DEFINE h2 == NothingSent
  <1>1. /\ HttpType(h2) /\ h2.kind = "none" /\ h2.at = "idle"
        /\ ~h2.stale /\ h2.answer.run = 0 /\ ToSet(h2.answer.content.edits) = {}
    BY NothingSentIs
  <1>. HIDE DEF h2
  <1>2. ~Reads(h2) /\ ~Installs(h2) /\ s.run \in Nat /\ ServerType(s)
    BY <1>1 DEF Inv, Types, ServerType, Reads, Installs
  <1>3. \A e, q : Asks(d2, h2, la, e, q) => Asks(d, h, la, e, q)
    BY <1>1 DEF Asks
  <1>4. ToSet(d2.content.edits) = {}
    <2>1. DOMAIN <<>> = {}
      OBVIOUS
    <2>. QED BY <2>1 DEF ToSet
  <1>5. Types(d2, s, h2, la, ib, md, fg)
    BY <1>1, <1>2 DEF Inv, Types
  <1>6. KnownEdits(d2, s, h2, la, ib, md) /\ KnownQueues(d2, s, h2, la, ib, md)
    BY <1>1, <1>3, <1>4 DEF Inv, KnownEdits, KnownQueues
  <1>7. OneQueue(d2, h2, la) /\ Places(d2, s, h2, la, fg)
    BY <1>1, <1>3 DEF Inv, OneQueue, Places
  <1>8. Once(d2, fg)
    BY <1>4 DEF Once
  <1>9. NotYet(d2, s, h2, la) /\ ReadsAnswered(d2, h2, fg) /\ Overtakes(d2, s, h2, la, ib)
            /\ Sames(d2, h2, fg)
    BY <1>1, <1>2 DEF NotYet, ReadsAnswered, Overtakes, Sames
  <1>10. InStep(d2, s, h2, ib, fg)
    <2>1. Behind(s, fg, d2.run, d2.queue, d2.content.edits)
      BY <1>2, EditsInTyped DEF Behind, Prefix
    <2>. QED BY <1>1, <1>2, <2>1 DEF Inv, InStep
  <1>11. Inv(d2, s, h2, la, ib, md, fg)
    BY <1>5, <1>6, <1>7, <1>8, <1>9, <1>10 DEF Inv
  <1>. QED BY <1>11 DEF h2

\* The user starts a queue, over whatever is read meanwhile.
LEMMA StartedMoves ==
    ASSUME NEW d, NEW s, NEW h, NEW la, NEW ib, NEW md, NEW fg, Inv(d, s, h, la, ib, md, fg),
           NEW q \in Own, q \notin md, NEW d2, DeviceType(d2), d2.queue = q, d2.content.edits = <<>>,
           DOMAIN d2.pending = {}, d2.run = 0, d2.held = d.held, d2.starting = q,
           NEW h2, HttpType(h2), h2.kind = h.kind, h2.at = h.at, h2.queue = h.queue, h2.edit = h.edit,
           h2.answer = h.answer, h2.stale \/ h.kind = "none"
    PROVE  Inv(d2, s, h2, la, ib, md \cup {q}, fg)
  <1>. DEFINE md2 == md \cup {q}
  <1>1. s.run \in Nat \ {0} /\ DeviceType(d) /\ HttpType(h) /\ md2 \subseteq Edit \cup Queue /\ q \in Queue
        /\ q \notin {First, Older} /\ q # None
    BY IdsAssumption DEF Inv, Types, ServerType, IdsAssumption, Queue
  <1>. HIDE DEF md2
  <1>2. md \subseteq md2 /\ q \in md2
    BY DEF md2
  <1>3. \A e, p : Asks(d2, h2, la, e, p) => Asks(d, h, la, e, p)
    BY DEF Asks
  <1>4. ToSet(d2.content.edits) = {}
    <2>1. DOMAIN <<>> = {}
      OBVIOUS
    <2>. QED BY <2>1 DEF ToSet
  <1>5. ~Installs(h2) /\ ~(h2.kind = "fetch" /\ ~h2.stale)
    BY <1>1 DEF HttpType, Installs, Reads
  <1>6. Types(d2, s, h2, la, ib, md2, fg)
    BY <1>1 DEF Inv, Types
  <1>7. KnownEdits(d2, s, h2, la, ib, md2)
    BY <1>2, <1>3, <1>4 DEF Inv, KnownEdits
  <1>8. KnownQueues(d2, s, h2, la, ib, md2)
    BY <1>2 DEF Inv, KnownQueues
  <1>9. OneQueue(d2, h2, la) /\ Places(d2, s, h2, la, fg)
    BY <1>3 DEF Inv, OneQueue, Places, Has
  <1>10. Once(d2, fg)
    BY <1>4 DEF Once
  <1>11. NotYet(d2, s, h2, la) /\ ReadsAnswered(d2, h2, fg) /\ Sames(d2, h2, fg)
    BY <1>5 DEF NotYet, ReadsAnswered, Sames, Unanswered
  <1>12. InStep(d2, s, h2, ib, fg)
    BY <1>1, <1>5 DEF Inv, InStep, Behind, Reads, Has
  <1>13. Overtakes(d2, s, h2, la, ib)
    BY <1>1 DEF Inv, KnownQueues, Overtakes
  <1>14. Inv(d2, s, h2, la, ib, md2, fg)
    BY <1>6, <1>7, <1>8, <1>9, <1>10, <1>11, <1>12, <1>13 DEF Inv
  <1>. QED BY <1>14 DEF md2

-----------------------------------------------------------------------------
(* The steps of the server, and of those who ask of it.                    *)
LEMMA ToDeviceMoves ==
    ASSUME NEW d, NEW s, NEW h, NEW la, NEW md, NEW fg, Inv(d, s, h, la, inbox, md, fg),
           NEW m \in Message, Fine(m, s, md, fg), ToDevice(m)
    PROVE  Inv(d, s, h, la, inbox', md, fg)
  BY Appended DEF ToDevice

\* The server applies an edit and tells the device.
LEMMA ApplyMoves ==
    ASSUME NEW d, NEW h, NEW la, NEW md, NEW fg, Inv(d, server, h, la, inbox, md, fg),
           NEW e \in Edit, NEW md2, md \subseteq md2, md2 \subseteq Edit \cup Queue, e \in md2 \cup {Past},
           server.active # None, \A q \in Queue : Asks(d, h, la, e, q) => q = server.active,
           Reads(h) => \A i \in Unanswered(d) : d.pending[i].edit # e,
           Apply(e)
    PROVE  /\ Inv(d, server', h, la, inbox', md2, fg)
           /\ Placed(server', fg, e, server.active, Version(server.queues[server.active]) + 1)
  <1>. DEFINE s2 == AfterEdit(server, e)
              v == Len(server.queues[server.active].edits) + 1
              m == Edited(server.active, v, e)
  <1>1. server' = s2
    BY DEF Apply, AfterEdit
  <1>2. /\ Inv(d, s2, h, la, inbox, md2, fg)
        /\ s2.active = server.active /\ DOMAIN s2.queues = DOMAIN server.queues
        /\ Applied(EditsIn(s2, server.active), e, v)
    BY EditMoves
  <1>. HIDE DEF s2
  <1>3. /\ server.active \in DOMAIN server.queues /\ server.active \in Queue
        /\ server.queues[server.active].edits \in Seq(Edit)
    BY DEF Inv, Types, ServerType, IsQueues, Contents
  <1>4. Len(Append(server.queues[server.active].edits, e)) = v /\ v \in Nat
    BY <1>3
  <1>5. ToDevice(m)
    BY <1>4 DEF Apply
  <1>6. /\ m \in Message /\ m.edit = e /\ m.queue = server.active /\ m.version = v
    BY <1>3, <1>4 DEF Edited, Message, OfQueue
  <1>7. Fine(m, s2, md2, fg)
    BY <1>2, <1>3, <1>6 DEF Fine, IsSo
  <1>. HIDE DEF m
  <1>8. Inv(d, s2, h, la, inbox', md2, fg)
    BY <1>2, <1>5, <1>6, <1>7, ToDeviceMoves
  <1>. QED BY <1>1, <1>2, <1>8 DEF Placed, Version

\* A start is one with some repeat mode and some rows.
LEMMA StartIs ==
    ASSUME NEW q, NEW telling, Start(q, telling), ServerType(server)
    PROVE  \E repeat \in BOOLEAN, rows \in {"viewed", "resolved"} :
              server' = AfterStart(server, q, repeat, rows, telling)
  <1>. DEFINE repeat == server.active # None /\ Repeating(server.queues[server.active])
  <1>1. PICK rows \in {"viewed", "resolved"} :
           server' = [server EXCEPT !.active = q, !.telling = telling, !.queues =
                      [p \in DOMAIN server.queues \cup {q} |-> IF p = q THEN Fresh(repeat, rows)
                          ELSE server.queues[p]]]
    BY DEF Start, ServerType
  <1>2. repeat \in BOOLEAN
    OBVIOUS
  <1>. HIDE DEF repeat
  <1>. QED BY <1>1, <1>2 DEF AfterStart

\* The server applies the edit, or says why not (editQueue).
LEMMA ServeEditKeeps ==
    ASSUME QueueInv, ServeEdit
    PROVE  QueueInv'
  <1>. DEFINE answer == EditAnswer(http.queue, http.edit)
              e == http.edit
              q == http.queue
  <1>1. /\ http.kind = "edit" /\ http.at = "sent"
        /\ http' = [http EXCEPT !.at = "answered", !.answer = answer]
        /\ UNCHANGED <<device, late, made, forgotten>>
    BY DEF ServeEdit, AtServer, Answer, Elsewhere
  <1>2. /\ e \in OwnEdit /\ e \in Edit /\ q \in Queue /\ e \in made /\ ~Reads(http)
        /\ made \subseteq Edit \cup Queue /\ Asks(device, http, late, e, q)
    <2>1. Asks(device, http, late, e, q)
      BY <1>1 DEF Asks
    <2>. QED BY <1>1, <2>1 DEF QueueInv, Inv, Types, HttpType, KnownEdits, Reads, Edit
  <1>3. Inv(device, server, http, late, inbox, made, forgotten) /\ server.run \in Nat /\ ServerType(server)
    BY DEF QueueInv, Inv, Types, ServerType
  <1>4. ASSUME NEW status \in {"missing", "changed", "refused"}, answer = Answered(status)
        PROVE  Inv(device, server', http', late, inbox', made, forgotten)
    <2>1. answer.status # "applied"
      BY <1>4, AnsweredIs
    <2>2. UNCHANGED <<server, inbox>>
      BY <2>1 DEF ServeEdit
    <2>3. Inv(device, server, [http EXCEPT !.at = "answered", !.answer = Answered(status)], late, inbox,
              made, forgotten)
      BY <1>1, <1>3, PlainAnswer
    <2>. QED BY <1>1, <1>4, <2>2, <2>3
  <1>5. CASE server.active = q /\ server.active # None /\ Done(e) # {}
    <2>1. PICK i \in Done(e) : i = CHOOSE j \in Done(e) : TRUE
      BY <1>5
    <2>2. answer = [Answered("again") EXCEPT !.version = server.done[i].version]
      BY <1>5, <2>1 DEF EditAnswer
    <2>3. answer.status # "applied"
      BY <2>2, AnsweredIs
    <2>4. UNCHANGED <<server, inbox>>
      BY <2>3 DEF ServeEdit
    <2>5. i \in DOMAIN server.done /\ server.done[i].edit = e
      BY DEF Done
    <2>6. server.done[i].version \in Nat
      <3>. DEFINE E == [edit : Edit, version : Nat]
      <3>1. server.done \in Seq(E)
        BY <1>3 DEF ServerType
      <3>. HIDE DEF E
      <3>2. server.done[i] \in E
        BY <2>5, <3>1
      <3>. QED BY <3>2 DEF E
    <2>7. Placed(server, forgotten, e, q, server.done[i].version)
      BY <1>2, <1>3, <2>5 DEF Inv, Places
    <2>8. Inv(device, server, [http EXCEPT !.at = "answered",
                  !.answer = [Answered("again") EXCEPT !.version = server.done[i].version]],
              late, inbox, made, forgotten)
      BY <1>1, <1>3, <2>6, <2>7, VersionAnswer
    <2>9. Inv(device, server', http', late, inbox', made, forgotten)
      BY <1>1, <2>2, <2>4, <2>8
    <2>. QED BY <1>1, <2>9 DEF QueueInv
  <1>6. CASE server.active = q /\ server.active # None /\ Done(e) = {} /\ Accepts(server.queues[q].edits, e)
    <2>. DEFINE v == Version(server.queues[q]) + 1
    <2>1. answer = [Answered("applied") EXCEPT !.version = v]
      BY <1>6 DEF EditAnswer
    <2>2. answer.status = "applied"
      BY <2>1, AnsweredIs
    <2>3. Apply(e)
      BY <2>2 DEF ServeEdit
    <2>4. \A p \in Queue : Asks(device, http, late, e, p) => p = server.active
      BY <1>2, <1>3, <1>6 DEF Inv, OneQueue
    <2>5. /\ Inv(device, server', http, late, inbox', made, forgotten)
          /\ Placed(server', forgotten, e, q, v)
      BY <1>2, <1>3, <1>6, <2>3, <2>4, ApplyMoves
    <2>6. v \in Nat
      BY <1>3, <1>6 DEF ServerType, IsQueues, Contents, Version
    <2>. HIDE DEF v
    <2>7. Inv(device, server', [http EXCEPT !.at = "answered",
              !.answer = [Answered("applied") EXCEPT !.version = v]],
              late, inbox', made, forgotten)
      BY <1>1, <2>5, <2>6, VersionAnswer
    <2>8. Inv(device, server', http', late, inbox', made, forgotten)
      BY <1>1, <2>1, <2>7
    <2>. QED BY <1>1, <2>8 DEF QueueInv
  <1>7. CASE \E status \in {"missing", "changed", "refused"} : answer = Answered(status)
    <2>1. Inv(device, server', http', late, inbox', made, forgotten)
      BY <1>4, <1>7
    <2>. QED BY <1>1, <2>1 DEF QueueInv
  <1>. QED BY <1>5, <1>6, <1>7 DEF EditAnswer


\* A start is written once, and a queue there already is answered as it was (start_in).
LEMMA ServeStartKeeps ==
    ASSUME QueueInv, ServeStart \/ RefuseStart
    PROVE  QueueInv'
  <1>1. /\ http.kind = "start" /\ http.at = "sent" /\ UNCHANGED <<device, late, inbox, made, forgotten>>
    BY DEF ServeStart, RefuseStart, AtServer, Elsewhere
  <1>2. Inv(device, server, http, late, inbox, made, forgotten) /\ ServerType(server)
    BY DEF QueueInv, Inv, Types
  <1>3. /\ http.queue \in Own /\ http.queue \in Queue /\ http.queue \in made /\ ~Reads(http)
        /\ made \subseteq Edit \cup Queue
    BY <1>1, <1>2 DEF Inv, Types, HttpType, KnownQueues, Reads, Queue
  <1>4. ASSUME NEW status \in {"ok", "refused"}, Answer(Answered(status)), UNCHANGED server
        PROVE  QueueInv'
    <2>1. Inv(device, server, [http EXCEPT !.at = "answered", !.answer = Answered(status)], late, inbox,
              made, forgotten)
      BY <1>1, <1>2, PlainAnswer
    <2>2. Inv(device, server', http', late, inbox, made, forgotten)
      BY <1>4, <2>1 DEF Answer
    <2>. QED BY <1>1, <2>2 DEF QueueInv
  <1>5. CASE ServeStart /\ http.queue \notin DOMAIN server.queues
    <2>1. http' = [http EXCEPT !.at = "applied"] /\ Start(http.queue, server.telling)
      BY <1>5 DEF ServeStart
    <2>2. PICK repeat \in BOOLEAN, rows \in {"viewed", "resolved"} :
             server' = AfterStart(server, http.queue, repeat, rows, server.telling)
      BY <1>2, <2>1, StartIs
    <2>3. Inv(device, server', http, late, inbox, made, forgotten)
      BY <1>2, <1>3, <1>5, <2>2, StartMoves
    <2>4. server'.active # None
      <3>1. http.queue # None
        BY <1>3, IdsAssumption DEF IdsAssumption
      <3>. QED BY <1>2, <2>2, <3>1 DEF AfterStart, ServerType
    <2>5. Inv(device, server', http', late, inbox, made, forgotten)
      BY <1>1, <2>1, <2>3, <2>4, Written
    <2>. QED BY <1>1, <2>5 DEF QueueInv
  <1>6. CASE ServeStart /\ http.queue \in DOMAIN server.queues
    BY <1>4, <1>6 DEF ServeStart
  <1>7. CASE RefuseStart
    BY <1>4, <1>7 DEF RefuseStart
  <1>. QED BY <1>5, <1>6, <1>7

\* A restore is written (restore_in).
LEMMA ServeRestoreKeeps ==
    ASSUME QueueInv, ServeRestore
    PROVE  QueueInv'
  <1>1. /\ http.kind = "restore" /\ http.at = "sent" /\ UNCHANGED <<device, late, inbox, made, forgotten>>
    BY DEF ServeRestore, AtServer, Elsewhere
  <1>2. Inv(device, server, http, late, inbox, made, forgotten) /\ ServerType(server)
    BY DEF QueueInv, Inv, Types
  <1>3. CASE CanRestore(http.queue)
    <2>1. http' = [http EXCEPT !.at = "applied"] /\ server' = AfterRestore(server, http.queue, server.telling)
      BY <1>3 DEF ServeRestore, Restore, AfterRestore
    <2>2. http.queue \in DOMAIN server.queues
      BY <1>3 DEF CanRestore
    <2>3. Inv(device, server', http, late, inbox, made, forgotten)
      BY <1>2, <2>1, <2>2, RestoreMoves
    <2>4. server'.active # None
      <3>1. http.queue # None
        BY <1>2, <2>2, IdsAssumption DEF ServerType, IsQueues, IdsAssumption
      <3>. QED BY <1>2, <2>1, <3>1 DEF AfterRestore, ServerType
    <2>5. Inv(device, server', http', late, inbox, made, forgotten)
      BY <1>1, <2>1, <2>3, <2>4, Written
    <2>. QED BY <1>1, <2>5 DEF QueueInv
  <1>4. CASE ~CanRestore(http.queue)
    <2>1. http' = [http EXCEPT !.at = "answered", !.answer = Answered("refused")] /\ UNCHANGED server
      BY <1>4 DEF ServeRestore, Answer
    <2>2. Inv(device, server', http', late, inbox, made, forgotten)
      BY <1>1, <1>2, <2>1, PlainAnswer
    <2>. QED BY <1>1, <2>2 DEF QueueInv
  <1>. QED BY <1>3, <1>4

\* That another queue is active is told of first, and answered then.
ReplacedFine == \A q \in OfQueue : \A s, md, fg : Replaced(q) \in Message /\ Fine(Replaced(q), s, md, fg)
\* Such a message says of no edit anything that is not so.
LEMMA ReplacedIsFine == ReplacedFine
  <1>1. ASSUME NEW q \in OfQueue, NEW s, NEW md, NEW fg
        PROVE  Replaced(q) \in Message /\ Fine(Replaced(q), s, md, fg)
    <2>1. Replaced(q) \in Message /\ Replaced(q).type = "queueReplaced" /\ Replaced(q).edit = None
      BY DEF Replaced, Message
    <2>. QED BY <2>1 DEF Fine
  <1>. QED BY <1>1 DEF ReplacedFine

\* A snapshot is of the active queue (snapshot.rs).
LEMMA SnapshotIs ==
    /\ DOMAIN Snapshot = {"status", "version", "run", "queue", "content"}
    /\ Snapshot.status = "ok" /\ Snapshot.version = 0 /\ Snapshot.run = server.run
    /\ Snapshot.queue = server.active /\ Snapshot.content = server.queues[server.active]
  BY DEF Snapshot

\* The handler tells and answers.
LEMMA ToldKeeps ==
    ASSUME QueueInv, Told
    PROVE  QueueInv'
  <1>1. /\ http.at = "applied" /\ UNCHANGED <<device, server, late, made, forgotten>>
        /\ ToDevice(Replaced(http.queue))
        /\ Answer(IF http.kind = "restore" THEN Snapshot ELSE Answered("ok"))
    BY DEF Told, Elsewhere
  <1>2. Inv(device, server, http, late, inbox, made, forgotten)
    BY DEF QueueInv
  <1>3. http.kind \in {"start", "restore"} /\ http.queue \in OfQueue /\ server.active # None
    BY <1>1, <1>2 DEF Inv, Types, HttpType, OfQueue, Queue
  <1>4. Inv(device, server, http, late, inbox', made, forgotten)
    <2>1. Replaced(http.queue) \in Message /\ Fine(Replaced(http.queue), server, made, forgotten)
      BY <1>3, ReplacedIsFine DEF ReplacedFine
    <2>. QED BY <1>1, <1>2, <2>1, ToDeviceMoves
  <1>5. Inv(device, server, http', late, inbox', made, forgotten)
    <2>1. CASE http.kind = "restore"
      <3>1. Inv(device, server, [http EXCEPT !.at = "answered", !.answer = Snapshot], late, inbox', made,
                forgotten)
        BY <1>1, <1>3, <1>4, <2>1, SnapshotIs, SnapshotAnswer
      <3>. QED BY <1>1, <2>1, <3>1 DEF Answer
    <2>2. CASE http.kind = "start"
      BY <1>1, <1>4, <2>2, PlainAnswer DEF Answer
    <2>. QED BY <1>3, <2>1, <2>2
  <1>. QED BY <1>1, <1>5 DEF QueueInv

\* A fetch is answered.
LEMMA ServeFetchKeeps ==
    ASSUME QueueInv, ServeFetch
    PROVE  QueueInv'
  <1>1. /\ http.kind = "fetch" /\ http.at = "sent"
        /\ UNCHANGED <<device, server, late, inbox, made, forgotten>>
        /\ http' = [http EXCEPT !.at = "answered", !.answer = FetchAnswer(http.known)]
    BY DEF ServeFetch, AtServer, Answer, Elsewhere
  <1>2. Inv(device, server, http, late, inbox, made, forgotten)
    BY DEF QueueInv
  <1>3. Inv(device, server, http', late, inbox, made, forgotten)
    <2>1. CASE server.active = None
      <3>1. FetchAnswer(http.known) = Answered("missing")
        BY <2>1 DEF FetchAnswer
      <3>2. Inv(device, server, [http EXCEPT !.at = "answered", !.answer = Answered("missing")], late, inbox,
                made, forgotten)
        BY <1>1, <1>2, PlainAnswer
      <3>. QED BY <1>1, <3>1, <3>2
    <2>2. CASE server.active # None /\ http.known = [run |-> server.run, queue |-> server.active,
                                                     version |-> Version(server.queues[server.active])]
      <3>1. FetchAnswer(http.known) = [Answered("same") EXCEPT !.run = server.run]
        BY <2>2 DEF FetchAnswer
      <3>2. Inv(device, server, [http EXCEPT !.at = "answered",
                !.answer = [Answered("same") EXCEPT !.run = server.run]],
                late, inbox, made, forgotten)
        BY <1>1, <1>2, <2>2, SameAnswer
      <3>. QED BY <1>1, <3>1, <3>2
    <2>3. CASE server.active # None /\ http.known # [run |-> server.run, queue |-> server.active,
                                                     version |-> Version(server.queues[server.active])]
      <3>1. FetchAnswer(http.known) = Snapshot
        BY <2>3 DEF FetchAnswer
      <3>2. (http.at = "sent" /\ http.kind = "fetch") \/ (http.at = "applied" /\ http.kind = "restore")
        BY <1>1
      <3>3. server.active # None
        BY <2>3
      <3>4. Inv(device, server, [http EXCEPT !.at = "answered", !.answer = Snapshot], late, inbox, made,
                forgotten)
        BY <1>2, <3>2, <3>3, SnapshotIs, SnapshotAnswer
      <3>. QED BY <1>1, <3>1, <3>4
    <2>. QED BY <2>1, <2>2, <2>3
  <1>. QED BY <1>1, <1>3 DEF QueueInv

\* The request fails, before or after the server has it.
LEMMA LoseKeeps ==
    ASSUME QueueInv, Lose
    PROVE  QueueInv'
  <1>1. /\ http.at \in {"sent", "applied", "answered"}
        /\ http' = [http EXCEPT !.at = "answered", !.answer = Answered("lost")]
        /\ UNCHANGED <<device, inbox, made, forgotten>>
    BY DEF Lose, Answer
  <1>2. Inv(device, server, http, late, inbox, made, forgotten)
    BY DEF QueueInv
  <1>3. Inv(device, server', http, late', inbox, made, forgotten)
    <2>1. CASE UNCHANGED <<server, late>>
      BY <1>2, <2>1
    <2>2. CASE /\ http.at = "sent" /\ http.kind # "fetch" /\ UNCHANGED server
               /\ late' = late \cup {[kind |-> http.kind, queue |-> http.queue, edit |-> http.edit]}
      <3>1. http.kind \in {"start", "edit", "restore"}
        BY <1>2, <2>2 DEF Inv, Types, HttpType
      <3>2. \A r \in late' : r \in late \/ /\ http.kind \in {"start", "edit", "restore"}
                                           /\ r.kind = http.kind /\ r.queue = http.queue /\ r.edit = http.edit
        BY <2>2, <3>1
      <3>. QED BY <1>2, <2>2, <3>2, LateMoves
    <2>3. CASE server' = [server EXCEPT !.telling = @ \cup {http.queue}] /\ UNCHANGED late
      <3>1. server' = [server EXCEPT !.telling = server.telling \cup {http.queue}]
        BY <2>3
      <3>. QED BY <1>2, <2>3, <3>1, TellingMoves
    <2>. QED BY <2>1, <2>2, <2>3 DEF Lose
  <1>4. Inv(device, server', http', late', inbox, made, forgotten)
    BY <1>1, <1>3, PlainAnswer
  <1>. QED BY <1>1, <1>4 DEF QueueInv

\* An edit is applied to the active queue alone (editQueue).
LEMMA AppliedIs ==
    ASSUME NEW q, NEW e, EditAnswer(q, e).status = "applied"
    PROVE  server.active = q /\ server.active # None
  <1>1. \A status \in {"missing", "changed"} : Answered(status).status = status
    BY AnsweredIs
  <1>. QED BY <1>1 DEF EditAnswer

\* A request the device gave up is served like any other.
LEMMA ArriveKeeps ==
    ASSUME QueueInv, NEW r \in late, Arrive(r)
    PROVE  QueueInv'
  <1>1. late' = late \ {r} /\ UNCHANGED <<device, http, made, forgotten>>
    BY DEF Arrive
  <1>2. Inv(device, server, http, late, inbox, made, forgotten) /\ ServerType(server)
    BY DEF QueueInv, Inv, Types
  <1>3. made \subseteq Edit \cup Queue
    BY <1>2 DEF Inv, Types
  <1>4. Inv(device, server', http, late, inbox', made, forgotten)
    <2>1. CASE r.kind = "edit" /\ EditAnswer(r.queue, r.edit).status = "applied"
      <3>1. Apply(r.edit)
        BY <2>1 DEF Arrive
      <3>2. server.active = r.queue /\ server.active # None
        BY <2>1, AppliedIs
      <3>3. Asks(device, http, late, r.edit, r.queue)
        BY <2>1 DEF Asks
      <3>4. r.edit \in OwnEdit /\ r.edit \in Edit /\ r.queue \in Queue
        BY <1>2, <2>1 DEF Inv, Types, LateType, Edit
      <3>5. r.edit \in made
        BY <1>2, <3>3, <3>4 DEF Inv, KnownEdits
      <3>6. \A p \in Queue : Asks(device, http, late, r.edit, p) => p = server.active
        BY <1>2, <3>2, <3>3, <3>4 DEF Inv, OneQueue
      <3>7. Reads(http) => \A i \in Unanswered(device) : device.pending[i].edit # r.edit
        BY <1>2 DEF Inv, NotYet, Unsent
      <3>. QED BY <1>2, <1>3, <3>1, <3>2, <3>4, <3>5, <3>6, <3>7, ApplyMoves
    <2>2. CASE r.kind = "start" /\ r.queue \notin DOMAIN server.queues
      <3>1. Start(r.queue, Untold(r.queue)) /\ UNCHANGED inbox
        BY <2>2 DEF Arrive
      <3>2. PICK repeat \in BOOLEAN, rows \in {"viewed", "resolved"} :
               server' = AfterStart(server, r.queue, repeat, rows, Untold(r.queue))
        BY <1>2, <3>1, StartIs
      <3>3. r.queue \in Queue /\ r.queue \in made /\ (Reads(http) /\ http.stale => device.queue # r.queue)
        BY <1>2, <2>2 DEF Inv, Types, LateType, KnownQueues, Overtakes, Queue
      <3>4. Inv(device, server', http, late, inbox, made, forgotten)
        BY <1>2, <1>3, <2>2, <3>2, <3>3, StartMoves
      <3>. QED BY <3>1, <3>4
    <2>3. CASE r.kind = "restore" /\ CanRestore(r.queue)
      <3>1. server' = AfterRestore(server, r.queue, Untold(r.queue)) /\ UNCHANGED inbox
        BY <2>3 DEF Arrive, Restore, AfterRestore
      <3>2. r.queue \in DOMAIN server.queues
        BY <2>3 DEF CanRestore
      <3>3. Inv(device, server', http, late, inbox, made, forgotten)
        BY <1>2, <3>1, <3>2, RestoreMoves
      <3>. QED BY <3>1, <3>3
    <2>4. CASE UNCHANGED <<server, inbox>>
      BY <1>2, <2>4
    <2>. QED BY <2>1, <2>2, <2>3, <2>4 DEF Arrive
  <1>5. \A r2 \in late' : r2 \in late
    BY <1>1
  <1>6. Inv(device, server', http, late', inbox', made, forgotten)
    BY <1>4, <1>5, LateMoves
  <1>. QED BY <1>1, <1>6 DEF QueueInv

\* What other devices do is never one of this device's.
LEMMA OtherEditsKeeps ==
    ASSUME QueueInv, NEW e \in OtherEdit, OtherEdits(e)
    PROVE  QueueInv'
  <1>1. /\ made' = made \cup {e} /\ server.active # None /\ Apply(e)
        /\ UNCHANGED <<device, http, late, forgotten>>
    BY DEF OtherEdits, Aside
  <1>2. Inv(device, server, http, late, inbox, made, forgotten)
    BY DEF QueueInv
  <1>3. e \in Edit /\ e \notin OwnEdit /\ made' \subseteq Edit \cup Queue
    BY <1>1, <1>2, IdsAssumption DEF Inv, Types, IdsAssumption, Edit
  <1>4. \A q \in Queue : ~Asks(device, http, late, e, q)
    BY <1>2, <1>3, AsksTyped DEF Inv, Types
  <1>5. \A i \in Unanswered(device) : device.pending[i].edit # e
    BY <1>2, <1>3 DEF Inv, Types, DeviceType, Pending, Unanswered
  <1>6. Inv(device, server', http, late, inbox', made', forgotten)
    BY <1>1, <1>2, <1>3, <1>4, <1>5, ApplyMoves
  <1>. QED BY <1>1, <1>6 DEF QueueInv

\* Another device starts a queue.
LEMMA OtherStartsKeeps ==
    ASSUME QueueInv, NEW q \in Others, OtherStarts(q)
    PROVE  QueueInv'
  <1>1. /\ q \notin made /\ made' = made \cup {q} /\ Start(q, Untold(q))
        /\ UNCHANGED <<device, http, late, inbox, forgotten>>
    BY DEF OtherStarts, Aside
  <1>2. Inv(device, server, http, late, inbox, made, forgotten) /\ ServerType(server)
    BY DEF QueueInv, Inv, Types
  <1>3. q \in Queue /\ q \notin Own /\ q \notin {First, Older} /\ made' \subseteq Edit \cup Queue
    BY <1>1, <1>2, IdsAssumption DEF Inv, Types, IdsAssumption, Queue
  <1>4. q \notin DOMAIN server.queues /\ (Reads(http) /\ http.stale => device.queue # q)
    BY <1>1, <1>2, <1>3 DEF Inv, KnownQueues, Overtakes
  <1>5. PICK repeat \in BOOLEAN, rows \in {"viewed", "resolved"} :
           server' = AfterStart(server, q, repeat, rows, Untold(q))
    BY <1>1, <1>2, StartIs
  <1>6. Inv(device, server', http, late, inbox, made', forgotten)
    BY <1>1, <1>2, <1>3, <1>4, <1>5, StartMoves
  <1>. QED BY <1>1, <1>6 DEF QueueInv

\* Another device restores one.
LEMMA OtherRestoresKeeps ==
    ASSUME QueueInv, NEW q \in Queue, OtherRestores(q)
    PROVE  QueueInv'
  <1>1. /\ q \in DOMAIN server.queues /\ server' = AfterRestore(server, q, Untold(q))
        /\ UNCHANGED <<device, http, late, inbox, made, forgotten>>
    BY DEF OtherRestores, Aside, CanRestore, Restore, AfterRestore
  <1>2. Inv(device, server', http, late, inbox, made, forgotten)
    BY <1>1, RestoreMoves DEF QueueInv
  <1>. QED BY <1>1, <1>2 DEF QueueInv

\* Its handler tells this device, or is dropped.
LEMMA AnnounceKeeps ==
    ASSUME QueueInv, NEW q \in Queue, Announce(q) \/ HangUp(q)
    PROVE  QueueInv'
  <1>1. /\ server' = [server EXCEPT !.telling = server.telling \ {q}]
        /\ UNCHANGED <<device, http, late, made, forgotten>>
    BY DEF Announce, HangUp, Aside
  <1>2. Inv(device, server', http, late, inbox, made, forgotten)
    BY <1>1, TellingMoves DEF QueueInv
  <1>3. Inv(device, server', http, late, inbox', made, forgotten)
    <2>1. CASE Announce(q)
      <3>1. ToDevice(Replaced(q)) /\ q \in OfQueue
        BY <2>1 DEF Announce, OfQueue
      <3>2. Replaced(q) \in Message /\ Fine(Replaced(q), server', made, forgotten)
        BY <3>1, ReplacedIsFine DEF ReplacedFine
      <3>. QED BY <1>2, <3>1, <3>2, ToDeviceMoves
    <2>2. CASE HangUp(q)
      BY <1>2, <2>2 DEF HangUp
    <2>. QED BY <2>1, <2>2
  <1>. QED BY <1>1, <1>3 DEF QueueInv

\* The background save.
LEMMA SaveKeeps ==
    ASSUME QueueInv, Save
    PROVE  QueueInv'
  <1>. DEFINE gone == DOMAIN server.queues \ KeptQueues(server)
              queues == [q \in KeptQueues(server) |-> server.queues[q]]
  <1>1. /\ server' = [server EXCEPT !.queues = queues,
               !.saved = [active |-> server.active, queues |-> queues]]
        /\ forgotten' = [edits |-> forgotten.edits \cup UNION {EditsOf(q) : q \in gone},
                         queues |-> forgotten.queues \cup gone]
        /\ UNCHANGED <<device, http, late, inbox, made>>
    BY DEF Save, KeptQueues
  <1>2. server' = AfterSave(server)
    BY <1>1 DEF AfterSave
  <1>3. /\ DOMAIN forgotten' = {"edits", "queues"}
        /\ forgotten'.edits = forgotten.edits \cup UNION {EditsOf(q) : q \in gone}
        /\ forgotten'.queues = forgotten.queues \cup gone
    BY <1>1
  <1>4. \A q \in gone : ToSet(server.queues[q].edits) \subseteq forgotten'.edits
    BY <1>3 DEF EditsOf
  <1>5. forgotten.edits \subseteq forgotten'.edits
    BY <1>3
  <1>6. Inv(device, server', http, late, inbox, made, forgotten')
    BY <1>2, <1>3, <1>4, <1>5, SaveMoves DEF QueueInv
  <1>. QED BY <1>1, <1>6 DEF QueueInv

\* The realtime connection is lost, or there again.
LEMMA ConnectionKeeps ==
    ASSUME QueueInv, Disconnect \/ Reconnect
    PROVE  QueueInv'
  <1>1. UNCHANGED <<device, server, http, late, made, forgotten>>
    BY DEF Disconnect, Reconnect
  <1>2. CASE Disconnect
    <2>1. Inv(device, server, http, late, inbox', made, forgotten)
      BY <1>2, TailOrNone DEF Disconnect, QueueInv
    <2>. QED BY <1>1, <2>1 DEF QueueInv
  <1>3. CASE Reconnect
    <2>1. Hello \in Message /\ Fine(Hello, server, made, forgotten)
      <3>1. Hello \in Message /\ Hello.type = "hello" /\ Hello.edit = None
        BY DEF Hello, Message, OfQueue
      <3>. QED BY <3>1 DEF Fine
    <2>2. Inv(device, server, http, late, inbox', made, forgotten)
      BY <1>3, <2>1, Appended DEF Reconnect, QueueInv
    <2>. QED BY <1>1, <2>2 DEF QueueInv
  <1>. QED BY <1>2, <1>3

\* A crash: what was not saved is lost.
LEMMA RestartKeeps ==
    ASSUME QueueInv, Restart
    PROVE  QueueInv'
  <1>1. /\ server' = AfterRestart(server) /\ late' = {} /\ inbox' = <<>>
        /\ http' = IF http.at \in {"sent", "applied"}
                   THEN [http EXCEPT !.at = "answered", !.answer = Answered("lost")] ELSE http
        /\ forgotten' = [forgotten EXCEPT !.edits = @ \cup UNION {Unsaved(q) : q \in DOMAIN server.queues}]
        /\ UNCHANGED <<device, made>>
    BY DEF Restart, AfterRestart
  <1>2. Inv(device, server, http, late, inbox, made, forgotten) /\ HttpType(http)
        /\ DOMAIN forgotten = {"edits", "queues"}
    BY DEF QueueInv, Inv, Types
  <1>3. Inv(device, server, http, late, <<>>, made, forgotten)
    BY <1>2, TailOrNone
  <1>4. Inv(device, server, http, {}, <<>>, made, forgotten)
    BY <1>3, LateMoves
  <1>5. Inv(device, server, http', {}, <<>>, made, forgotten) /\ http'.at \notin {"sent", "applied"}
    <2>1. CASE http.at \in {"sent", "applied"}
      <3>1. Inv(device, server, [http EXCEPT !.at = "answered", !.answer = Answered("lost")], {}, <<>>,
                made, forgotten)
        BY <1>4, <2>1, PlainAnswer
      <3>. QED BY <1>1, <1>2, <2>1, <3>1 DEF HttpType
    <2>2. CASE http.at \notin {"sent", "applied"}
      BY <1>1, <1>4, <2>2
    <2>. QED BY <2>1, <2>2
  <1>6. /\ DOMAIN forgotten' = {"edits", "queues"} /\ forgotten'.queues = forgotten.queues
        /\ forgotten'.edits = forgotten.edits \cup UNION {Unsaved(q) : q \in DOMAIN server.queues}
    BY <1>1, <1>2
  <1>7. forgotten.edits \subseteq forgotten'.edits
    BY <1>6
  <1>8. \A q \in DOMAIN server.queues :
           LET n == IF q \in DOMAIN server.saved.queues THEN Len(server.saved.queues[q].edits) ELSE 0
           IN  \A i \in n + 1 .. Len(server.queues[q].edits) : server.queues[q].edits[i] \in forgotten'.edits
    <2>1. ASSUME NEW q \in DOMAIN server.queues PROVE Unsaved(q) \subseteq forgotten'.edits
      BY <1>6
    <2>. QED BY <2>1 DEF Unsaved, Version
  <1>9. Inv(device, server', http', {}, <<>>, made, forgotten')
    BY <1>1, <1>5, <1>6, <1>7, <1>8, RestartMoves
  <1>. QED BY <1>1, <1>9 DEF QueueInv

-----------------------------------------------------------------------------
(* What the device hears and its user does.  Each step also has every edit *)
(* that was pending still pending or accounted for, as NothingVanishes has *)
(* it.                                                                     *)
Tells(d2, d, fg) ==
    d.queue \notin fg.queues =>
        \A i \in DOMAIN d.pending :
            d.pending[i].edit \in Edits(d2.pending) \cup ToSet(d2.content.edits) \cup d2.reported
                                  \cup Repeats \cup fg.edits

\* What hearing leaves out is shown or told.
LEMMA FollowsTells ==
    ASSUME NEW d, NEW d2, Follows(d2, d), NEW fg
    PROVE  Tells(d2, d, fg)
  BY DEF Follows, Goes, Tells, Edits

\* Of what the invariant is about, only what is on its way may have changed.
Alike(d2, d) ==
    /\ DeviceType(d2) /\ d2.queue = d.queue /\ d2.content = d.content /\ d2.run = d.run /\ d2.count = d.count
    /\ d2.held \in {d.held, <<>>} /\ d2.starting \in {d.starting, None} /\ d2.pending = d.pending
    /\ d2.reported = d.reported
\* With the queue as it was, nothing is left out.
LEMMA AlikeFollows ==
    ASSUME NEW d, NEW d2, Alike(d2, d)
    PROVE  Follows(d2, d)
  <1>1. d.content.edits \in Seq(Edit)
    BY DEF Alike, DeviceType, Contents
  <1>. QED BY <1>1, PrefixGoesOn DEF Alike, Follows, Goes

\* Pending edits are given up, and the queue confirmed stays.
LEMMA StayMoves ==
    ASSUME NEW d, NEW s, NEW h, NEW la, NEW ib, NEW md, NEW fg, Inv(d, s, h, la, ib, md, fg),
           NEW d2, DeviceType(d2), Follows(d2, d), d2.content = d.content
    PROVE  Inv(d2, s, h, la, ib, md, fg) /\ Tells(d2, d, fg)
  <1>1. Goes(d2, d) /\ ToSet(d2.content.edits) \subseteq md \cup {Past}
    BY DEF Follows, Inv, KnownEdits
  <1>2. Reads(h) /\ h.stale => d2.content.edits = <<>>
    BY DEF Inv, Overtakes
  <1>3. ~Installs(h) => Behind(s, fg, d.run, d.queue, d2.content.edits)
    BY DEF Inv, InStep
  <1>. QED BY <1>1, <1>2, <1>3, DeviceMoves, FollowsTells

\* So with the request under way answered.
LEMMA StayEnds ==
    ASSUME NEW d, NEW s, NEW h, NEW la, NEW ib, NEW md, NEW fg, Inv(d, s, h, la, ib, md, fg), ~Installs(h),
           NEW d2, DeviceType(d2), Follows(d2, d), d2.content = d.content,
           d2.held = <<>> \/ h.kind # "fetch"
    PROVE  Inv(d2, s, NothingSent, la, ib, md, fg) /\ Tells(d2, d, fg)
  <1>1. Inv(d2, s, h, la, ib, md, fg) /\ Tells(d2, d, fg)
    BY StayMoves
  <1>2. d2.held = <<>>
    BY <1>1 DEF Inv, Types
  <1>. QED BY <1>1, <1>2, Forget

\* The next request is sent, which tells the user nothing.
LEMMA DrainKeeps ==
    ASSUME NEW d, NEW s, NEW la, NEW ib, NEW md, NEW fg, Inv(d, s, NothingSent, la, ib, md, fg), Drain(d)
    PROVE  /\ Inv(device', s, http', la, ib, md, fg)
           /\ \A d0 : Tells(d, d0, fg) => Tells(device', d0, fg)
  <1>1. device' = After(d) /\ http' = Work(d)
    BY DEF Drain, After
  <1>2. Inv(After(d), s, Work(d), la, ib, md, fg)
    BY DrainMoves
  <1>3. After(d).pending = d.pending /\ After(d).content = d.content /\ After(d).reported = d.reported
    BY DEF After, Inv, Types, DeviceType
  <1>4. Inv(device', s, http', la, ib, md, fg)
    BY <1>1, <1>2
  <1>5. \A d0 : Tells(d, d0, fg) => Tells(device', d0, fg)
    BY <1>1, <1>3 DEF Tells
  <1>. QED BY <1>4, <1>5

\* Or it waits for the one under way.
LEMMA HandledKeeps ==
    ASSUME NEW d, NEW s, NEW la, NEW ib, NEW md, NEW fg, Inv(d, s, http, la, ib, md, fg), Handled(d)
    PROVE  /\ Inv(device', s, http', la, ib, md, fg)
           /\ \A d0 : Tells(d, d0, fg) => Tells(device', d0, fg)
  <1>1. CASE http = NothingSent
    <2>1. Inv(d, s, NothingSent, la, ib, md, fg) /\ Drain(d)
      BY <1>1 DEF Handled
    <2>. QED BY <2>1, DrainKeeps
  <1>2. CASE http # NothingSent
    <2>1. device' = d /\ http' = http
      BY <1>2 DEF Handled
    <2>. QED BY <2>1
  <1>. QED BY <1>1, <1>2

\* The user edits the queue shown (edit).
LEMMA MadeTells ==
    ASSUME NEW d, NEW e, DeviceType(d), NEW fg
    PROVE  /\ Edits(d.pending) \subseteq Edits(Made(d, e).pending)
           /\ Made(d, e).reported = d.reported /\ Made(d, e).content = d.content
           /\ Tells(Made(d, e), d, fg)
  <1>. DEFINE place == d.count + 1
              p == [edit |-> e, queue |-> d.queue, version |-> 0]
              d2 == Made(d, e)
  <1>1. place \notin DOMAIN d.pending
    BY DEF DeviceType
  <1>. HIDE DEF p
  <1>2. /\ d2.pending = [i \in DOMAIN d.pending \cup {place} |-> IF i = place THEN p ELSE d.pending[i]]
        /\ d2.reported = d.reported /\ d2.content = d.content
    BY DEF DeviceType, Made, p
  <1>. HIDE DEF d2, place
  <1>3. \A i \in DOMAIN d.pending : i \in DOMAIN d2.pending /\ d2.pending[i] = d.pending[i]
    BY <1>1, <1>2
  <1>4. Edits(d.pending) \subseteq Edits(d2.pending)
    BY <1>3 DEF Edits
  <1>5. Tells(d2, d, fg)
    BY <1>3 DEF Tells, Edits
  <1>. QED BY <1>2, <1>4, <1>5 DEF d2

\* The edit is made.
LEMMA UserEditKeeps ==
    ASSUME QueueInv, NEW e \in OwnEdit, UserEdit(e)
    PROVE  QueueInv' /\ Tells(device', device, forgotten)
  <1>1. /\ e \notin made /\ device.queue # None /\ made' = made \cup {e} /\ Handled(Made(device, e))
        /\ UNCHANGED <<server, late, inbox, forgotten>>
    BY DEF UserEdit
  <1>2. Inv(device, server, http, late, inbox, made, forgotten) /\ DeviceType(device)
    BY DEF QueueInv, Inv, Types
  <1>3. Inv(Made(device, e), server, http, late, inbox, made \cup {e}, forgotten)
    BY <1>1, <1>2, MadeMoves
  <1>4. Tells(Made(device, e), device, forgotten)
    BY <1>2, MadeTells
  <1>5. Inv(device', server, http', late, inbox, made \cup {e}, forgotten)
            /\ Tells(device', device, forgotten)
    BY <1>1, <1>3, <1>4, HandledKeeps
  <1>. QED BY <1>1, <1>5 DEF QueueInv

\* The user restores a queue (restore).
LEMMA UserRestoreKeeps ==
    ASSUME QueueInv, NEW q \in Queue, UserRestore(q)
    PROVE  QueueInv' /\ Tells(device', device, forgotten)
  <1>. DEFINE d2 == [device EXCEPT !.restoring = q]
  <1>1. Handled(d2) /\ UNCHANGED <<server, late, inbox, made, forgotten>>
    BY DEF UserRestore
  <1>2. Inv(device, server, http, late, inbox, made, forgotten) /\ DeviceType(device)
    BY DEF QueueInv, Inv, Types
  <1>3. /\ DOMAIN d2 = DOMAIN device /\ d2.queue = device.queue /\ d2.content = device.content
        /\ d2.run = device.run /\ d2.count = device.count /\ d2.held = device.held
        /\ d2.starting = device.starting /\ d2.pending = device.pending /\ d2.reported = device.reported
        /\ d2.restoring = q /\ d2.refetch = device.refetch
    BY <1>2 DEF DeviceType
  <1>. HIDE DEF d2
  <1>4. Alike(d2, device)
    <2>1. DeviceType(d2)
      BY <1>2, <1>3 DEF DeviceType, OfQueue
    <2>. QED BY <1>3, <2>1 DEF Alike
  <1>5. Inv(d2, server, http, late, inbox, made, forgotten) /\ Tells(d2, device, forgotten)
    <2>1. DeviceType(d2) /\ d2.content = device.content /\ Follows(d2, device)
      BY <1>4, AlikeFollows DEF Alike
    <2>. QED BY <1>2, <2>1, StayMoves
  <1>6. Inv(device', server, http', late, inbox, made, forgotten) /\ Tells(device', device, forgotten)
    BY <1>1, <1>5, HandledKeeps
  <1>. QED BY <1>1, <1>6 DEF QueueInv

\* The user starts a queue (start): what was pending goes, but for the repeat mode.
LEMMA OvertakenIs ==
    ASSUME HttpType(http)
    PROVE  /\ HttpType(Overtaken) /\ Overtaken.kind = http.kind /\ Overtaken.at = http.at
           /\ Overtaken.queue = http.queue /\ Overtaken.edit = http.edit /\ Overtaken.answer = http.answer
           /\ Overtaken.stale
  <1>. DEFINE h2 == Overtaken
  <1>1. /\ DOMAIN h2 = DOMAIN http /\ h2.kind = http.kind /\ h2.at = http.at
        /\ h2.queue = http.queue /\ h2.edit = http.edit /\ h2.answer = http.answer
        /\ h2.stale /\ h2.stale \in BOOLEAN
    BY DEF HttpType, Overtaken
  <1>. HIDE DEF h2
  <1>2. HttpType(h2)
    BY <1>1 DEF HttpType, Reads, Has
  <1>. QED BY <1>1, <1>2 DEF h2

StartedAs(d, q) ==
    LET dropped == {i \in DOMAIN d.pending : d.pending[i].edit \notin Repeats}
    IN [GiveUp(d, dropped) EXCEPT !.pending = Restrict(@, {}),
           !.queue = q, !.content = Fresh(Repeating(d.content), "viewed"),
           !.run = 0, !.refetch = FALSE, !.starting = q]

\* The queue started has nothing pending yet, and the user is told of what had to go.
LEMMA StartedAsIs ==
    ASSUME NEW d, DeviceType(d), NEW q \in Own, NEW fg
    PROVE  LET d2 == StartedAs(d, q)
           IN  /\ DeviceType(d2) /\ d2.queue = q /\ d2.content.edits = <<>> /\ DOMAIN d2.pending = {}
               /\ d2.run = 0 /\ d2.held = d.held /\ d2.starting = q
               /\ Tells(d2, d, fg)
  <1>. DEFINE d2 == StartedAs(d, q)
              dropped == {i \in DOMAIN d.pending : d.pending[i].edit \notin Repeats}
              g == GiveUp(d, dropped)
              c == Fresh(Repeating(d.content), "viewed")
  <1>1. /\ DOMAIN g = DOMAIN d /\ g.held = d.held /\ g.count = d.count /\ g.restoring = d.restoring
        /\ g.reported = d.reported \cup {d.pending[i].edit : i \in dropped}
    BY DEF DeviceType, GiveUp
  <1>2. Repeating(d.content) \in BOOLEAN
    BY DEF DeviceType, Contents, Repeating
  <1>3. c \in Contents /\ c.edits = <<>>
    BY <1>2, FreshContent
  <1>. HIDE DEF c
  <1>4. d2 = [g EXCEPT !.pending = Restrict(g.pending, {}), !.queue = q, !.content = c,
                       !.run = 0, !.refetch = FALSE, !.starting = q]
    BY DEF StartedAs, c
  <1>5. DOMAIN Restrict(g.pending, {}) = {}
    BY DEF Restrict
  <1>6. g.reported \subseteq OwnEdit
    BY <1>1 DEF DeviceType, Pending
  <1>. HIDE DEF g, d2
  <1>7. /\ DOMAIN d2 = DOMAIN d /\ d2.held = d.held /\ d2.count = d.count /\ d2.restoring = d.restoring
        /\ d2.reported = g.reported /\ DOMAIN d2.pending = {} /\ d2.queue = q /\ d2.content = c
        /\ d2.run = 0 /\ d2.refetch \in BOOLEAN /\ d2.starting = q
    BY <1>1, <1>4, <1>5 DEF DeviceType
  <1>8. d2.pending \in [DOMAIN d2.pending -> Pending]
    <2>1. d2.pending = Restrict(g.pending, {})
      BY <1>1, <1>4 DEF DeviceType
    <2>. QED BY <2>1 DEF Restrict
  <1>9. DeviceType(d2)
    <2>1. q \in OfQueue /\ q # None
      BY IdsAssumption DEF OfQueue, Queue, IdsAssumption
    <2>. QED BY <1>3, <1>6, <1>7, <1>8, <2>1 DEF DeviceType
  <1>10. Tells(d2, d, fg)
    <2>1. \A i \in DOMAIN d.pending : d.pending[i].edit \in Repeats \/ d.pending[i].edit \in g.reported
      BY <1>1
    <2>. QED BY <1>7, <2>1 DEF Tells
  <1>. QED BY <1>3, <1>7, <1>9, <1>10 DEF d2

\* The queue is started.
LEMMA UserStartKeeps ==
    ASSUME QueueInv, NEW q \in Own, UserStart(q)
    PROVE  QueueInv' /\ Tells(device', device, forgotten)
  <1>. DEFINE started == StartedAs(device, q)
              tapped == Edits(device.pending) \cap Repeats # {}
              Begun(d) == IF http = NothingSent THEN Drain(d) ELSE device' = d /\ http' = Overtaken
  <1>1. /\ q \notin made /\ UNCHANGED <<server, late, inbox, forgotten>>
        /\ \/ tapped /\ \E e \in (OwnEdit \cap Repeats) \ made :
                            made' = made \cup {q, e} /\ Begun(Made(started, e))
           \/ ~tapped /\ made' = made \cup {q} /\ Begun(started)
    BY DEF UserStart, StartedAs
  <1>2. /\ Inv(device, server, http, late, inbox, made, forgotten) /\ DeviceType(device) /\ HttpType(http)
    BY DEF QueueInv, Inv, Types
  <1>3. /\ DeviceType(started) /\ started.queue = q /\ started.content.edits = <<>>
        /\ DOMAIN started.pending = {}
        /\ started.run = 0 /\ started.held = device.held /\ started.starting = q
        /\ Tells(started, device, forgotten)
    BY <1>2, StartedAsIs
  <1>. HIDE DEF started
  <1>4. Inv(started, server, Overtaken, late, inbox, made \cup {q}, forgotten)
    BY <1>1, <1>2, <1>3, OvertakenIs, StartedMoves
  <1>5. ASSUME http = NothingSent
            PROVE Inv(started, server, NothingSent, late, inbox, made \cup {q}, forgotten)
    BY <1>1, <1>2, <1>3, <1>5, NothingSentIs, StartedMoves
  <1>6. ASSUME NEW d, NEW md, Tells(d, device, forgotten), Begun(d), made' = md,
               Inv(d, server, Overtaken, late, inbox, md, forgotten),
               http = NothingSent => Inv(d, server, NothingSent, late, inbox, md, forgotten)
        PROVE  Inv(device', server, http', late, inbox, made', forgotten) /\ Tells(device', device, forgotten)
    <2>1. CASE http = NothingSent
      BY <1>6, <2>1, DrainKeeps
    <2>2. CASE http # NothingSent
      BY <1>6, <2>2
    <2>. QED BY <2>1, <2>2
  <1>7. Inv(device', server, http', late, inbox, made', forgotten) /\ Tells(device', device, forgotten)
    <2>1. CASE ~tapped /\ made' = made \cup {q} /\ Begun(started)
      BY <1>3, <1>4, <1>5, <1>6, <2>1
    <2>2. ASSUME NEW e \in (OwnEdit \cap Repeats) \ made, made' = made \cup {q, e}, Begun(Made(started, e))
          PROVE  Inv(device', server, http', late, inbox, made', forgotten)
              /\ Tells(device', device, forgotten)
      <3>1. e \notin made \cup {q} /\ made' = (made \cup {q}) \cup {e} /\ started.queue # None
        <4>1. e \in Edit /\ q \in Queue
          BY DEF Edit, Queue
        <4>. QED BY <1>3, <2>2, <4>1, IdsAssumption DEF IdsAssumption
      <3>2. Inv(Made(started, e), server, Overtaken, late, inbox, made', forgotten)
        BY <1>4, <3>1, MadeMoves
      <3>3. http = NothingSent => Inv(Made(started, e), server, NothingSent, late, inbox, made', forgotten)
        BY <1>5, <3>1, MadeMoves
      <3>4. Tells(Made(started, e), device, forgotten)
        BY <1>3, MadeTells DEF Tells
      <3>. HIDE DEF Begun
      <3>. QED BY <1>6, <2>2, <3>2, <3>3, <3>4
    <2>. HIDE DEF Begun, tapped
    <2>. QED BY <1>1, <2>1, <2>2
  <1>. QED BY <1>1, <1>7 DEF QueueInv

\* A message comes (#onMessage): held while a fetch is under way, heard otherwise.
LEMMA RefetchMoves ==
    ASSUME QueueInv
    PROVE  LET d2 == [device EXCEPT !.refetch = TRUE]
           IN  Inv(d2, server, http, late, inbox, made, forgotten) /\ Tells(d2, device, forgotten)
  <1>. DEFINE d2 == [device EXCEPT !.refetch = TRUE]
  <1>1. Inv(device, server, http, late, inbox, made, forgotten) /\ DeviceType(device)
    BY DEF QueueInv, Inv, Types
  <1>2. DeviceType(d2) /\ Follows(d2, device) /\ d2.content = device.content
    BY <1>1, FetchLater
  <1>. HIDE DEF d2
  <1>3. Inv(d2, server, http, late, inbox, made, forgotten) /\ Tells(d2, device, forgotten)
    BY <1>1, <1>2, StayMoves
  <1>. QED BY <1>3 DEF d2

\* A message is heard with no fetch under way.
LEMMA HeardMoves ==
    ASSUME QueueInv, ~Holding, NEW i \in DOMAIN inbox, inbox[i].type = "queueEdit"
    PROVE  LET d2 == Heard(device, inbox[i])
           IN  Inv(d2, server, http, late, inbox, made, forgotten) /\ Tells(d2, device, forgotten)
  <1>. DEFINE m == inbox[i]
              d2 == Heard(device, m)
              known == made \cup {Past}
              es == EditsIn(server, device.queue)
  <1>1. Inv(device, server, http, late, inbox, made, forgotten) /\ DeviceType(device) /\ ServerType(server)
    BY DEF QueueInv, Inv, Types
  <1>2. m \in Message /\ m.edit \in Edit /\ m.queue \in Queue /\ m.queue # None /\ m.edit # None
    <2>1. None \notin Queue \cup Edit
      BY IdsAssumption DEF IdsAssumption
    <2>. QED BY <1>1, <2>1 DEF Inv, Types, InboxType
  <1>3. m.edit \in known /\ IsSo(server, forgotten, m)
            /\ (Reads(http) /\ http.stale => m.queue # device.queue)
    BY <1>1, <1>2 DEF Inv, KnownEdits, InStep, Overtakes
  <1>4. es \in Seq(Edit)
    BY <1>1, EditsInTyped
  <1>. HIDE DEF m, d2
  <1>5. /\ Hears(d2, device, known)
        /\ \A fs \in Seq(Edit) : Prefix(device.content.edits, fs) /\ Says(m, device, fs)
               => Prefix(d2.content.edits, fs)
    BY <1>1, <1>2, <1>3, HeardHears DEF d2
  <1>6. DeviceType(d2) /\ Follows(d2, device) /\ Goes(d2, device)
    BY <1>5 DEF Hears, Follows
  <1>7. ToSet(d2.content.edits) \subseteq made \cup {Past}
    BY <1>1, <1>5 DEF Hears, Inv, KnownEdits
  <1>8. Reads(http) /\ http.stale => d2.content.edits = <<>>
    <2>1. ASSUME Reads(http), http.stale PROVE d2.content.edits = <<>>
      <3>1. m.queue # device.queue /\ device.content.edits = <<>>
        BY <1>1, <1>3, <2>1 DEF Inv, Overtakes
      <3>2. d2 = [device EXCEPT !.refetch = TRUE]
        BY <3>1 DEF Heard, d2
      <3>3. d2.content = device.content
        BY <1>1, <3>2, FetchLater
      <3>. QED BY <3>1, <3>3
    <2>. QED BY <2>1
  <1>9. ~Installs(http) => Behind(server, forgotten, device.run, device.queue, d2.content.edits)
    <2>1. ASSUME ~Installs(http), device.run = server.run, device.queue \notin forgotten.queues
          PROVE  Prefix(d2.content.edits, es)
      <3>1. Prefix(device.content.edits, es)
        BY <1>1, <2>1 DEF Inv, InStep, Behind
      <3>2. Says(m, device, es)
        BY <1>3, <2>1 DEF Says, IsSo
      <3>. QED BY <1>4, <1>5, <3>1, <3>2
    <2>. QED BY <2>1 DEF Behind
  <1>10. Inv(d2, server, http, late, inbox, made, forgotten)
    BY <1>1, <1>6, <1>7, <1>8, <1>9, DeviceMoves DEF Holding
  <1>11. Tells(d2, device, forgotten)
    BY <1>6, FollowsTells
  <1>. QED BY <1>10, <1>11 DEF d2, m

\* The message is handled.
LEMMA HearKeeps ==
    ASSUME QueueInv, Hear
    PROVE  QueueInv' /\ Tells(device', device, forgotten)
  <1>. DEFINE m == Head(inbox)
              refetching == [device EXCEPT !.refetch = TRUE]
              holding == [device EXCEPT !.held = Append(@, m)]
  <1>1. /\ inbox # <<>> /\ inbox' = Tail(inbox) /\ UNCHANGED <<server, late, made, forgotten>>
        /\ \/ Handled(refetching) \/ UNCHANGED <<device, http>>
           \/ m.type = "queueEdit" /\ Holding /\ device' = holding /\ UNCHANGED http
           \/ m.type = "queueEdit" /\ ~Holding /\ Handled(Heard(device, m))
    BY DEF Hear
  <1>2. Inv(device, server, http, late, inbox, made, forgotten) /\ DeviceType(device)
    BY DEF QueueInv, Inv, Types
  <1>3. 1 \in DOMAIN inbox /\ m = inbox[1]
    BY <1>1, <1>2 DEF Inv, Types, InboxType
  <1>4. Inv(device', server, http', late, inbox, made, forgotten) /\ Tells(device', device, forgotten)
    <2>1. CASE Handled(refetching)
      <3>1. Inv(refetching, server, http, late, inbox, made, forgotten)
                /\ Tells(refetching, device, forgotten)
        BY RefetchMoves
      <3>. HIDE DEF refetching
      <3>. QED BY <2>1, <3>1, HandledKeeps
    <2>2. CASE UNCHANGED <<device, http>>
      <3>1. Tells(device, device, forgotten)
        BY <1>2, FollowsItself, FollowsTells
      <3>. QED BY <1>2, <2>2, <3>1
    <2>3. CASE m.type = "queueEdit" /\ Holding /\ device' = holding /\ UNCHANGED http
      <3>1. Inv(holding, server, http, late, inbox, made, forgotten)
        BY <1>2, <1>3, <2>3, HeldMoves DEF Holding
      <3>2. holding.pending = device.pending
        BY <1>2 DEF DeviceType
      <3>3. Tells(holding, device, forgotten)
        BY <3>2 DEF Tells, Edits
      <3>. QED BY <2>3, <3>1, <3>3
    <2>4. CASE m.type = "queueEdit" /\ ~Holding /\ Handled(Heard(device, m))
      <3>1. Inv(Heard(device, m), server, http, late, inbox, made, forgotten)
                /\ Tells(Heard(device, m), device, forgotten)
        BY <1>3, <2>4, HeardMoves
      <3>. QED BY <2>4, <3>1, HandledKeeps
    <2>. QED BY <1>1, <2>1, <2>2, <2>3, <2>4
  <1>5. Inv(device', server, http', late, Tail(inbox), made, forgotten)
    BY <1>1, <1>4, TailOrNone
  <1>. QED BY <1>1, <1>4, <1>5 DEF QueueInv

\* A start is answered (#sendStart).
LEMMA StartAnsweredKeeps ==
    ASSUME QueueInv, StartAnswered
    PROVE  QueueInv' /\ Tells(device', device, forgotten)
  <1>. DEFINE refused == [device EXCEPT !.starting = None, !.refetch = TRUE]
              gone == {i \in DOMAIN device.pending : device.pending[i].queue = http.queue}
  <1>1. /\ http.kind = "start" /\ http.at = "answered" /\ UNCHANGED <<server, late, inbox, made, forgotten>>
        /\ Drain(device) \/ Drain(Started(device)) \/ Drain(GiveUp(refused, gone))
    BY DEF StartAnswered, Back
  <1>2. Inv(device, server, http, late, inbox, made, forgotten) /\ DeviceType(device) /\ ~Installs(http)
    BY <1>1 DEF QueueInv, Inv, Types, Installs
  <1>3. ASSUME NEW d2, DeviceType(d2), Follows(d2, device), d2.content = device.content, Drain(d2)
        PROVE  QueueInv' /\ Tells(device', device, forgotten)
    <2>1. Inv(d2, server, NothingSent, late, inbox, made, forgotten) /\ Tells(d2, device, forgotten)
      BY <1>1, <1>2, <1>3, StayEnds
    <2>2. Inv(device', server, http', late, inbox, made, forgotten) /\ Tells(device', device, forgotten)
      BY <1>3, <2>1, DrainKeeps
    <2>. QED BY <1>1, <2>2 DEF QueueInv
  <1>4. CASE Drain(device)
    BY <1>2, <1>3, <1>4, FollowsItself
  <1>5. CASE Drain(Started(device))
    <2>. DEFINE d2 == Started(device)
    <2>1. /\ DOMAIN d2 = DOMAIN device /\ d2.queue = device.queue /\ d2.content = device.content
          /\ d2.run = device.run /\ d2.count = device.count /\ d2.held = device.held
          /\ d2.starting = None /\ d2.pending = device.pending /\ d2.reported = device.reported
          /\ d2.restoring = device.restoring /\ d2.refetch \in BOOLEAN
      BY <1>2 DEF DeviceType, Started
    <2>. HIDE DEF d2
    <2>2. Alike(d2, device)
      <3>1. DeviceType(d2)
        BY <1>2, <2>1 DEF DeviceType
      <3>. QED BY <2>1, <3>1 DEF Alike
    <2>3. DeviceType(d2) /\ Follows(d2, device) /\ d2.content = device.content
      BY <2>2, AlikeFollows DEF Alike
    <2>4. Drain(d2)
      BY <1>5 DEF d2
    <2>. QED BY <1>3, <2>3, <2>4
  <1>6. CASE Drain(GiveUp(refused, gone))
    <2>1. /\ DOMAIN refused = DOMAIN device /\ refused.queue = device.queue
          /\ refused.content = device.content
          /\ refused.run = device.run /\ refused.count = device.count /\ refused.held = device.held
          /\ refused.starting = None /\ refused.pending = device.pending /\ refused.reported = device.reported
          /\ refused.restoring = device.restoring /\ refused.refetch \in BOOLEAN
      BY <1>2 DEF DeviceType
    <2>. HIDE DEF refused
    <2>2. Alike(refused, device)
      <3>1. DeviceType(refused)
        BY <1>2, <2>1 DEF DeviceType
      <3>. QED BY <2>1, <3>1 DEF Alike
    <2>3. DeviceType(refused) /\ Follows(refused, device)
      BY <2>2, AlikeFollows DEF Alike
    <2>4. gone \in SUBSET DOMAIN refused.pending
      BY <2>1
    <2>. HIDE DEF gone
    <2>5. /\ DeviceType(GiveUp(refused, gone)) /\ Follows(GiveUp(refused, gone), refused)
          /\ GiveUp(refused, gone).content = refused.content
      BY <2>3, <2>4, GiveUpFollows
    <2>6. Follows(GiveUp(refused, gone), device)
      BY <1>2, <2>3, <2>5, FollowsOn
    <2>. QED BY <1>3, <1>6, <2>1, <2>5, <2>6
  <1>. QED BY <1>1, <1>4, <1>5, <1>6

\* An edit is answered (#sendEdit).
LEMMA EditAnsweredKeeps ==
    ASSUME QueueInv, EditAnswered
    PROVE  QueueInv' /\ Tells(device', device, forgotten)
  <1>. DEFINE refused == [device EXCEPT !.refetch = @ \/ Is({"changed", "missing"})]
              gone == {i \in DOMAIN device.pending : device.pending[i].edit = http.edit}
              answered == AfterAnswer(device, http.edit, http.answer.version)
  <1>1. /\ http.kind = "edit" /\ http.at = "answered" /\ UNCHANGED <<server, late, inbox, made, forgotten>>
        /\ \/ Drain(device)
           \/ Is({"applied", "again"}) /\ Drain(answered)
           \/ Drain(Rebuild(GiveUp(refused, gone)))
    BY DEF EditAnswered, Back, AfterAnswer
  <1>2. Inv(device, server, http, late, inbox, made, forgotten) /\ DeviceType(device) /\ ~Installs(http)
    BY <1>1 DEF QueueInv, Inv, Types, Installs
  <1>3. ASSUME NEW d2, Inv(d2, server, NothingSent, late, inbox, made, forgotten),
            Tells(d2, device, forgotten), Drain(d2)
        PROVE  QueueInv' /\ Tells(device', device, forgotten)
    <2>1. Inv(device', server, http', late, inbox, made, forgotten) /\ Tells(device', device, forgotten)
      BY <1>3, DrainKeeps
    <2>. QED BY <1>1, <2>1 DEF QueueInv
  <1>4. CASE Drain(device)
    <2>1. Inv(device, server, NothingSent, late, inbox, made, forgotten) /\ Tells(device, device, forgotten)
      BY <1>1, <1>2, FollowsItself, StayEnds
    <2>. QED BY <1>3, <1>4, <2>1
  <1>5. CASE Is({"applied", "again"}) /\ Drain(answered)
    <2>1. Has(http, "applied") \/ Has(http, "again")
      BY <1>1, <1>5 DEF Is, Has
    <2>2. Inv(answered, server, http, late, inbox, made, forgotten)
      BY <1>1, <1>2, <2>1, EditAnswerMoves
    <2>3. answered.held = <<>>
      BY <1>1, <2>2 DEF Inv, Types
    <2>4. Inv(answered, server, NothingSent, late, inbox, made, forgotten)
      BY <1>2, <2>2, <2>3, Forget
    <2>5. Tells(answered, device, forgotten)
      <3>1. \A i \in DOMAIN device.pending : device.pending[i] \in Pending
        BY <1>2 DEF DeviceType
      <3>2. answered.pending = [i \in DOMAIN device.pending |->
               IF device.pending[i].edit = http.edit
                   THEN [device.pending[i] EXCEPT !.version = http.answer.version]
               ELSE device.pending[i]]
        BY <1>2 DEF DeviceType, AfterAnswer
      <3>. HIDE DEF answered
      <3>3. \A i \in DOMAIN device.pending :
               i \in DOMAIN answered.pending /\ answered.pending[i].edit = device.pending[i].edit
        BY <3>1, <3>2 DEF Pending
      <3>. QED BY <3>3 DEF Tells, Edits
    <2>. QED BY <1>3, <1>5, <2>4, <2>5
  <1>6. CASE Drain(Rebuild(GiveUp(refused, gone)))
    <2>. DEFINE g == GiveUp(refused, gone)
    <2>1. /\ DOMAIN refused = DOMAIN device /\ refused.queue = device.queue
          /\ refused.content = device.content
          /\ refused.run = device.run /\ refused.count = device.count /\ refused.held = device.held
          /\ refused.starting = device.starting /\ refused.pending = device.pending
          /\ refused.reported = device.reported /\ refused.restoring = device.restoring
          /\ refused.refetch \in BOOLEAN
      BY <1>2 DEF DeviceType
    <2>. HIDE DEF refused
    <2>2. Alike(refused, device)
      <3>1. DeviceType(refused)
        BY <1>2, <2>1 DEF DeviceType
      <3>. QED BY <2>1, <3>1 DEF Alike
    <2>3. DeviceType(refused) /\ Follows(refused, device)
      BY <2>2, AlikeFollows DEF Alike
    <2>4. gone \in SUBSET DOMAIN refused.pending
      BY <2>1
    <2>. HIDE DEF gone
    <2>5. DeviceType(g) /\ Follows(g, refused) /\ g.content = refused.content
      BY <2>3, <2>4, GiveUpFollows
    <2>6. Follows(g, device)
      BY <1>2, <2>3, <2>5, FollowsOn
    <2>. HIDE DEF g
    <2>7. DeviceType(Rebuild(g)) /\ Follows(Rebuild(g), g) /\ Rebuild(g).content = g.content
      BY <2>5, RebuildFollows
    <2>8. Follows(Rebuild(g), device) /\ Rebuild(g).content = device.content
      BY <1>2, <2>1, <2>5, <2>6, <2>7, FollowsOn
    <2>9. Inv(Rebuild(g), server, NothingSent, late, inbox, made, forgotten)
              /\ Tells(Rebuild(g), device, forgotten)
      BY <1>1, <1>2, <2>7, <2>8, StayEnds
    <2>. QED BY <1>3, <1>6, <2>9 DEF g
  <1>. QED BY <1>1, <1>4, <1>5, <1>6

\* The answer to a restore or a fetch has the queue, and its lists are to be read.
LEMMA InstallingTells ==
    ASSUME QueueInv, Reads(http), http.at = "answered", Is({"ok"}), http.kind = "fetch" => ~http.stale,
           Installing, device' = [device EXCEPT !.run = http.answer.run]
    PROVE  Inv(device', server, http', late, inbox, made, forgotten) /\ Tells(device', device, forgotten)
  <1>1. Inv(device, server, http, late, inbox, made, forgotten) /\ DeviceType(device) /\ Has(http, "ok")
    BY DEF QueueInv, Inv, Types, Is, Has
  <1>2. Inv([device EXCEPT !.run = http.answer.run], server, [http EXCEPT !.at = "installing"], late, inbox,
            made, forgotten)
    BY <1>1, InstallingMoves
  <1>3. device'.pending = device.pending
    BY <1>1 DEF DeviceType
  <1>4. Tells(device', device, forgotten)
    BY <1>3 DEF Tells, Edits
  <1>. QED BY <1>2, <1>4 DEF Installing

\* A restore is answered (#sendRestore).
LEMMA RestoreAnsweredKeeps ==
    ASSUME QueueInv, RestoreAnswered
    PROVE  QueueInv' /\ Tells(device', device, forgotten)
  <1>. DEFINE d2 == [device EXCEPT !.restoring = None, !.refetch = @ \/ Is({"lost"})]
  <1>1. /\ http.kind = "restore" /\ http.at = "answered" /\ UNCHANGED <<server, late, inbox, made, forgotten>>
    BY DEF RestoreAnswered, Back
  <1>2. Inv(device, server, http, late, inbox, made, forgotten) /\ DeviceType(device) /\ ~Installs(http)
    BY <1>1 DEF QueueInv, Inv, Types, Installs
  <1>3. Inv(device', server, http', late, inbox, made, forgotten) /\ Tells(device', device, forgotten)
    <2>1. CASE Is({"ok"})
      BY <1>1, <2>1, InstallingTells DEF RestoreAnswered, Reads
    <2>2. CASE ~Is({"ok"})
      <3>1. Drain(d2)
        BY <2>2 DEF RestoreAnswered
      <3>2. /\ DOMAIN d2 = DOMAIN device /\ d2.queue = device.queue /\ d2.content = device.content
            /\ d2.run = device.run /\ d2.count = device.count /\ d2.held = device.held
            /\ d2.starting = device.starting /\ d2.pending = device.pending /\ d2.reported = device.reported
            /\ d2.restoring = None /\ d2.refetch \in BOOLEAN
        BY <1>2 DEF DeviceType
      <3>. HIDE DEF d2
      <3>3. Alike(d2, device)
        <4>1. DeviceType(d2)
          BY <1>2, <3>2 DEF DeviceType, OfQueue
        <4>. QED BY <3>2, <4>1 DEF Alike
      <3>4. DeviceType(d2) /\ Follows(d2, device) /\ d2.content = device.content
        BY <3>3, AlikeFollows DEF Alike
      <3>5. Inv(d2, server, NothingSent, late, inbox, made, forgotten) /\ Tells(d2, device, forgotten)
        BY <1>1, <1>2, <3>4, StayEnds
      <3>. QED BY <3>1, <3>5, DrainKeeps
    <2>. QED BY <2>1, <2>2
  <1>. QED BY <1>1, <1>3 DEF QueueInv

(* A queue read is caught up with: the pending edits it has are left out,  *)
(* and the messages held are heard.                                        *)
LEMMA CaughtUpMoves ==
    ASSUME NEW d, NEW s, NEW la, NEW ib, NEW md, NEW fg, DeviceType(d),
           Inv(Left(d), s, NothingSent, la, ib, md, fg), NEW ms \in Seq(Message),
           \A i \in DOMAIN ms : ms[i].edit \in Edit /\ ms[i].edit \in md \cup {Past} /\ ms[i].queue # None,
           d.run = s.run => \A i \in DOMAIN ms : IsSo(s, fg, ms[i])
    PROVE  /\ Inv(CaughtUp(d, ms), s, NothingSent, la, ib, md, fg)
           /\ Follows(CaughtUp(d, ms), Left(d))
  <1>. DEFINE g == Left(d)
              c == CaughtUp(d, ms)
              known == md \cup {Past}
              es == EditsIn(s, d.queue)
  <1>1. DeviceType(g) /\ Goes(g, d) /\ g.content = d.content /\ g.queue = d.queue /\ g.run = d.run
    BY LeftGoes DEF Goes
  <1>2. \A i \in DOMAIN ms : ms[i].edit \in known \cap Edit /\ ms[i].queue # None
    OBVIOUS
  <1>3. es \in Seq(Edit)
    BY EditsInTyped DEF Inv, Types
  <1>. HIDE DEF g, c, known
  <1>4. /\ Hears(c, g, known)
        /\ \A fs \in Seq(Edit) : Prefix(d.content.edits, fs) /\ (\A i \in DOMAIN ms : Says(ms[i], d, fs))
              => Prefix(c.content.edits, fs)
    BY <1>2, CaughtUpHears DEF g, c
  <1>5. Inv(g, s, NothingSent, la, ib, md, fg)
    BY DEF g
  <1>6. DeviceType(c) /\ Follows(c, g) /\ Goes(c, g)
    BY <1>4 DEF Hears, Follows
  <1>7. ToSet(c.content.edits) \subseteq md \cup {Past}
    BY <1>4, <1>5 DEF Hears, Inv, KnownEdits, known
  <1>8. NothingSent.kind = "none" /\ ~Reads(NothingSent) /\ ~Installs(NothingSent)
    BY NothingSentIs DEF Reads, Installs
  <1>9. Behind(s, fg, g.run, g.queue, c.content.edits)
    <2>1. ASSUME g.run = s.run, g.queue \notin fg.queues
          PROVE  Prefix(c.content.edits, es)
      <3>1. Prefix(d.content.edits, es)
        BY <1>1, <1>5, <1>8, <2>1 DEF Inv, InStep, Behind
      <3>2. \A i \in DOMAIN ms : Says(ms[i], d, es)
        BY <1>1, <2>1 DEF Says, IsSo
      <3>. QED BY <1>3, <1>4, <3>1, <3>2
    <2>. QED BY <1>1, <2>1 DEF Behind
  <1>10. Inv(c, s, NothingSent, la, ib, md, fg)
    BY <1>5, <1>6, <1>7, <1>8, <1>9, DeviceMoves
  <1>. QED BY <1>6, <1>10 DEF g, c

\* What was pending of another queue goes (#install).
LEMMA InstallIs ==
    ASSUME NEW d, DeviceType(d), NEW a, AnswerType(a), a.queue \in Queue
    PROVE  LET x == Install(d, a)
           IN  /\ DeviceType(x) /\ x.queue = a.queue /\ x.content = a.content /\ x.run = d.run
               /\ x.held = d.held /\ x.starting = d.starting
               /\ \A i \in DOMAIN x.pending : /\ i \in DOMAIN d.pending /\ x.pending[i] = d.pending[i]
                                              /\ x.pending[i].queue = a.queue
               /\ \A i \in DOMAIN d.pending \ DOMAIN x.pending :
                     d.pending[i].queue # a.queue /\ d.pending[i].edit \in x.reported
  <1>. DEFINE b == [d EXCEPT !.queue = a.queue, !.content = a.content]
              gone == {i \in DOMAIN d.pending : d.pending[i].queue # a.queue}
              x == Install(d, a)
  <1>1. /\ DOMAIN b = DOMAIN d /\ b.queue = a.queue /\ b.content = a.content /\ b.run = d.run
        /\ b.count = d.count /\ b.held = d.held /\ b.starting = d.starting /\ b.pending = d.pending
        /\ b.reported = d.reported /\ b.restoring = d.restoring /\ b.refetch = d.refetch
    BY DEF DeviceType
  <1>2. x = GiveUp(b, gone)
    BY <1>1 DEF Install
  <1>. HIDE DEF b, x
  <1>3. /\ DOMAIN x = DOMAIN d /\ x.queue = a.queue /\ x.content = a.content /\ x.run = d.run
        /\ x.count = d.count /\ x.held = d.held /\ x.starting = d.starting
        /\ x.restoring = d.restoring /\ x.refetch = d.refetch
        /\ x.pending = [i \in DOMAIN d.pending \ gone |-> d.pending[i]]
        /\ x.reported = d.reported \cup {d.pending[i].edit : i \in gone}
    BY <1>1, <1>2 DEF GiveUp, Restrict, DeviceType
  <1>4. DOMAIN x.pending = DOMAIN d.pending \ gone /\ \A i \in DOMAIN x.pending : x.pending[i] = d.pending[i]
    BY <1>3
  <1>5. \A i \in DOMAIN d.pending : d.pending[i] \in Pending /\ d.pending[i].edit \in OwnEdit
    BY DEF DeviceType, Pending
  <1>6. x.reported \subseteq OwnEdit
    BY <1>3, <1>5 DEF DeviceType
  <1>7. x.pending \in [DOMAIN x.pending -> Pending]
    BY <1>3, <1>4, <1>5
  <1>8. \A i \in DOMAIN x.pending : x.pending[i].queue = a.queue
    BY <1>4
  <1>9. \A i \in DOMAIN d.pending \ DOMAIN x.pending :
           d.pending[i].queue # a.queue /\ d.pending[i].edit \in x.reported
    BY <1>3, <1>4
  <1>10. a.queue # None /\ a.queue \in OfQueue /\ a.content \in Contents
    BY IdsAssumption DEF IdsAssumption, AnswerType
  <1>. HIDE DEF gone
  <1>11. DeviceType(x)
    BY <1>3, <1>4, <1>6, <1>7, <1>8, <1>10 DEF DeviceType
  <1>. QED BY <1>3, <1>4, <1>8, <1>9, <1>11 DEF x

\* A queue read is installed, its lists read (#install, #caughtUp).
LEMMA InstalledEnds ==
    ASSUME NEW d, NEW s, NEW h, NEW la, NEW ib, NEW md, NEW fg, Inv(d, s, h, la, ib, md, fg), Installs(h),
           NEW d2, Alike(d2, d), d2.held = <<>>, NEW ms \in {d.held, <<>>}, ms = <<>> \/ h.kind = "fetch"
    PROVE  LET c == CaughtUp(Install(d2, h.answer), ms)
           IN  Inv(c, s, NothingSent, la, ib, md, fg) /\ Tells(c, d, fg)
  <1>. DEFINE x == Install(d2, h.answer)
              c == CaughtUp(x, ms)
  <1>1. /\ DeviceType(d) /\ Reads(h) /\ Has(h, "ok") /\ d.run = h.answer.run
        /\ AnswerType(h.answer) /\ h.answer.queue \in Queue
    BY DEF Inv, Types, HttpType, Has, InStep, Installs
  <1>2. /\ DeviceType(x) /\ x.queue = h.answer.queue /\ x.content = h.answer.content /\ x.run = d2.run
        /\ x.held = d2.held /\ x.starting = d2.starting
        /\ \A i \in DOMAIN x.pending : /\ i \in DOMAIN d2.pending /\ x.pending[i] = d2.pending[i]
                                       /\ x.pending[i].queue = h.answer.queue
        /\ \A i \in DOMAIN d2.pending \ DOMAIN x.pending :
              d2.pending[i].queue # h.answer.queue /\ d2.pending[i].edit \in x.reported
    BY <1>1, InstallIs DEF Alike
  <1>. HIDE DEF x
  <1>3. /\ DeviceType(Left(x)) /\ Goes(Left(x), x) /\ Left(x).content = x.content
        /\ Left(x).reported = x.reported
        /\ \A i \in DOMAIN Left(x).pending : Sent(x.pending[i]) => x.pending[i].version > Version(x.content)
        /\ \A i \in DOMAIN x.pending \ DOMAIN Left(x).pending :
              Sent(x.pending[i]) /\ x.pending[i].version <= Version(x.content)
    BY <1>2, LeftGoes
  <1>4. /\ Left(x).queue = x.queue /\ Left(x).run = x.run /\ Left(x).held = <<>>
        /\ Left(x).starting \in {d.starting, None}
        /\ \A i \in DOMAIN Left(x).pending : i \in DOMAIN x.pending /\ Left(x).pending[i] = x.pending[i]
    BY <1>2, <1>3 DEF Goes, Alike
  <1>5. Inv(Left(x), s, NothingSent, la, ib, md, fg)
    <2>1. \A i \in DOMAIN Left(x).pending :
             /\ i \in DOMAIN d.pending /\ Left(x).pending[i] = d.pending[i]
             /\ Left(x).pending[i].queue = h.answer.queue
             /\ Sent(Left(x).pending[i]) => Left(x).pending[i].version > Version(h.answer.content)
      BY <1>2, <1>3, <1>4 DEF Alike
    <2>2. Left(x).run = d.run
      BY <1>2, <1>4 DEF Alike
    <2>. QED BY <1>2, <1>3, <1>4, <2>1, <2>2, InstalledMoves
  <1>6. /\ ms \in Seq(Message)
        /\ \A i \in DOMAIN ms : ms[i].edit \in Edit /\ ms[i].edit \in md \cup {Past} /\ ms[i].queue # None
        /\ x.run = s.run => \A i \in DOMAIN ms : IsSo(s, fg, ms[i])
    <2>1. CASE ms = <<>>
      BY <2>1
    <2>2. CASE ms = d.held /\ h.kind = "fetch"
      <3>1. x.run = h.answer.run
        BY <1>1, <1>2 DEF Alike
      <3>2. ms \in Seq(Message)
        BY <1>1, <2>2 DEF DeviceType
      <3>3. \A i \in DOMAIN ms : ms[i].edit \in Edit /\ ms[i].edit \in md \cup {Past} /\ ms[i].queue # None
        BY <2>2 DEF Inv, Types, KnownEdits
      <3>4. x.run = s.run => \A i \in DOMAIN ms : IsSo(s, fg, ms[i])
        BY <2>2, <3>1 DEF Inv, InStep
      <3>. QED BY <3>2, <3>3, <3>4
    <2>. QED BY <2>1, <2>2
  <1>. HIDE DEF c
  <1>7. Inv(c, s, NothingSent, la, ib, md, fg) /\ Follows(c, Left(x))
    BY <1>2, <1>5, <1>6, CaughtUpMoves DEF c
  <1>8. Tells(c, d, fg)
    <2>1. ASSUME NEW i \in DOMAIN d.pending
          PROVE  d.pending[i].edit \in Edits(c.pending) \cup ToSet(c.content.edits) \cup c.reported
              \cup fg.edits
      <3>0. d2.pending = d.pending
        BY DEF Alike
      <3>1. CASE i \notin DOMAIN x.pending
        <4>1. d.pending[i].edit \in x.reported
          BY <1>2, <3>0, <3>1
        <4>. QED BY <1>3, <1>7, <4>1 DEF Follows
      <3>2. CASE i \in DOMAIN x.pending /\ i \notin DOMAIN Left(x).pending
        <4>1. Sent(d.pending[i]) /\ d.pending[i].queue = h.answer.queue
          BY <1>2, <1>3, <3>0, <3>2
        <4>2. HasIt(d.pending[i], h.answer.content.edits, fg)
          BY <1>1, <4>1 DEF Inv, ReadsAnswered
        <4>3. x.content.edits \in Seq(Edit) /\ c.content.edits \in Seq(Edit)
          BY <1>2, <1>7 DEF Inv, Types, DeviceType, Contents
        <4>4. Prefix(x.content.edits, c.content.edits)
          BY <1>3, <1>7 DEF Follows, Goes
        <4>5. HasIt(d.pending[i], c.content.edits, fg)
          BY <1>2, <4>2, <4>3, <4>4, PrefixGoesOn DEF HasIt
        <4>. QED BY <4>3, <4>5, PrefixGoesOn DEF HasIt
      <3>3. CASE i \in DOMAIN Left(x).pending
        <4>1. Left(x).pending[i] = d.pending[i]
          BY <1>2, <1>4, <3>0, <3>3
        <4>2. CASE i \in DOMAIN c.pending
          BY <1>7, <4>1, <4>2 DEF Follows, Goes, Edits
        <4>3. CASE i \notin DOMAIN c.pending
          BY <1>7, <3>3, <4>1, <4>3 DEF Follows
        <4>. QED BY <4>2, <4>3
      <3>. QED BY <1>4, <3>1, <3>2, <3>3
    <2>. QED BY <2>1 DEF Tells
  <1>. QED BY <1>7, <1>8 DEF c, x

\* The end of a request leaves the queue as it is.
LEMMA EndedIs ==
    ASSUME NEW d, DeviceType(d)
    PROVE  /\ Alike([d EXCEPT !.restoring = None], d)
           /\ Alike([d EXCEPT !.held = <<>>], d) /\ [d EXCEPT !.held = <<>>].held = <<>>
  <1>. DEFINE r == [d EXCEPT !.restoring = None]
              e == [d EXCEPT !.held = <<>>]
  <1>1. /\ DOMAIN r = DOMAIN d /\ r.queue = d.queue /\ r.content = d.content
        /\ r.run = d.run /\ r.count = d.count /\ r.held = d.held
        /\ r.starting = d.starting /\ r.pending = d.pending /\ r.reported = d.reported
        /\ r.restoring = None /\ r.refetch = d.refetch
    BY DEF DeviceType
  <1>2. /\ DOMAIN e = DOMAIN d /\ e.queue = d.queue /\ e.content = d.content
        /\ e.run = d.run /\ e.count = d.count /\ e.held = <<>>
        /\ e.starting = d.starting /\ e.pending = d.pending /\ e.reported = d.reported
        /\ e.restoring = d.restoring /\ e.refetch = d.refetch
    BY DEF DeviceType
  <1>. HIDE DEF r, e
  <1>3. DeviceType(r)
    BY <1>1 DEF DeviceType, OfQueue
  <1>4. DeviceType(e)
    <2>1. <<>> \in Seq(Message)
      OBVIOUS
    <2>. QED BY <1>2, <2>1 DEF DeviceType
  <1>5. Alike(r, d) /\ Alike(e, d)
    BY <1>1, <1>2, <1>3, <1>4 DEF Alike
  <1>. QED BY <1>2, <1>5 DEF r, e

\* The request ends, and what is left of it is d2.
LEMMA EndsWith ==
    ASSUME QueueInv, UNCHANGED <<server, late, inbox, made, forgotten>>, NEW d2, Drain(d2),
           Inv(d2, server, NothingSent, late, inbox, made, forgotten), Tells(d2, device, forgotten)
    PROVE  QueueInv' /\ Tells(device', device, forgotten)
  <1>1. Inv(device', server, http', late, inbox, made, forgotten) /\ Tells(device', device, forgotten)
    BY DrainKeeps
  <1>. QED BY <1>1 DEF QueueInv

\* The lists of a restored queue are read (#sendRestore).
LEMMA RestoreInstalledKeeps ==
    ASSUME QueueInv, RestoreInstalled
    PROVE  QueueInv' /\ Tells(device', device, forgotten)
  <1>. DEFINE ended == [device EXCEPT !.restoring = None]
              c == CaughtUp(Install(ended, http.answer), <<>>)
  <1>1. /\ http.kind = "restore" /\ http.at = "installing"
        /\ UNCHANGED <<server, late, inbox, made, forgotten>>
        /\ Drain(IF http.stale THEN ended ELSE c)
    BY DEF RestoreInstalled, Loaded
  <1>2. Inv(device, server, http, late, inbox, made, forgotten) /\ DeviceType(device) /\ device.held = <<>>
    BY <1>1 DEF QueueInv, Inv, Types
  <1>3. Alike(ended, device)
    BY <1>2, EndedIs
  <1>. HIDE DEF ended
  <1>4. CASE http.stale
    <2>1. DeviceType(ended) /\ Follows(ended, device) /\ ended.content = device.content
      BY <1>3, AlikeFollows DEF Alike
    <2>2. Inv(ended, server, NothingSent, late, inbox, made, forgotten) /\ Tells(ended, device, forgotten)
      BY <1>1, <1>2, <1>4, <2>1, StayEnds DEF Installs
    <2>. QED BY <1>1, <1>4, <2>2, EndsWith
  <1>5. CASE ~http.stale
    <2>1. Installs(http) /\ ended.held = <<>>
      BY <1>1, <1>2, <1>3, <1>5 DEF Installs, Alike
    <2>2. Inv(c, server, NothingSent, late, inbox, made, forgotten) /\ Tells(c, device, forgotten)
      BY <1>2, <1>3, <2>1, InstalledEnds
    <2>. QED BY <1>1, <1>5, <2>2, EndsWith
  <1>. QED BY <1>4, <1>5

\* Those of a fetched one are (#fetchQueue).
LEMMA FetchInstalledKeeps ==
    ASSUME QueueInv, FetchInstalled
    PROVE  QueueInv' /\ Tells(device', device, forgotten)
  <1>. DEFINE ended == [device EXCEPT !.held = <<>>]
              c == CaughtUp(Install(ended, http.answer), device.held)
  <1>1. /\ http.kind = "fetch" /\ http.at = "installing" /\ UNCHANGED <<server, late, inbox, made, forgotten>>
        /\ Drain(IF http.stale THEN ended ELSE c)
    BY DEF FetchInstalled, Loaded
  <1>2. Inv(device, server, http, late, inbox, made, forgotten) /\ DeviceType(device)
    BY DEF QueueInv, Inv, Types
  <1>3. Alike(ended, device) /\ ended.held = <<>>
    BY <1>2, EndedIs
  <1>. HIDE DEF ended
  <1>4. CASE http.stale
    <2>1. DeviceType(ended) /\ Follows(ended, device) /\ ended.content = device.content
      BY <1>3, AlikeFollows DEF Alike
    <2>2. Inv(ended, server, NothingSent, late, inbox, made, forgotten) /\ Tells(ended, device, forgotten)
      BY <1>2, <1>3, <1>4, <2>1, StayEnds DEF Installs
    <2>. QED BY <1>1, <1>4, <2>2, EndsWith
  <1>5. CASE ~http.stale
    <2>1. Installs(http)
      BY <1>1, <1>5 DEF Installs
    <2>2. Inv(c, server, NothingSent, late, inbox, made, forgotten) /\ Tells(c, device, forgotten)
      BY <1>1, <1>2, <1>3, <2>1, InstalledEnds
    <2>. QED BY <1>1, <1>5, <2>2, EndsWith
  <1>. QED BY <1>4, <1>5

\* The account has no queue (#clear).
LEMMA ClearIs ==
    ASSUME NEW d, DeviceType(d)
    PROVE  LET c == Clear(d)
           IN  /\ DeviceType(c) /\ c.content.edits = <<>> /\ DOMAIN c.pending = {}
               /\ c.run = d.run /\ c.held = d.held /\ c.starting = d.starting
               /\ \A i \in DOMAIN d.pending : d.pending[i].edit \in c.reported
  <1>. DEFINE fresh == Fresh(FALSE, "viewed")
              b == [d EXCEPT !.queue = None, !.content = fresh]
              c == Clear(d)
  <1>1. fresh \in Contents /\ fresh.edits = <<>>
    BY FreshContent
  <1>. HIDE DEF fresh
  <1>2. /\ DOMAIN b = DOMAIN d /\ b.queue = None /\ b.content = fresh /\ b.run = d.run
        /\ b.count = d.count /\ b.held = d.held /\ b.starting = d.starting /\ b.pending = d.pending
        /\ b.reported = d.reported /\ b.restoring = d.restoring /\ b.refetch = d.refetch
    BY DEF DeviceType
  <1>3. c = GiveUp(b, DOMAIN d.pending)
    BY DEF Clear, fresh
  <1>. HIDE DEF b, c
  <1>4. /\ DOMAIN c = DOMAIN d /\ c.queue = None /\ c.content = fresh /\ c.run = d.run
        /\ c.count = d.count /\ c.held = d.held /\ c.starting = d.starting
        /\ c.restoring = d.restoring /\ c.refetch = d.refetch
        /\ DOMAIN c.pending = {} /\ c.pending \in [{} -> Pending]
        /\ c.reported = d.reported \cup {d.pending[i].edit : i \in DOMAIN d.pending}
    BY <1>2, <1>3 DEF GiveUp, Restrict, DeviceType
  <1>5. c.reported \subseteq OwnEdit
    BY <1>4 DEF DeviceType, Pending
  <1>6. DeviceType(c)
    BY <1>1, <1>4, <1>5 DEF DeviceType, OfQueue
  <1>. QED BY <1>1, <1>4, <1>6 DEF c

\* What is confirmed is still the server's queue (304).
LEMMA SameEnds ==
    ASSUME QueueInv, http.kind = "fetch", http.at = "answered", ~http.stale, Is({"same"})
    PROVE  LET c == CaughtUp([device EXCEPT !.held = <<>>, !.run = http.answer.run], device.held)
           IN  Inv(c, server, NothingSent, late, inbox, made, forgotten) /\ Tells(c, device, forgotten)
  <1>. DEFINE x == [device EXCEPT !.held = <<>>, !.run = http.answer.run]
              ms == device.held
              c == CaughtUp(x, ms)
  <1>1. /\ Inv(device, server, http, late, inbox, made, forgotten) /\ DeviceType(device) /\ Has(http, "same")
        /\ ~Installs(http)
    BY DEF QueueInv, Inv, Types, Is, Has, Installs
  <1>2. http.answer.run = device.run
    BY <1>1 DEF Inv, Sames
  <1>3. /\ DOMAIN x = DOMAIN device /\ x.queue = device.queue /\ x.content = device.content
        /\ x.run = device.run /\ x.count = device.count /\ x.held = <<>>
        /\ x.starting = device.starting /\ x.pending = device.pending /\ x.reported = device.reported
        /\ x.restoring = device.restoring /\ x.refetch = device.refetch
    BY <1>1, <1>2 DEF DeviceType
  <1>. HIDE DEF x
  <1>4. DeviceType(x)
    <2>1. <<>> \in Seq(Message)
      OBVIOUS
    <2>. QED BY <1>1, <1>3, <2>1 DEF DeviceType
  <1>5. /\ DeviceType(Left(x)) /\ Goes(Left(x), x) /\ Left(x).content = x.content
        /\ Left(x).reported = x.reported
        /\ \A i \in DOMAIN x.pending \ DOMAIN Left(x).pending :
              Sent(x.pending[i]) /\ x.pending[i].version <= Version(x.content)
    BY <1>4, LeftGoes
  <1>6. Goes(Left(x), device) /\ Left(x).held = <<>>
    BY <1>3, <1>5 DEF Goes
  <1>7. Inv(Left(x), server, NothingSent, late, inbox, made, forgotten)
    <2>1. ToSet(Left(x).content.edits) \subseteq made \cup {Past}
      BY <1>1, <1>3, <1>5 DEF Inv, KnownEdits
    <2>2. Left(x).content = device.content
      BY <1>3, <1>5
    <2>3. Behind(server, forgotten, device.run, device.queue, Left(x).content.edits)
      BY <1>1, <2>2 DEF Inv, InStep
    <2>4. Reads(http) /\ http.stale => Left(x).content.edits = <<>>
      OBVIOUS
    <2>5. Inv(Left(x), server, http, late, inbox, made, forgotten)
      BY <1>1, <1>5, <1>6, <2>1, <2>2, <2>3, <2>4, DeviceMoves
    <2>. QED BY <1>1, <1>6, <2>5, Forget
  <1>8. /\ ms \in Seq(Message)
        /\ \A i \in DOMAIN ms : ms[i].edit \in Edit /\ ms[i].edit \in made \cup {Past} /\ ms[i].queue # None
        /\ x.run = server.run => \A i \in DOMAIN ms : IsSo(server, forgotten, ms[i])
    BY <1>1, <1>2, <1>3 DEF Inv, Types, KnownEdits, DeviceType, InStep
  <1>. HIDE DEF ms, c
  <1>9. Inv(c, server, NothingSent, late, inbox, made, forgotten) /\ Follows(c, Left(x))
    BY <1>4, <1>7, <1>8, CaughtUpMoves DEF c
  <1>10. Tells(c, device, forgotten)
    <2>1. ASSUME device.queue \notin forgotten.queues, NEW i \in DOMAIN device.pending
          PROVE  device.pending[i].edit \in Edits(c.pending) \cup ToSet(c.content.edits) \cup c.reported
                                             \cup forgotten.edits
      <3>1. CASE i \in DOMAIN Left(x).pending
        <4>1. Left(x).pending[i] = device.pending[i]
          BY <1>6, <3>1 DEF Goes
        <4>2. CASE i \in DOMAIN c.pending
          BY <1>9, <4>1, <4>2 DEF Follows, Goes, Edits
        <4>3. CASE i \notin DOMAIN c.pending
          BY <1>9, <3>1, <4>1, <4>3 DEF Follows
        <4>. QED BY <4>2, <4>3
      <3>2. CASE i \notin DOMAIN Left(x).pending
        <4>1. Sent(device.pending[i])
          BY <1>3, <1>5, <2>1, <3>2
        <4>2. HasIt(device.pending[i], device.content.edits, forgotten)
          BY <1>1, <2>1, <4>1 DEF Inv, Sames
        <4>3. device.content.edits \in Seq(Edit) /\ c.content.edits \in Seq(Edit)
          BY <1>1, <1>9 DEF Inv, Types, DeviceType, Contents
        <4>4. Prefix(device.content.edits, c.content.edits)
          BY <1>3, <1>5, <1>9 DEF Follows, Goes
        <4>5. HasIt(device.pending[i], c.content.edits, forgotten)
          BY <4>2, <4>3, <4>4, PrefixGoesOn DEF HasIt
        <4>. QED BY <4>3, <4>5, PrefixGoesOn DEF HasIt
      <3>. QED BY <3>1, <3>2
    <2>. QED BY <2>1 DEF Tells
  <1>. QED BY <1>9, <1>10 DEF c, x, ms

\* A fetch is answered (#fetchQueue).
LEMMA FetchAnsweredKeeps ==
    ASSUME QueueInv, FetchAnswered
    PROVE  QueueInv' /\ Tells(device', device, forgotten)
  <1>. DEFINE ended == [device EXCEPT !.held = <<>>]
              same == [ended EXCEPT !.run = http.answer.run]
              lost == [ended EXCEPT !.refetch = TRUE]
  <1>1. /\ http.kind = "fetch" /\ http.at = "answered" /\ UNCHANGED <<server, late, inbox, made, forgotten>>
        /\ IF http.stale THEN Drain(ended)
           ELSE IF Is({"ok"}) THEN Installing /\ device' = [device EXCEPT !.run = http.answer.run]
           ELSE Drain(IF Is({"lost"}) THEN lost
                      ELSE IF Is({"missing"}) THEN Clear(ended)
                      ELSE CaughtUp(same, device.held))
    BY DEF FetchAnswered, Back
  <1>2. /\ Inv(device, server, http, late, inbox, made, forgotten) /\ DeviceType(device) /\ HttpType(http)
        /\ ~Installs(http)
    BY <1>1 DEF QueueInv, Inv, Types, Installs
  <1>3. Alike(ended, device) /\ ended.held = <<>>
    BY <1>2, EndedIs
  <1>4. same = [device EXCEPT !.held = <<>>, !.run = http.answer.run]
    BY <1>2 DEF DeviceType
  <1>. HIDE DEF ended, same
  <1>5. DeviceType(ended) /\ Follows(ended, device) /\ ended.content = device.content
    BY <1>3, AlikeFollows DEF Alike
  <1>6. CASE http.stale
    <2>1. Inv(ended, server, NothingSent, late, inbox, made, forgotten) /\ Tells(ended, device, forgotten)
      BY <1>2, <1>3, <1>5, StayEnds
    <2>. QED BY <1>1, <1>6, <2>1, EndsWith
  <1>7. CASE ~http.stale /\ Is({"ok"})
    <2>1. Inv(device', server, http', late, inbox, made, forgotten) /\ Tells(device', device, forgotten)
      BY <1>1, <1>7, InstallingTells DEF Reads
    <2>. QED BY <1>1, <2>1 DEF QueueInv
  <1>8. CASE ~http.stale /\ ~Is({"ok"}) /\ Is({"lost"})
    <2>1. DeviceType(lost) /\ Follows(lost, ended) /\ lost.content = ended.content
      BY <1>5, FetchLater
    <2>2. lost.held = <<>>
      BY <1>3, <1>5 DEF DeviceType
    <2>. HIDE DEF lost
    <2>3. Follows(lost, device)
      BY <1>2, <1>5, <2>1, FollowsOn
    <2>4. Inv(lost, server, NothingSent, late, inbox, made, forgotten) /\ Tells(lost, device, forgotten)
      BY <1>2, <1>5, <2>1, <2>2, <2>3, StayEnds
    <2>. QED BY <1>1, <1>8, <2>4, EndsWith
  <1>9. CASE ~http.stale /\ ~Is({"ok"}) /\ ~Is({"lost"}) /\ Is({"missing"})
    <2>. DEFINE c == Clear(ended)
    <2>1. /\ DeviceType(c) /\ c.content.edits = <<>> /\ DOMAIN c.pending = {}
          /\ c.run = ended.run /\ c.held = ended.held /\ c.starting = ended.starting
          /\ \A i \in DOMAIN ended.pending : ended.pending[i].edit \in c.reported
      BY <1>5, ClearIs
    <2>. HIDE DEF c
    <2>2. c.run = device.run /\ c.held = <<>> /\ c.starting \in {device.starting, None}
      BY <1>3, <2>1 DEF Alike
    <2>3. Inv(c, server, NothingSent, late, inbox, made, forgotten)
      BY <1>2, <2>1, <2>2, ClearMoves
    <2>4. Tells(c, device, forgotten)
      BY <1>3, <2>1 DEF Tells, Alike
    <2>5. Drain(c)
      BY <1>1, <1>9 DEF c
    <2>. QED BY <1>1, <2>3, <2>4, <2>5, EndsWith
  <1>10. CASE ~http.stale /\ ~Is({"ok"}) /\ ~Is({"lost"}) /\ ~Is({"missing"})
    <2>1. Is({"same"})
      BY <1>1, <1>2, <1>10 DEF HttpType, Is
    <2>2. /\ Inv(CaughtUp(same, device.held), server, NothingSent, late, inbox, made, forgotten)
          /\ Tells(CaughtUp(same, device.held), device, forgotten)
      BY <1>1, <1>4, <1>10, <2>1, SameEnds
    <2>. QED BY <1>1, <1>10, <2>2, EndsWith
  <1>. QED BY <1>6, <1>7, <1>8, <1>9, <1>10

-----------------------------------------------------------------------------
\* A page just opened has nothing.
LEMMA InitHolds ==
    ASSUME QueueInit
    PROVE  QueueInv
  <1>1. PICK active \in {None, Older, First} :
           LET kept == IF active = None THEN {} ELSE {active, Older}
           IN  server = [run |-> 1, active |-> First, done |-> <<>>, telling |-> {},
                         saved |-> [active |-> active, queues |-> AtFirst(kept)],
                         queues |-> AtFirst(kept \cup {First})]
    BY DEF QueueInit
  <1>. DEFINE kept == IF active = None THEN {} ELSE {active, Older}
              c == Fresh(FALSE, "viewed")
  <1>2. /\ DOMAIN server = {"run", "active", "done", "telling", "saved", "queues"}
        /\ server.run = 1 /\ server.active = First /\ server.done = <<>>
        /\ DOMAIN server.saved = {"active", "queues"} /\ server.saved.active = active
        /\ server.saved.queues = AtFirst(kept) /\ server.queues = AtFirst(kept \cup {First})
    BY <1>1
  <1>3. kept \subseteq Queue /\ First \in Queue /\ First # None /\ active \in kept \cup {None}
        /\ kept \subseteq {First, Older}
    BY IdsAssumption DEF IdsAssumption, Queue
  <1>4. c \in Contents /\ c.edits = <<>> /\ ToSet(c.edits) = {} /\ DOMAIN <<>> = {}
    <2>1. c \in Contents /\ c.edits = <<>> /\ ToSet(c.edits) = {}
      BY FreshContent
    <2>2. DOMAIN <<>> = {}
      OBVIOUS
    <2>. QED BY <2>1, <2>2
  <1>. HIDE DEF kept
  <1>5. ASSUME NEW es \in {<<>>, <<Past>>}
        PROVE  /\ es \in Seq(Edit) /\ ToSet(es) \subseteq {Past} /\ Prefix(es, es)
    <2>1. es \in Seq(Edit)
      <3>1. Past \in Edit
        BY DEF Edit
      <3>2. <<>> \in Seq(Edit) /\ <<Past>> \in Seq(Edit)
        BY <3>1
      <3>. QED BY <3>2
    <2>2. ToSet(es) \subseteq {Past}
      BY <1>5 DEF ToSet
    <2>. QED BY <2>1, <2>2, PrefixGoesOn
  <1>6. ASSUME NEW queues \in SUBSET Queue, NEW q \in queues
        PROVE  /\ AtFirst(queues)[q] = [c EXCEPT !.edits = IF q = Older THEN <<Past>> ELSE <<>>]
               /\ AtFirst(queues)[q] \in Contents /\ AtFirst(queues)[q].edits \in {<<>>, <<Past>>}
    <2>1. AtFirst(queues)[q] = [c EXCEPT !.edits = IF q = Older THEN <<Past>> ELSE <<>>]
      BY DEF AtFirst
    <2>. HIDE DEF c
    <2>2. (IF q = Older THEN <<Past>> ELSE <<>>) \in {<<>>, <<Past>>}
      OBVIOUS
    <2>3. (IF q = Older THEN <<Past>> ELSE <<>>) \in Seq(Edit)
      BY <1>5, <2>2
    <2>. QED BY <1>4, <2>1, <2>2, <2>3 DEF Contents
  <1>7. \A queues : DOMAIN AtFirst(queues) = queues
    BY DEF AtFirst
  <1>. HIDE DEF c
  <1>8. ServerType(server)
    <2>1. IsQueues(server.queues) /\ IsQueues(server.saved.queues)
      <3>1. ASSUME NEW queues \in SUBSET Queue PROVE IsQueues(AtFirst(queues))
        BY <1>6, <1>7 DEF IsQueues
      <3>2. kept \in SUBSET Queue /\ kept \cup {First} \in SUBSET Queue
        BY <1>3
      <3>. QED BY <1>2, <3>1, <3>2
    <2>2. \A q \in DOMAIN server.saved.queues : Prefix(server.saved.queues[q].edits, server.queues[q].edits)
      <3>1. ASSUME NEW q \in kept PROVE AtFirst(kept)[q] = AtFirst(kept \cup {First})[q]
        BY <1>3, <1>6, <3>1
      <3>2. \A q \in kept : AtFirst(kept)[q].edits \in {<<>>, <<Past>>}
        BY <1>3, <1>6
      <3>. QED BY <1>2, <1>5, <1>7, <3>1, <3>2
    <2>3. server.done \in Seq([edit : Edit, version : Nat]) /\ server.run \in Nat \ {0}
      BY <1>2
    <2>4. server.active \in DOMAIN server.queues \cup {None}
              /\ DOMAIN server.saved.queues \subseteq DOMAIN server.queues
          /\ server.saved.active \in DOMAIN server.saved.queues \cup {None}
      BY <1>2, <1>3, <1>7
    <2>. QED BY <1>2, <2>1, <2>2, <2>3, <2>4 DEF ServerType
  <1>9. /\ device = [queue |-> None, content |-> c, run |-> 0,
                     pending |-> [i \in {} |-> None], count |-> 0, refetch |-> FALSE, held |-> <<>>,
                     starting |-> None, restoring |-> None, reported |-> {}]
        /\ http = NothingSent /\ late = {} /\ inbox = <<>> /\ made = {}
        /\ forgotten = [edits |-> {}, queues |-> {}]
    BY DEF QueueInit, c
  <1>10. /\ DOMAIN device = {"queue", "content", "run", "pending", "count", "refetch", "held", "starting",
                             "restoring", "reported"}
         /\ device.queue = None /\ device.content = c /\ device.run = 0 /\ device.count = 0
         /\ DOMAIN device.pending = {} /\ device.pending \in [{} -> Pending] /\ device.refetch \in BOOLEAN
         /\ device.held = <<>> /\ device.starting = None /\ device.restoring = None /\ device.reported = {}
    BY <1>9
  <1>11. DeviceType(device)
    <2>1. <<>> \in Seq(Message)
      OBVIOUS
    <2>. QED BY <1>4, <1>10, <2>1 DEF DeviceType, OfQueue
  <1>12. /\ HttpType(http) /\ http.kind = "none" /\ http.at = "idle" /\ ~http.stale /\ http.answer.run = 0
         /\ ToSet(http.answer.content.edits) = {} /\ ~Reads(http)
    BY <1>9, NothingSentIs DEF Reads
  <1>13. \A e, q : ~Asks(device, http, late, e, q)
    BY <1>9, <1>10, <1>12 DEF Asks
  <1>14. Types(device, server, http, late, inbox, made, forgotten)
    <2>1. InboxType(inbox) /\ LateType(late)
      BY <1>4, <1>9 DEF InboxType, LateType
    <2>2. DOMAIN forgotten = {"edits", "queues"}
      BY <1>9
    <2>. QED BY <1>2, <1>4, <1>8, <1>9, <1>10, <1>11, <1>12, <2>1, <2>2 DEF Types
  <1>15. KnownEdits(device, server, http, late, inbox, made)
    <2>1. \A q \in DOMAIN server.queues : ToSet(server.queues[q].edits) \subseteq {Past}
      <3>1. kept \cup {First} \in SUBSET Queue
        BY <1>3
      <3>2. \A q \in kept \cup {First} : AtFirst(kept \cup {First})[q].edits \in {<<>>, <<Past>>}
        BY <1>6, <3>1
      <3>. QED BY <1>2, <1>5, <1>7, <3>2
    <2>. QED BY <1>2, <1>4, <1>9, <1>10, <1>12, <1>13, <2>1 DEF KnownEdits
  <1>16. KnownQueues(device, server, http, late, inbox, made)
    BY <1>2, <1>3, <1>4, <1>7, <1>9, <1>10, <1>12 DEF KnownQueues
  <1>17. OneQueue(device, http, late) /\ Places(device, server, http, late, forgotten)
    BY <1>2, <1>4, <1>10, <1>12, <1>13 DEF OneQueue, Places
  <1>18. /\ NotYet(device, server, http, late) /\ ReadsAnswered(device, http, forgotten)
         /\ Once(device, forgotten) /\ Overtakes(device, server, http, late, inbox)
         /\ Sames(device, http, forgotten)
    BY <1>10, <1>12 DEF NotYet, ReadsAnswered, Once, Overtakes, Sames, Edits
  <1>19. InStep(device, server, http, inbox, forgotten)
    BY <1>2, <1>4, <1>9, <1>10, <1>12 DEF InStep, Behind
  <1>. QED BY <1>14, <1>15, <1>16, <1>17, <1>18, <1>19 DEF QueueInv, Inv

\* Every step keeps the invariant and leaves no pending edit out.
LEMMA StepKeeps ==
    ASSUME QueueInv, QueueNext
    PROVE  QueueInv' /\ Tells(device', device, forgotten)
  <1>1. ASSUME device' = device, QueueInv'
        PROVE  QueueInv' /\ Tells(device', device, forgotten)
    BY <1>1 DEF Tells, Edits
  <1>2. CASE \E e \in OwnEdit : UserEdit(e)
    BY <1>2, UserEditKeeps
  <1>3. CASE \E q \in Own : UserStart(q)
    BY <1>3, UserStartKeeps
  <1>4. CASE \E q \in Queue : UserRestore(q)
    BY <1>4, UserRestoreKeeps
  <1>5. CASE Serve \/ RefuseStart
    <2>1. QueueInv'
      BY <1>5, ServeEditKeeps, ServeStartKeeps, ServeRestoreKeeps, ServeFetchKeeps, ToldKeeps DEF Serve
    <2>2. device' = device
      BY <1>5 DEF Serve, ServeEdit, ServeStart, RefuseStart, ServeRestore, ServeFetch, Told, Elsewhere
    <2>. QED BY <1>1, <2>1, <2>2
  <1>6. CASE Lose
    BY <1>1, <1>6, LoseKeeps DEF Lose
  <1>7. CASE \E r \in late : Arrive(r)
    BY <1>1, <1>7, ArriveKeeps DEF Arrive
  <1>8. CASE \E e \in OtherEdit : OtherEdits(e)
    BY <1>1, <1>8, OtherEditsKeeps DEF OtherEdits, Aside
  <1>9. CASE \E q \in Others : OtherStarts(q)
    BY <1>1, <1>9, OtherStartsKeeps DEF OtherStarts, Aside
  <1>10. CASE \E q \in Queue : OtherRestores(q)
    BY <1>1, <1>10, OtherRestoresKeeps DEF OtherRestores, Aside
  <1>11. CASE \E q \in Queue : Announce(q) \/ HangUp(q)
    BY <1>1, <1>11, AnnounceKeeps DEF Announce, HangUp, Aside
  <1>12. CASE Save
    BY <1>1, <1>12, SaveKeeps DEF Save
  <1>13. CASE Disconnect \/ Reconnect
    BY <1>1, <1>13, ConnectionKeeps DEF Disconnect, Reconnect
  <1>14. CASE Restart
    BY <1>1, <1>14, RestartKeeps DEF Restart
  <1>15. CASE Hear
    BY <1>15, HearKeeps
  <1>16. CASE Take
    BY <1>16, StartAnsweredKeeps, EditAnsweredKeeps, RestoreAnsweredKeeps, RestoreInstalledKeeps,
       FetchAnsweredKeeps, FetchInstalledKeeps DEF Take
  <1>. QED
    BY <1>2, <1>3, <1>4, <1>5, <1>6, <1>7, <1>8, <1>9, <1>10, <1>11, <1>12, <1>13, <1>14, <1>15, <1>16
       DEF QueueNext

\* A step of none of these leaves it.
LEMMA StillHolds ==
    ASSUME QueueInv, UNCHANGED clientVars
    PROVE  QueueInv'
  BY DEF QueueInv, clientVars

(***************************************************************************)
(* The invariant of the device's queue (store.ts) and the server's (queue. *)
(* rs): above all, that what a message, an answer or a fetch says of an    *)
(* edit's place in a queue is so, or the edit or the queue is one a crash  *)
(* or a save has lost; that a fetch or restore is not under way while the  *)
(* server may have an edit the page has no answer for; and that a start    *)
(* which overtakes a read is of a queue the server does not have.          *)
(***************************************************************************)
THEOREM QueueInvariant == QueueSpec => []QueueInv
  <1>1. QueueInit => QueueInv
    BY InitHolds
  <1>2. QueueInv /\ [QueueNext]_clientVars => QueueInv'
    BY StepKeeps, StillHolds
  <1>. QED BY <1>1, <1>2, PTL DEF QueueSpec

(***************************************************************************)
(* An edit of the device's is never replayed over a queue that has it      *)
(* (#rebuild, #confirm, #caughtUp), but for one a crash of the server lost *)
(* and a retry made again.                                                 *)
(***************************************************************************)
THEOREM EditsAreShownOnce == QueueSpec => []ShownOnce
  <1>1. QueueInv => ShownOnce
    BY DEF QueueInv, Inv, Once, ShownOnce
  <1>. QED BY <1>1, QueueInvariant, PTL

(***************************************************************************)
(* No edit of the device's goes unsaid: one that is not pending any more   *)
(* is in the queue shown, or the user is told (#drop), but for a repeat    *)
(* change a start made again and what a crash of the server lost; unless   *)
(* the queue is one a save of the account let go of.                       *)
(***************************************************************************)
THEOREM NothingGoesUnsaid == QueueSpec => NothingVanishes
  <1>. DEFINE A == device.queue \notin forgotten.queues => Gone \subseteq Shown \cup forgotten.edits
  <1>1. QueueInv /\ [QueueNext]_clientVars => [A]_clientVars
    <2>1. ASSUME QueueInv, QueueNext PROVE A
      <3>1. Tells(device', device, forgotten)
        BY <2>1, StepKeeps
      <3>2. ASSUME device.queue \notin forgotten.queues, NEW e \in Gone
            PROVE  e \in Shown \cup forgotten.edits
        <4>1. PICK i \in DOMAIN device.pending : e = device.pending[i].edit
          BY <3>2 DEF Gone, Edits
        <4>2. e \notin Edits(device'.pending)
          BY <3>2 DEF Gone
        <4>. QED BY <3>1, <3>2, <4>1, <4>2 DEF Tells, Shown
      <3>. QED BY <3>2
    <2>. QED BY <2>1
  <1>2. QueueSpec => [][A]_clientVars
    BY <1>1, QueueInvariant, PTL DEF QueueSpec
  <1>. QED BY <1>2 DEF NothingVanishes

-----------------------------------------------------------------------------
(***************************************************************************)
(* A device left alone shows the server's queue.  Of a device that does    *)
(* not yet, something is on its way (Catches): a fetch (Fetches), a start  *)
(* of its own (Awaits), or the messages and answers that tell it the rest  *)
(* or alarm it (Settles).  Each step of the server's lengthens what is to  *)
(* be heard by as much as it moves its queue on; each of the device's      *)
(* takes from it what it has made its own, or leaves it to be fetched.     *)
(***************************************************************************)
\* The queues the handlers of starts and restores have still to announce.
Calls(s, h) == s.telling \cup {q \in {h.queue} : h.at = "applied"}

\* Another queue than q is announced, in a message after the k-th at the earliest.
NamesOther(m, q) == m.type = "queueReplaced" /\ m.queue # q
Alarm(q, calls, ib, k) ==
    \/ \E x \in calls : x # q
    \/ \E i \in DOMAIN ib : i > k /\ NamesOther(ib[i], q)

\* Queue q with the edits es is the server's, less edits whose messages come or are held (ms).
TellsOf(m, q, v) == m.type = "queueEdit" /\ m.queue = q /\ m.version = v
Comes(q, v, ms, ib, k) ==
    \/ \E i \in DOMAIN ms : TellsOf(ms[i], q, v)
    \/ \E i \in DOMAIN ib : i > k /\ TellsOf(ib[i], q, v)
Current(q, es, s, ms, ib, k, fg) ==
    /\ q = s.active
    /\ q \notin fg.queues =>
          /\ Prefix(es, EditsIn(s, q))
          /\ \A v \in Len(es) + 1 .. Len(EditsIn(s, q)) : Comes(q, v, ms, ib, k)
Soon(q, es, s, calls, ms, ib, k, fg) == Alarm(q, calls, ib, k) \/ Current(q, es, s, ms, ib, k, fg)

\* A fetch comes: after a reconnect, because of what was heard, or sent and not answered.
Reading(h) == h.kind = "fetch" /\ ~h.stale
Fetches(d, h, ib, c) ==
    \/ ~c \/ d.refetch
    \/ \E i \in DOMAIN ib : ib[i].type = "hello"
    \/ Reading(h) /\ (h.at = "sent" \/ Has(h, "lost"))

\* A start comes that the server has not seen.
Awaits(d, s, h, fg) ==
    /\ d.starting # None /\ d.starting \notin DOMAIN s.queues
    /\ d.starting \in fg.queues \/ d.content.edits = <<>>
    /\ h.kind = "start" /\ h.queue = d.starting => h.at # "applied" /\ ~Has(h, "ok")

\* What the device shows, or is about to.
Aim(d, h) ==
    IF Reading(h) /\ Has(h, "ok") THEN [queue |-> h.answer.queue, edits |-> h.answer.content.edits]
    ELSE IF Reading(h) /\ Has(h, "missing") THEN [queue |-> None, edits |-> <<>>]
    ELSE [queue |-> d.queue, edits |-> d.content.edits]
Rest(d, s, fg) ==
    d.queue \notin fg.queues =>
        \A i \in DOMAIN d.pending :
            /\ d.pending[i].edit \notin ToSet(d.content.edits)
            /\ Sent(d.pending[i]) => Applied(EditsIn(s, d.queue), d.pending[i].edit, d.pending[i].version)
\* A restore's answer is of the queue announced, or of one announced later.
Restores(d, s, h, ib, fg) ==
    h.kind = "restore" /\ ~h.stale =>
        IF h.queue = d.queue
        THEN /\ h.at = "applied" \/ Has(h, "ok") => Alarm(d.queue, Calls(s, h), ib, 0)
             /\ Has(h, "ok") => h.answer.queue = d.queue
        ELSE Has(h, "ok") =>
                \E k \in DOMAIN ib :
                    /\ ib[k].type = "queueReplaced" /\ ib[k].queue = h.queue
                    /\ Soon(h.answer.queue, h.answer.content.edits, s, Calls(s, h), <<>>, ib, k, fg)
Answers(d, s, h, fg) ==
    h.kind = "edit" /\ (Has(h, "applied") \/ Has(h, "again"))
        /\ h.edit \in Edits(d.pending) /\ h.queue \notin fg.queues
    => Applied(EditsIn(s, h.queue), h.edit, h.answer.version)
Settles(d, s, h, ib, fg) ==
    /\ Soon(Aim(d, h).queue, Aim(d, h).edits, s, Calls(s, h), d.held, ib, 0, fg)
    /\ Reading(h) \/ Alarm(d.queue, Calls(s, h), ib, 0) \/ Rest(d, s, fg)
    /\ Reading(h) /\ (Has(h, "ok") \/ Has(h, "same")) => h.answer.run = s.run
    /\ Restores(d, s, h, ib, fg)
    /\ Answers(d, s, h, fg)
Catches(d, s, h, ib, c, fg) == Fetches(d, h, ib, c) \/ Awaits(d, s, h, fg) \/ Settles(d, s, h, ib, fg)

\* Nothing is left to send.
Drained(d, h) == h.kind = "none" => h = NothingSent /\ Work(d) = NothingSent
Starts(d, h) ==
    d.starting # None =>
        /\ d.queue = d.starting
        /\ \A i \in DOMAIN d.pending : ~Sent(d.pending[i])
        /\ h.kind = "edit" => h.edit \notin Edits(d.pending)
        /\ Reads(h) => h.stale
Remembers(d, s, h, la, fg) ==
    \A i \in DOMAIN s.done : \A q \in Queue :
        Asks(d, h, la, s.done[i].edit, q)
        => q \in fg.queues \/ Applied(EditsIn(s, q), s.done[i].edit, s.done[i].version)

Quiet(d, s, h, la, ib, c, fg, ms) ==
    /\ Starts(d, h) /\ Remembers(d, s, h, la, fg)
    /\ ms \in BOOLEAN /\ (ms \/ Catches(d, s, h, ib, c, fg))
QuietInv ==
    /\ QueueInv /\ Drained(device, http)
    /\ Quiet(device, server, http, late, inbox, connected, forgotten, missed)

-----------------------------------------------------------------------------
\* The account goes on: what is new of it is announced, or a message tells it.
Lengthens(s, ib, s2, ib2, q) ==
    /\ Prefix(EditsIn(s, q), EditsIn(s2, q))
    /\ \A v \in Len(EditsIn(s, q)) + 1 .. Len(EditsIn(s2, q)) :
          \E i \in DOMAIN ib2 : i > Len(ib) /\ TellsOf(ib2[i], q, v)
Grows(s, calls, ib, fg, s2, calls2, ib2, fg2) ==
    /\ ServerType(s) /\ ServerType(s2) /\ s2.run = s.run
    /\ ib \in Seq(Message) /\ ib2 \in Seq(Message)
    /\ fg.queues \subseteq fg2.queues
    /\ \A i \in DOMAIN ib : i \in DOMAIN ib2 /\ ib2[i] = ib[i]
    /\ \A x \in calls : x \in calls2 \/ \E i \in DOMAIN ib2 : i > Len(ib) /\ ib2[i] = Replaced(x)
    /\ s2.active = s.active \/ s2.active \in calls2
    /\ \A q : q \in fg2.queues \/ Lengthens(s, ib, s2, ib2, q)

\* An alarm stays, and a queue that is the server's or soon told not to be goes on so.
LEMMA GrowsOn ==
    ASSUME NEW s, NEW calls, NEW ib, NEW fg, NEW s2, NEW calls2, NEW ib2, NEW fg2,
           Grows(s, calls, ib, fg, s2, calls2, ib2, fg2)
    PROVE  /\ \A q, k : Alarm(q, calls, ib, k) /\ k \in 0 .. Len(ib) => Alarm(q, calls2, ib2, k)
           /\ \A q, ms, k : \A es \in Seq(Edit) : Soon(q, es, s, calls, ms, ib, k, fg) /\ k \in 0 .. Len(ib)
                 => Soon(q, es, s2, calls2, ms, ib2, k, fg2)
           /\ \A q, e, v : Applied(EditsIn(s, q), e, v)
                 => q \in fg2.queues \/ Applied(EditsIn(s2, q), e, v)
           /\ \A d : Rest(d, s, fg) => Rest(d, s2, fg2)
           /\ \A d, h, c : Fetches(d, h, ib, c) => Fetches(d, h, ib2, c)
  <1>1. /\ \A i \in DOMAIN ib : i \in DOMAIN ib2 /\ ib2[i] = ib[i]
        /\ \A x \in calls : x \in calls2 \/ \E i \in DOMAIN ib2 : i > Len(ib) /\ ib2[i] = Replaced(x)
        /\ Len(ib) \in Nat /\ DOMAIN ib = 1 .. Len(ib) /\ DOMAIN ib2 \subseteq Nat
    BY DEF Grows
  <1>2. \A q : EditsIn(s, q) \in Seq(Edit) /\ EditsIn(s2, q) \in Seq(Edit)
    BY EditsInTyped DEF Grows
  <1>3. ASSUME NEW q, NEW k \in 0 .. Len(ib), Alarm(q, calls, ib, k)
        PROVE  Alarm(q, calls2, ib2, k)
    <2>1. CASE \E i \in DOMAIN ib : i > k /\ NamesOther(ib[i], q)
      BY <1>1, <2>1 DEF Alarm
    <2>2. ASSUME NEW x \in calls, x # q PROVE Alarm(q, calls2, ib2, k)
      <3>1. CASE x \in calls2
        BY <2>2, <3>1 DEF Alarm
      <3>2. ASSUME NEW i \in DOMAIN ib2, i > Len(ib), ib2[i] = Replaced(x)
            PROVE  Alarm(q, calls2, ib2, k)
        <4>1. i > k
          BY <1>1, <3>2
        <4>2. NamesOther(ib2[i], q)
          BY <2>2, <3>2 DEF NamesOther, Replaced
        <4>. QED BY <4>1, <4>2 DEF Alarm
      <3>. QED BY <1>1, <3>1, <3>2
    <2>. QED BY <1>3, <2>1, <2>2 DEF Alarm
  <1>4. ASSUME NEW q, NEW ms, NEW es \in Seq(Edit), NEW k \in 0 .. Len(ib), Current(q, es, s, ms, ib, k, fg),
               s2.active = s.active
        PROVE  Current(q, es, s2, ms, ib2, k, fg2)
    <2>1. ASSUME q \notin fg2.queues
          PROVE  /\ Prefix(es, EditsIn(s2, q))
                 /\ \A v \in Len(es) + 1 .. Len(EditsIn(s2, q)) : Comes(q, v, ms, ib2, k)
      <3>1. q \notin fg.queues /\ Lengthens(s, ib, s2, ib2, q)
        BY <2>1 DEF Grows
      <3>2. Prefix(es, EditsIn(s, q)) /\ Prefix(EditsIn(s, q), EditsIn(s2, q))
        BY <1>4, <3>1 DEF Current, Lengthens
      <3>3. ASSUME NEW v \in Len(es) + 1 .. Len(EditsIn(s2, q)) PROVE Comes(q, v, ms, ib2, k)
        <4>1. CASE v <= Len(EditsIn(s, q))
          <5>1. v \in Len(es) + 1 .. Len(EditsIn(s, q))
            BY <1>2, <4>1
          <5>2. Comes(q, v, ms, ib, k)
            BY <1>4, <3>1, <5>1 DEF Current
          <5>. QED BY <1>1, <5>2 DEF Comes
        <4>2. CASE ~(v <= Len(EditsIn(s, q)))
          <5>1. v \in Len(EditsIn(s, q)) + 1 .. Len(EditsIn(s2, q))
            BY <1>2, <4>2
          <5>2. PICK i \in DOMAIN ib2 : i > Len(ib) /\ TellsOf(ib2[i], q, v)
            BY <3>1, <5>1 DEF Lengthens
          <5>3. i > k
            BY <1>1, <5>2
          <5>. QED BY <5>2, <5>3 DEF Comes
        <4>. QED BY <4>1, <4>2
      <3>4. Prefix(es, EditsIn(s2, q))
        BY <1>2, <3>2, PrefixGoesOn
      <3>. QED BY <3>3, <3>4
    <2>. QED BY <1>4, <2>1 DEF Current
  <1>5. ASSUME NEW q, NEW ms, NEW es \in Seq(Edit), NEW k \in 0 .. Len(ib),
               Soon(q, es, s, calls, ms, ib, k, fg)
        PROVE  Soon(q, es, s2, calls2, ms, ib2, k, fg2)
    <2>1. CASE Alarm(q, calls, ib, k)
      BY <1>3, <2>1 DEF Soon
    <2>2. CASE Current(q, es, s, ms, ib, k, fg) /\ s2.active = s.active
      BY <1>4, <2>2 DEF Soon
    <2>3. CASE Current(q, es, s, ms, ib, k, fg) /\ s2.active # s.active
      BY <2>3 DEF Soon, Current, Alarm, Grows
    <2>. QED BY <1>5, <2>1, <2>2, <2>3 DEF Soon
  <1>6. ASSUME NEW q, NEW e, NEW v, Applied(EditsIn(s, q), e, v), q \notin fg2.queues
        PROVE  Applied(EditsIn(s2, q), e, v)
    <2>1. Prefix(EditsIn(s, q), EditsIn(s2, q))
      BY <1>6 DEF Grows, Lengthens
    <2>. QED BY <1>2, <1>6, <2>1, PrefixGoesOn
  <1>7. \A d : Rest(d, s, fg) => Rest(d, s2, fg2)
    <2>1. fg.queues \subseteq fg2.queues
      BY DEF Grows
    <2>. QED BY <1>6, <2>1 DEF Rest
  <1>8. \A d, h, c : Fetches(d, h, ib, c) => Fetches(d, h, ib2, c)
    BY <1>1 DEF Fetches
  <1>. QED BY <1>3, <1>5, <1>6, <1>7, <1>8

\* What the device is about to show.
LEMMA AimIs ==
    ASSUME NEW d, NEW h, DeviceType(d), HttpType(h)
    PROVE  /\ Aim(d, h).edits \in Seq(Edit)
           /\ ~(Reading(h) /\ (Has(h, "ok") \/ Has(h, "missing")))
                 => Aim(d, h).queue = d.queue /\ Aim(d, h).edits = d.content.edits
           /\ Reading(h) /\ Has(h, "ok")
                 => Aim(d, h).queue = h.answer.queue /\ Aim(d, h).edits = h.answer.content.edits
           /\ Reading(h) /\ Has(h, "missing") => Aim(d, h).queue = None /\ Aim(d, h).edits = <<>>
  <1>1. d.content.edits \in Seq(Edit) /\ h.answer.content.edits \in Seq(Edit) /\ <<>> \in Seq(Edit)
    BY DEF DeviceType, HttpType, AnswerType, Contents
  <1>2. ~(Has(h, "ok") /\ Has(h, "missing"))
    BY DEF Has
  <1>. QED BY <1>1, <1>2 DEF Aim

\* So does all of what the device and the server have settled.
LEMMA SettlesOn ==
    ASSUME NEW d, NEW s, NEW h, NEW ib, NEW fg, NEW s2, NEW h2, NEW ib2, NEW fg2,
           DeviceType(d), HttpType(h), HttpType(h2), Settles(d, s, h, ib, fg),
           Grows(s, Calls(s, h), ib, fg, s2, Calls(s2, h2), ib2, fg2),
           \/ h2 = h
           \/ /\ h2.kind = h.kind /\ h2.stale = h.stale /\ ~Reading(h)
              /\ Restores(d, s2, h2, ib2, fg2) /\ Answers(d, s2, h2, fg2)
    PROVE  Settles(d, s2, h2, ib2, fg2)
  <1>. DEFINE calls == Calls(s, h)
              calls2 == Calls(s2, h2)
  <1>1. Reading(h2) => h2 = h
    BY DEF Reading
  <1>2. Aim(d, h2) = Aim(d, h) /\ Aim(d, h).edits \in Seq(Edit)
    BY <1>1, AimIs DEF Aim, Reading
  <1>3. /\ Soon(Aim(d, h).queue, Aim(d, h).edits, s, calls, d.held, ib, 0, fg)
        /\ Reading(h) \/ Alarm(d.queue, calls, ib, 0) \/ Rest(d, s, fg)
        /\ Reading(h) /\ (Has(h, "ok") \/ Has(h, "same")) => h.answer.run = s.run
        /\ Restores(d, s, h, ib, fg) /\ Answers(d, s, h, fg)
    BY DEF Settles
  <1>4. Grows(s, calls, ib, fg, s2, calls2, ib2, fg2)
    OBVIOUS
  <1>5. s2.run = s.run /\ 0 \in 0 .. Len(ib) /\ fg.queues \subseteq fg2.queues
        /\ DOMAIN ib \subseteq DOMAIN ib2 /\ (\A i \in DOMAIN ib : ib2[i] = ib[i] /\ i \in 0 .. Len(ib))
    BY <1>4 DEF Grows
  <1>. HIDE DEF calls, calls2
  <1>6. /\ \A q, k : Alarm(q, calls, ib, k) /\ k \in 0 .. Len(ib) => Alarm(q, calls2, ib2, k)
        /\ \A q, ms, k : \A es \in Seq(Edit) : Soon(q, es, s, calls, ms, ib, k, fg) /\ k \in 0 .. Len(ib)
                 => Soon(q, es, s2, calls2, ms, ib2, k, fg2)
        /\ \A q, e, v : Applied(EditsIn(s, q), e, v)
                 => q \in fg2.queues \/ Applied(EditsIn(s2, q), e, v)
        /\ Rest(d, s, fg) => Rest(d, s2, fg2)
    BY <1>4, GrowsOn
  <1>7. Soon(Aim(d, h2).queue, Aim(d, h2).edits, s2, calls2, d.held, ib2, 0, fg2)
    BY <1>2, <1>3, <1>5, <1>6
  <1>8. Reading(h2) \/ Alarm(d.queue, calls2, ib2, 0) \/ Rest(d, s2, fg2)
    BY <1>3, <1>5, <1>6 DEF Reading
  <1>9. Reading(h2) /\ (Has(h2, "ok") \/ Has(h2, "same")) => h2.answer.run = s2.run
    BY <1>1, <1>3, <1>5
  <1>10. Restores(d, s2, h2, ib2, fg2)
    <2>1. CASE h2 = h
      <3>1. h.answer.content.edits \in Seq(Edit)
        BY DEF HttpType, AnswerType, Contents
      <3>2. Restores(d, s, h, ib, fg)
        BY <1>3
      <3>3. h.kind = "restore" /\ ~h.stale /\ h.queue = d.queue
            => /\ h.at = "applied" \/ Has(h, "ok") => Alarm(d.queue, calls2, ib2, 0)
               /\ Has(h, "ok") => h.answer.queue = d.queue
        BY <1>5, <1>6, <3>2 DEF Restores, calls
      <3>4. ASSUME h.kind = "restore", ~h.stale, h.queue # d.queue, Has(h, "ok")
            PROVE  \E k \in DOMAIN ib2 :
                    /\ ib2[k].type = "queueReplaced" /\ ib2[k].queue = h.queue
                    /\ Soon(h.answer.queue, h.answer.content.edits, s2, calls2, <<>>, ib2, k, fg2)
        <4>1. PICK k \in DOMAIN ib :
                    /\ ib[k].type = "queueReplaced" /\ ib[k].queue = h.queue
                    /\ Soon(h.answer.queue, h.answer.content.edits, s, calls, <<>>, ib, k, fg)
          BY <3>2, <3>4 DEF Restores, calls
        <4>. QED BY <1>5, <1>6, <3>1, <4>1
      <3>. QED BY <2>1, <3>3, <3>4 DEF Restores, calls2
    <2>. QED BY <2>1
  <1>11. Answers(d, s2, h2, fg2)
    <2>1. CASE h2 = h
      BY <1>3, <1>5, <1>6, <2>1 DEF Answers
    <2>. QED BY <2>1
  <1>. QED BY <1>7, <1>8, <1>9, <1>10, <1>11 DEF Settles, calls2

\* A step of the server's leaves the device catching up.
LEMMA CatchesOn ==
    ASSUME NEW d, NEW s, NEW h, NEW ib, NEW c, NEW fg, NEW s2, NEW h2, NEW ib2, NEW fg2,
           DeviceType(d), HttpType(h), HttpType(h2), Catches(d, s, h, ib, c, fg),
           c => Grows(s, Calls(s, h), ib, fg, s2, Calls(s2, h2), ib2, fg2),
           Awaits(d, s, h, fg) => Awaits(d, s2, h2, fg2) \/ Settles(d, s2, h2, ib2, fg2),
           \/ h2 = h
           \/ /\ h2.kind = h.kind /\ h2.stale = h.stale /\ ~Reading(h)
              /\ c /\ Settles(d, s, h, ib, fg) => Restores(d, s2, h2, ib2, fg2) /\ Answers(d, s2, h2, fg2)
    PROVE  Catches(d, s2, h2, ib2, c, fg2)
  <1>1. CASE ~c
    BY <1>1 DEF Catches, Fetches
  <1>2. CASE c /\ Fetches(d, h, ib, c)
    <2>1. Fetches(d, h, ib2, c)
      BY <1>2, GrowsOn
    <2>2. Fetches(d, h2, ib2, c)
      BY <2>1 DEF Fetches, Reading
    <2>. QED BY <2>2 DEF Catches
  <1>3. CASE Awaits(d, s, h, fg)
    BY <1>3 DEF Catches
  <1>4. CASE c /\ Settles(d, s, h, ib, fg)
    BY <1>4, SettlesOn DEF Catches
  <1>. QED BY <1>1, <1>2, <1>3, <1>4 DEF Catches

\* The device's start is at the server.
LEMMA StartSettles ==
    ASSUME NEW d, NEW s, NEW h, NEW ib, NEW fg, DeviceType(d), HttpType(h), Starts(d, h), d.starting # None,
           s.active = d.queue, EditsIn(s, d.queue) = <<>>,
           d.queue \in fg.queues \/ d.content.edits = <<>>
    PROVE  Settles(d, s, h, ib, fg)
  <1>1. /\ \A i \in DOMAIN d.pending : ~Sent(d.pending[i])
        /\ h.kind = "edit" => h.edit \notin Edits(d.pending)
        /\ Reads(h) => h.stale
    BY DEF Starts
  <1>2. ~Reading(h) /\ Answers(d, s, h, fg) /\ Restores(d, s, h, ib, fg)
    BY <1>1 DEF Reading, Reads, Answers, Restores
  <1>3. Rest(d, s, fg)
    BY <1>1 DEF Rest, ToSet
  <1>4. Current(d.queue, d.content.edits, s, d.held, ib, 0, fg)
    <2>1. Prefix(<<>>, <<>>) /\ Len(<<>>) + 1 .. Len(<<>>) = {}
      BY DEF Prefix
    <2>. QED BY <2>1 DEF Current
  <1>. QED BY <1>2, <1>3, <1>4, AimIs DEF Settles, Soon

\* The latest edits the server remembers stay where they were applied.
LEMMA RemembersOn ==
    ASSUME NEW d, NEW s, NEW h, NEW la, NEW fg, NEW d2, NEW s2, NEW h2, NEW la2, NEW fg2,
           Remembers(d, s, h, la, fg),
           \A i \in DOMAIN s.done : \A q \in Queue :
              Asks(d2, h2, la2, s.done[i].edit, q) => Asks(d, h, la, s.done[i].edit, q),
           fg.queues \subseteq fg2.queues,
           \A q, e, v : Applied(EditsIn(s, q), e, v) => q \in fg2.queues \/ Applied(EditsIn(s2, q), e, v),
           \A i \in DOMAIN s2.done :
              \/ \E j \in DOMAIN s.done : s2.done[i] = s.done[j]
              \/ \A q \in Queue : Asks(d2, h2, la2, s2.done[i].edit, q)
                    => q \in fg2.queues \/ Applied(EditsIn(s2, q), s2.done[i].edit, s2.done[i].version)
    PROVE  Remembers(d2, s2, h2, la2, fg2)
  <1>1. ASSUME NEW i \in DOMAIN s2.done, NEW q \in Queue, Asks(d2, h2, la2, s2.done[i].edit, q),
               q \notin fg2.queues
        PROVE  Applied(EditsIn(s2, q), s2.done[i].edit, s2.done[i].version)
    <2>1. ASSUME NEW j \in DOMAIN s.done, s2.done[i] = s.done[j]
          PROVE  Applied(EditsIn(s2, q), s2.done[i].edit, s2.done[i].version)
      <3>1. Applied(EditsIn(s, q), s.done[j].edit, s.done[j].version)
        BY <1>1, <2>1 DEF Remembers
      <3>. QED BY <1>1, <2>1, <3>1
    <2>. QED BY <1>1, <2>1
  <1>. QED BY <1>1 DEF Remembers

\* So it goes on when the queues stay, or one has one edit more that the message tells of.
LEMMA Growing ==
    ASSUME NEW s, NEW calls, NEW ib \in Seq(Message), NEW fg, NEW s2, NEW calls2, NEW fg2,
           NEW m \in Message, NEW ib2 \in {ib, Append(ib, m)},
           ServerType(s), ServerType(s2), s2.run = s.run, fg.queues \subseteq fg2.queues,
           \A x \in calls : x \in calls2 \/ (ib2 = Append(ib, m) /\ m = Replaced(x)),
           s2.active = s.active \/ s2.active \in calls2,
           \A q : \/ q \in fg2.queues
                  \/ EditsIn(s2, q) = EditsIn(s, q)
                  \/ /\ Prefix(EditsIn(s, q), EditsIn(s2, q))
                     /\ Len(EditsIn(s2, q)) = Len(EditsIn(s, q)) + 1
                     /\ ib2 = Append(ib, m) /\ TellsOf(m, q, Len(EditsIn(s2, q)))
    PROVE  Grows(s, calls, ib, fg, s2, calls2, ib2, fg2)
  <1>1. /\ ib2 \in Seq(Message) /\ \A i \in DOMAIN ib : i \in DOMAIN ib2 /\ ib2[i] = ib[i]
        /\ ib2 = Append(ib, m) => Len(ib) + 1 \in DOMAIN ib2 /\ ib2[Len(ib) + 1] = m /\ Len(ib) + 1 > Len(ib)
    <2>1. Append(ib, m) \in Seq(Message) /\ DOMAIN Append(ib, m) = 1 .. Len(ib) + 1
              /\ DOMAIN ib = 1 .. Len(ib)
          /\ Len(ib) \in Nat
      OBVIOUS
    <2>2. Append(ib, m)[Len(ib) + 1] = m /\ \A i \in 1 .. Len(ib) : Append(ib, m)[i] = ib[i]
      OBVIOUS
    <2>. QED BY <2>1, <2>2
  <1>2. \A x \in calls : x \in calls2 \/ \E i \in DOMAIN ib2 : i > Len(ib) /\ ib2[i] = Replaced(x)
    BY <1>1
  <1>3. ASSUME NEW q PROVE q \in fg2.queues \/ Lengthens(s, ib, s2, ib2, q)
    <2>. DEFINE es == EditsIn(s, q)
                fs == EditsIn(s2, q)
    <2>1. es \in Seq(Edit) /\ fs \in Seq(Edit)
      BY EditsInTyped
    <2>. HIDE DEF es, fs
    <2>2. Prefix(es, es) /\ Len(es) + 1 .. Len(es) = {}
      BY <2>1, PrefixGoesOn
    <2>3. CASE fs = es
      BY <2>2, <2>3 DEF Lengthens, es, fs
    <2>4. CASE Prefix(es, fs) /\ Len(fs) = Len(es) + 1 /\ ib2 = Append(ib, m) /\ TellsOf(m, q, Len(fs))
      <3>1. \A v \in Len(es) + 1 .. Len(fs) : v = Len(fs)
        BY <2>1, <2>4
      <3>. QED BY <1>1, <2>4, <3>1 DEF Lengthens, es, fs
    <2>. QED BY <2>3, <2>4 DEF es, fs
  <1>. QED BY <1>1, <1>2, <1>3 DEF Grows

\* Or when nothing happens to them at all.
LEMMA StayGrows ==
    ASSUME NEW s, NEW calls, NEW ib \in Seq(Message), NEW fg, NEW s2, NEW calls2,
           ServerType(s), ServerType(s2), s2.run = s.run, calls \subseteq calls2,
           s2.active = s.active \/ s2.active \in calls2, \A q : EditsIn(s2, q) = EditsIn(s, q)
    PROVE  Grows(s, calls, ib, fg, s2, calls2, ib, fg)
  <1>1. /\ \A i \in DOMAIN ib : i \in DOMAIN ib /\ ib[i] = ib[i]
        /\ \A x \in calls : x \in calls2
    OBVIOUS
  <1>2. ASSUME NEW q PROVE Lengthens(s, ib, s2, ib, q)
    <2>1. EditsIn(s, q) \in Seq(Edit)
      BY EditsInTyped
    <2>2. Prefix(EditsIn(s, q), EditsIn(s, q)) /\ Len(EditsIn(s, q)) + 1 .. Len(EditsIn(s, q)) = {}
      BY <2>1, PrefixGoesOn
    <2>. QED BY <2>2 DEF Lengthens
  <1>. QED BY <1>1, <1>2 DEF Grows

\* What a step of the server's, which may answer the request, leaves to be shown.
LEMMA Serving ==
    ASSUME NEW d, NEW s, NEW h, NEW la, NEW ib, NEW c, NEW fg, NEW ms, Quiet(d, s, h, la, ib, c, fg, ms),
           NEW s2, NEW h2, NEW la2, NEW ib2, NEW fg2, DeviceType(d), HttpType(h), HttpType(h2),
           h2.kind = h.kind, h2.queue = h.queue, h2.edit = h.edit, h2.stale = h.stale,
           \A e, q : Asks(d, h2, la2, e, q) => Asks(d, h, la, e, q),
           fg.queues \subseteq fg2.queues, ServerType(s), ServerType(s2),
           \A q : q \in fg2.queues \/ Prefix(EditsIn(s, q), EditsIn(s2, q)),
           \A i \in DOMAIN s2.done :
              \/ \E j \in DOMAIN s.done : s2.done[i] = s.done[j]
              \/ \A q \in Queue : Asks(d, h, la, s2.done[i].edit, q)
                    => q \in fg2.queues \/ Applied(EditsIn(s2, q), s2.done[i].edit, s2.done[i].version),
           c => Grows(s, Calls(s, h), ib, fg, s2, Calls(s2, h2), ib2, fg2),
           Awaits(d, s, h, fg) => Awaits(d, s2, h2, fg2) \/ Settles(d, s2, h2, ib2, fg2),
           \/ h2 = h
           \/ /\ ~Reading(h)
              /\ ~ms /\ c /\ Settles(d, s, h, ib, fg)
                    => Restores(d, s2, h2, ib2, fg2) /\ Answers(d, s2, h2, fg2)
    PROVE  Quiet(d, s2, h2, la2, ib2, c, fg2, ms)
  <1>1. Starts(d, h2)
    BY DEF Quiet, Starts, Reads
  <1>2. Remembers(d, s2, h2, la2, fg2)
    <2>1. \A q : EditsIn(s, q) \in Seq(Edit) /\ EditsIn(s2, q) \in Seq(Edit)
      BY EditsInTyped
    <2>2. \A q, e, v : Applied(EditsIn(s, q), e, v) => q \in fg2.queues \/ Applied(EditsIn(s2, q), e, v)
      BY <2>1, PrefixGoesOn
    <2>3. \A i \in DOMAIN s2.done :
              \/ \E j \in DOMAIN s.done : s2.done[i] = s.done[j]
              \/ \A q \in Queue : Asks(d, h2, la2, s2.done[i].edit, q)
                    => q \in fg2.queues \/ Applied(EditsIn(s2, q), s2.done[i].edit, s2.done[i].version)
      OBVIOUS
    <2>. QED BY <2>2, <2>3, RemembersOn DEF Quiet
  <1>3. ms \/ Catches(d, s2, h2, ib2, c, fg2)
    <2>1. CASE ms
      BY <2>1
    <2>2. CASE ~ms
      <3>1. Catches(d, s, h, ib, c, fg)
        BY <2>2 DEF Quiet
      <3>. QED BY <2>2, <3>1, CatchesOn
    <2>. QED BY <2>1, <2>2 DEF Quiet
  <1>. QED BY <1>1, <1>2, <1>3 DEF Quiet

\* A message that must be heard, or that the handler drops, leaves nothing else to keep.
LEMMA MissedOn ==
    ASSUME NEW d, NEW s, NEW h, NEW la, NEW fg, NEW s2, NEW h2, NEW la2, NEW ib2, NEW c2, NEW fg2, NEW ms2,
           Starts(d, h), Remembers(d, s, h, la, fg), ServerType(s), ServerType(s2),
           h2.kind = h.kind, h2.queue = h.queue, h2.edit = h.edit, h2.stale = h.stale,
           \A e, q : Asks(d, h2, la2, e, q) => Asks(d, h, la, e, q),
           \/ s2.done = <<>>
           \/ /\ s2.done = s.done /\ fg.queues \subseteq fg2.queues
              /\ \A q : q \in fg2.queues \/ EditsIn(s2, q) = EditsIn(s, q),
           ms2 \in BOOLEAN, ms2 \/ Fetches(d, h2, ib2, c2)
    PROVE  Quiet(d, s2, h2, la2, ib2, c2, fg2, ms2)
  <1>1. Starts(d, h2)
    BY DEF Starts, Reads
  <1>2. Remembers(d, s2, h2, la2, fg2)
    <2>1. CASE s2.done = <<>>
      BY <2>1 DEF Remembers
    <2>2. CASE /\ s2.done = s.done /\ fg.queues \subseteq fg2.queues
               /\ \A q : q \in fg2.queues \/ EditsIn(s2, q) = EditsIn(s, q)
      <3>1. \A q, e, v : Applied(EditsIn(s, q), e, v) => q \in fg2.queues \/ Applied(EditsIn(s2, q), e, v)
        BY <2>2
      <3>. QED BY <2>2, <3>1, RemembersOn
    <2>. QED BY <2>1, <2>2
  <1>. QED BY <1>1, <1>2 DEF Quiet, Catches

-----------------------------------------------------------------------------
(* The steps of the server, and of those who ask of it.                    *)

\* An edit is applied, and the device told.
LEMMA EditGrows ==
    ASSUME NEW s, ServerType(s), s.active # None, NEW e \in Edit, NEW ib \in Seq(Message), NEW calls, NEW fg
    PROVE  LET n == Len(s.queues[s.active].edits) + 1
           IN  Grows(s, calls, ib, fg, AfterEdit(s, e), calls, Append(ib, Edited(s.active, n, e)), fg)
  <1>. DEFINE s2 == AfterEdit(s, e)
              n == Len(s.queues[s.active].edits) + 1
              m == Edited(s.active, n, e)
              ib2 == Append(ib, m)
  <1>1. /\ ServerType(s2) /\ s2.run = s.run /\ s2.active = s.active
        /\ \A q : q # s.active => EditsIn(s2, q) = EditsIn(s, q)
        /\ n \in Nat \ {0} /\ Len(EditsIn(s, s.active)) + 1 = n /\ Len(EditsIn(s2, s.active)) = n
        /\ \A q : Prefix(EditsIn(s, q), EditsIn(s2, q))
    BY AfterEditIs
  <1>. HIDE DEF s2, n
  <1>2. m \in Message /\ TellsOf(m, s.active, n)
    <2>1. s.active \in Queue
      BY DEF ServerType, IsQueues
    <2>. QED BY <1>1, <2>1 DEF Edited, Message, OfQueue, TellsOf
  <1>. HIDE DEF m
  <1>3. \A q : \/ EditsIn(s2, q) = EditsIn(s, q)
               \/ /\ Prefix(EditsIn(s, q), EditsIn(s2, q))
                  /\ Len(EditsIn(s2, q)) = Len(EditsIn(s, q)) + 1
                  /\ TellsOf(m, q, Len(EditsIn(s2, q)))
    BY <1>1, <1>2
  <1>4. Grows(s, calls, ib, fg, s2, calls, ib2, fg)
    BY <1>1, <1>2, <1>3, Growing
  <1>. QED BY <1>4 DEF s2, n, m

\* So the device goes on catching up.
LEMMA EditQuiet ==
    ASSUME NEW d, NEW s, NEW h, NEW la, NEW ib, NEW c, NEW fg, NEW ms, Quiet(d, s, h, la, ib, c, fg, ms),
           DeviceType(d), ServerType(s), HttpType(h), ib \in Seq(Message), s.active # None, NEW e \in Edit,
           \A q \in Queue : Asks(d, h, la, e, q) => q = s.active
    PROVE  LET n == Len(s.queues[s.active].edits) + 1
           IN  Quiet(d, AfterEdit(s, e), h, la,
                     IF c THEN Append(ib, Edited(s.active, n, e)) ELSE ib, c, fg, ms)
  <1>. DEFINE s2 == AfterEdit(s, e)
              n == Len(s.queues[s.active].edits) + 1
              ib1 == Append(ib, Edited(s.active, n, e))
              ib2 == IF c THEN ib1 ELSE ib
  <1>1. Grows(s, Calls(s, h), ib, fg, s2, Calls(s, h), ib1, fg)
    BY EditGrows
  <1>2. /\ ServerType(s2) /\ s2.run = s.run /\ s2.active = s.active /\ s2.telling = s.telling
        /\ DOMAIN s2.queues = DOMAIN s.queues
        /\ Applied(EditsIn(s2, s.active), e, n)
        /\ \A q : Prefix(EditsIn(s, q), EditsIn(s2, q))
        /\ \A i \in DOMAIN s2.done : \/ \E j \in DOMAIN s.done : s2.done[i] = s.done[j]
                                     \/ s2.done[i].edit = e /\ s2.done[i].version = n
    BY AfterEditIs
  <1>. HIDE DEF s2, n, ib1
  <1>3. c => Grows(s, Calls(s, h), ib, fg, s2, Calls(s2, h), ib2, fg)
    BY <1>1, <1>2 DEF Calls
  <1>. HIDE DEF ib2
  <1>4. Awaits(d, s, h, fg) => Awaits(d, s2, h, fg)
    BY <1>2 DEF Awaits
  <1>5. \A i \in DOMAIN s2.done :
              \/ \E j \in DOMAIN s.done : s2.done[i] = s.done[j]
              \/ \A q \in Queue : Asks(d, h, la, s2.done[i].edit, q)
                    => q \in fg.queues \/ Applied(EditsIn(s2, q), s2.done[i].edit, s2.done[i].version)
    BY <1>2
  <1>6. Quiet(d, s2, h, la, ib2, c, fg, ms)
    BY <1>2, <1>3, <1>4, <1>5, Serving
  <1>. QED BY <1>6 DEF s2, n, ib1, ib2

\* The request answered, with the server's queues as they were.
LEMMA AnswerQuiet ==
    ASSUME NEW d, NEW s, NEW h, NEW la, NEW ib, NEW c, NEW fg, NEW ms, Quiet(d, s, h, la, ib, c, fg, ms),
           NEW h2, NEW la2, DeviceType(d), ServerType(s), HttpType(h), HttpType(h2), ib \in Seq(Message),
           h2.kind = h.kind, h2.queue = h.queue, h2.edit = h.edit, h2.stale = h.stale, h2.at = "answered",
           h.at # "applied", ~Reading(h),
           \A e, q : Asks(d, h2, la2, e, q) => Asks(d, h, la, e, q),
           h.kind = "start" /\ Has(h2, "ok") => h.queue \in DOMAIN s.queues,
           h.kind = "restore" => ~Has(h2, "ok"),
           Answers(d, s, h2, fg)
    PROVE  Quiet(d, s, h2, la2, ib, c, fg, ms)
  <1>1. Calls(s, h2) = Calls(s, h)
    BY DEF Calls
  <1>2. Grows(s, Calls(s, h), ib, fg, s, Calls(s, h2), ib, fg)
    <2>1. Hello \in Message
      BY DEF Hello, Message, OfQueue
    <2>. QED BY <1>1, <2>1, Growing
  <1>3. Awaits(d, s, h, fg) => Awaits(d, s, h2, fg)
    BY DEF Awaits
  <1>4. Restores(d, s, h2, ib, fg)
    BY DEF Restores
  <1>5. \A q : Prefix(EditsIn(s, q), EditsIn(s, q))
    BY EditsInTyped, PrefixGoesOn
  <1>. QED BY <1>2, <1>3, <1>4, <1>5, Serving

\* The http facts that the steps need of what EXCEPT writes.
IsAnswered(h2, h, a) == h2 = [h EXCEPT !.at = "answered", !.answer = a]
LEMMA AnsweredWith ==
    ASSUME NEW h, HttpType(h), NEW a, NEW h2, IsAnswered(h2, h, a)
    PROVE  /\ h2.kind = h.kind /\ h2.queue = h.queue /\ h2.edit = h.edit /\ h2.stale = h.stale
           /\ h2.at = "answered" /\ h2.answer = a /\ h2.known = h.known
           /\ \A d, la, e, q : Asks(d, h2, la, e, q) => Asks(d, h, la, e, q)
           /\ \A status : Has(h2, status) <=> a.status = status
  <1>1. /\ h2.kind = h.kind /\ h2.queue = h.queue /\ h2.edit = h.edit /\ h2.stale = h.stale
        /\ h2.at = "answered" /\ h2.answer = a /\ h2.known = h.known
    BY DEF HttpType, IsAnswered
  <1>2. \A d, la, e, q : Asks(d, h2, la, e, q) => Asks(d, h, la, e, q)
    BY <1>1 DEF Asks
  <1>3. \A status : Has(h2, status) <=> a.status = status
    BY <1>1 DEF Has
  <1>. QED BY <1>1, <1>2, <1>3

\* What of the invariants each step needs.
LEMMA QuietIs ==
    ASSUME QuietInv
    PROVE  /\ Inv(device, server, http, late, inbox, made, forgotten)
           /\ DeviceType(device) /\ ServerType(server) /\ HttpType(http) /\ inbox \in Seq(Message)
           /\ Quiet(device, server, http, late, inbox, connected, forgotten, missed)
           /\ Starts(device, http) /\ Remembers(device, server, http, late, forgotten)
           /\ missed \in BOOLEAN /\ Drained(device, http)
  BY DEF QuietInv, QueueInv, Inv, Types, InboxType, Quiet

\* What of the queue's invariant each step needs.
LEMMA QueueIs ==
    ASSUME QueueInv
    PROVE  DeviceType(device) /\ ServerType(server) /\ HttpType(http) /\ inbox \in Seq(Message)
  BY DEF QueueInv, Inv, Types, InboxType

\* A step of the server's that leaves what there was to drain.
LEMMA ServedDrained ==
    ASSUME Drained(device, http), UNCHANGED device, http' = http \/ http'.kind # "none"
    PROVE  Drained(device', http')
  BY DEF Drained

\* The server answers an edit: applied, applied before, or refused (queue.rs).
LEMMA ServeEditQuiet ==
    ASSUME QuietInv, QueueInv', ServeEdit
    PROVE  QuietInv'
  <1>. DEFINE answer == EditAnswer(http.queue, http.edit)
              e == http.edit
              q == http.queue
  <1>1. /\ http.kind = "edit" /\ http.at = "sent"
        /\ http' = [http EXCEPT !.at = "answered", !.answer = answer]
        /\ UNCHANGED <<device, late, connected, forgotten, missed>>
    BY DEF ServeEdit, AtServer, Answer, Elsewhere
  <1>2. /\ Inv(device, server, http, late, inbox, made, forgotten)
        /\ DeviceType(device) /\ ServerType(server) /\ HttpType(http) /\ inbox \in Seq(Message)
        /\ Quiet(device, server, http, late, inbox, connected, forgotten, missed)
        /\ Remembers(device, server, http, late, forgotten) /\ Drained(device, http)
    BY QuietIs
  <1>3. DeviceType(device') /\ ServerType(server') /\ HttpType(http') /\ inbox' \in Seq(Message)
    <2>1. QueueInv' => (DeviceType(device) /\ ServerType(server) /\ HttpType(http) /\ inbox \in Seq(Message))'
      BY QueueIs DEF QueueInv, Inv, Types, InboxType
    <2>. QED BY <2>1
  <1>4. /\ e \in OwnEdit /\ e \in Edit /\ q \in Queue /\ Asks(device, http, late, e, q)
    <2>1. Asks(device, http, late, e, q)
      BY <1>1 DEF Asks
    <2>. QED BY <1>1, <1>2, <2>1 DEF HttpType, Edit
  <1>5. /\ http'.kind = "edit" /\ http'.queue = q /\ http'.edit = e /\ http'.stale = http.stale
        /\ http'.at = "answered" /\ http'.answer = answer
        /\ (\A d, la, f, p : Asks(d, http', la, f, p) => Asks(d, http, la, f, p))
        /\ \A status : Has(http', status) <=> answer.status = status
    <2>0. IsAnswered(http', http, answer)
      BY <1>1 DEF IsAnswered
    <2>. HIDE DEF answer
    <2>1. /\ http'.kind = http.kind /\ http'.queue = http.queue /\ http'.edit = http.edit
          /\ http'.stale = http.stale /\ http'.at = "answered" /\ http'.answer = answer
          /\ (\A d, la, f, p : Asks(d, http', la, f, p) => Asks(d, http, la, f, p))
          /\ \A status : Has(http', status) <=> answer.status = status
      BY <1>2, <2>0, AnsweredWith
    <2>. QED BY <1>1, <2>1
  <1>. HIDE DEF answer, e, q
  <1>6. ASSUME Quiet(device, server', http, late, inbox', connected, forgotten, missed),
               answer.status \in {"applied", "again"} => q \in forgotten.queues
                   \/ Applied(EditsIn(server', q), e, answer.version)
        PROVE  QuietInv'
    <2>1. Answers(device, server', http', forgotten)
      BY <1>5, <1>6 DEF Answers
    <2>2. ~Reading(http)
      BY <1>1 DEF Reading
    <2>3. Quiet(device, server', http', late, inbox', connected, forgotten, missed)
      BY <1>1, <1>2, <1>3, <1>5, <1>6, <2>1, <2>2, AnswerQuiet DEF q, e
    <2>4. Drained(device', http')
      BY <1>1, <1>2, <1>5, ServedDrained
    <2>. QED BY <1>1, <2>3, <2>4 DEF QuietInv
  <1>7. CASE answer.status \notin {"applied", "again"}
    <2>1. UNCHANGED <<server, inbox>>
      BY <1>7 DEF ServeEdit, answer, q, e
    <2>. QED BY <1>2, <1>6, <1>7, <2>1
  <1>8. CASE answer.status = "again"
    <2>1. UNCHANGED <<server, inbox>>
      BY <1>8 DEF ServeEdit, answer, q, e
    <2>2. server.active = q /\ server.active # None /\ Done(e) # {}
      <3>1. \A status \in {"missing", "changed", "refused"} : Answered(status).status = status
        BY AnsweredIs
      <3>2. \A v : [Answered("applied") EXCEPT !.version = v].status = "applied"
        BY AnsweredIs
      <3>. QED BY <1>8, <3>1, <3>2 DEF answer, EditAnswer, q, e
    <2>3. PICK i \in Done(e) : i = CHOOSE j \in Done(e) : TRUE
      BY <2>2
    <2>4. answer = [Answered("again") EXCEPT !.version = server.done[i].version]
      BY <2>2, <2>3 DEF EditAnswer, answer, q, e
    <2>5. answer.version = server.done[i].version
      BY <2>4, AnsweredIs
    <2>6. i \in DOMAIN server.done /\ server.done[i].edit = e
      BY DEF Done
    <2>7. q \in forgotten.queues \/ Applied(EditsIn(server, q), e, server.done[i].version)
      BY <1>2, <1>4, <2>6 DEF Remembers
    <2>. QED BY <1>2, <1>6, <2>1, <2>5, <2>7
  <1>9. CASE answer.status = "applied"
    <2>. DEFINE s2 == AfterEdit(server, e)
                n == Len(server.queues[server.active].edits) + 1
    <2>1. server.active = q /\ server.active # None
      BY <1>9, AppliedIs DEF answer, q, e
    <2>2. Apply(e)
      BY <1>9 DEF ServeEdit, answer, q, e
    <2>3. server' = s2
      BY <2>2 DEF Apply, AfterEdit
    <2>4. Len(Append(server.queues[server.active].edits, e)) = n
      BY <1>2, <1>4, <2>1 DEF ServerType, IsQueues, Contents
    <2>5. inbox' = IF connected THEN Append(inbox, Edited(server.active, n, e)) ELSE inbox
      BY <2>2, <2>4 DEF Apply, ToDevice
    <2>6. \A p \in Queue : Asks(device, http, late, e, p) => p = server.active
      BY <1>2, <1>4, <2>1 DEF Inv, OneQueue
    <2>7. Quiet(device, s2, http, late, IF connected THEN Append(inbox, Edited(server.active, n, e))
              ELSE inbox,
                connected, forgotten, missed)
      BY <1>2, <1>4, <2>1, <2>6, EditQuiet
    <2>8. answer.version = n
      <3>1. answer = [Answered("applied") EXCEPT !.version = Version(server.queues[q]) + 1]
        <4>1. \A status \in {"missing", "changed", "refused"} : Answered(status).status = status
          BY AnsweredIs
        <4>2. \A v : [Answered("again") EXCEPT !.version = v].status = "again"
          BY AnsweredIs
        <4>. QED BY <1>9, <4>1, <4>2 DEF answer, EditAnswer, q, e
      <3>. QED BY <2>1, <3>1, AnsweredIs DEF Version
    <2>9. Applied(EditsIn(s2, server.active), e, n)
      BY <1>2, <1>4, <2>1, AfterEditIs
    <2>. HIDE DEF s2, n
    <2>. QED BY <1>6, <2>1, <2>3, <2>5, <2>7, <2>8, <2>9
  <1>. QED BY <1>7, <1>8, <1>9

\* What the server holds once a queue is started.
LEMMA AfterStartIs ==
    ASSUME NEW s, ServerType(s), NEW q, q \notin DOMAIN s.queues,
           NEW repeat \in BOOLEAN, NEW rows \in {"viewed", "resolved"}, NEW telling
    PROVE  LET s2 == AfterStart(s, q, repeat, rows, telling)
           IN  /\ s2.run = s.run /\ s2.active = q /\ s2.telling = telling /\ s2.done = s.done
               /\ DOMAIN s2.queues = DOMAIN s.queues \cup {q}
               /\ EditsIn(s2, q) = <<>> /\ \A p : EditsIn(s2, p) = EditsIn(s, p)
  <1>. DEFINE s2 == AfterStart(s, q, repeat, rows, telling)
              fresh == Fresh(repeat, rows)
  <1>1. fresh \in Contents /\ fresh.edits = <<>>
    BY FreshContent
  <1>. HIDE DEF fresh
  <1>2. /\ s2.run = s.run /\ s2.active = q /\ s2.telling = telling /\ s2.done = s.done
        /\ s2.queues = [p \in DOMAIN s.queues \cup {q} |-> IF p = q THEN fresh ELSE s.queues[p]]
    BY DEF ServerType, AfterStart, fresh
  <1>3. /\ DOMAIN s2.queues = DOMAIN s.queues \cup {q} /\ s2.queues[q] = fresh
        /\ \A p \in DOMAIN s.queues : s2.queues[p] = s.queues[p]
    BY <1>2
  <1>. HIDE DEF s2
  <1>4. EditsIn(s2, q) = <<>> /\ \A p : EditsIn(s2, p) = EditsIn(s, p)
    BY <1>1, <1>3 DEF EditsIn
  <1>. QED BY <1>2, <1>3, <1>4 DEF s2

\* A queue is started, and the device's own start is what it shows already.
LEMMA StartQuiet ==
    ASSUME NEW d, NEW s, NEW h, NEW la, NEW ib, NEW c, NEW fg, NEW ms, Quiet(d, s, h, la, ib, c, fg, ms),
           NEW q \in Queue, q \notin DOMAIN s.queues,
           NEW repeat \in BOOLEAN, NEW rows \in {"viewed", "resolved"}, NEW telling,
           NEW s2, s2 = AfterStart(s, q, repeat, rows, telling), NEW h2, NEW la2,
           DeviceType(d), ServerType(s), ServerType(s2), HttpType(h), HttpType(h2), ib \in Seq(Message),
           \A e, p : Asks(d, h2, la2, e, p) => Asks(d, h, la, e, p),
           \/ h2 = h
           \/ /\ h2.kind = h.kind /\ h2.queue = h.queue /\ h2.edit = h.edit /\ h2.stale = h.stale
              /\ h.kind = "start" /\ h.queue = q /\ h2.at = "applied",
           Calls(s, h) \cup {q} \subseteq Calls(s2, h2)
    PROVE  Quiet(d, s2, h2, la2, ib, c, fg, ms)
  <1>1. /\ s2.run = s.run /\ s2.active = q /\ s2.done = s.done
        /\ DOMAIN s2.queues = DOMAIN s.queues \cup {q}
        /\ EditsIn(s2, q) = <<>> /\ \A p : EditsIn(s2, p) = EditsIn(s, p)
    BY AfterStartIs
  <1>2. Grows(s, Calls(s, h), ib, fg, s2, Calls(s2, h2), ib, fg)
    <2>1. Hello \in Message
      BY DEF Hello, Message, OfQueue
    <2>. QED BY <1>1, <2>1, Growing
  <1>3. Starts(d, h2)
    BY DEF Quiet, Starts, Reads
  <1>4. ASSUME Awaits(d, s, h, fg) PROVE Awaits(d, s2, h2, fg) \/ Settles(d, s2, h2, ib, fg)
    <2>1. CASE d.starting = q
      <3>1. d.starting # None /\ d.queue = q
        BY <1>3, <1>4, <2>1 DEF Awaits, Starts
      <3>2. d.queue \in fg.queues \/ d.content.edits = <<>>
        BY <1>4, <2>1, <3>1 DEF Awaits
      <3>. QED BY <1>1, <1>3, <3>1, <3>2, StartSettles
    <2>2. CASE d.starting # q
      BY <1>1, <1>4, <2>2 DEF Awaits, Has
    <2>. QED BY <2>1, <2>2
  <1>5. \A p : Prefix(EditsIn(s, p), EditsIn(s2, p))
    BY <1>1, EditsInTyped, PrefixGoesOn
  <1>6. h2 = h \/ (~Reading(h) /\ Restores(d, s2, h2, ib, fg) /\ Answers(d, s2, h2, fg))
    BY DEF Reading, Restores, Answers
  <1>. QED BY <1>1, <1>2, <1>4, <1>5, <1>6, Serving

\* The server's queues stay, but for what it lets go of.
LEMMA StayQuiet ==
    ASSUME NEW d, NEW s, NEW h, NEW la, NEW ib, NEW c, NEW fg, NEW ms, Quiet(d, s, h, la, ib, c, fg, ms),
           NEW s2, NEW la2, NEW ib2, NEW fg2, NEW m \in Message,
           DeviceType(d), ServerType(s), ServerType(s2), HttpType(h), ib \in Seq(Message),
           \A e, p : Asks(d, h, la2, e, p) => Asks(d, h, la, e, p),
           s2.run = s.run, s2.done = s.done, DOMAIN s2.queues \subseteq DOMAIN s.queues,
           fg.queues \subseteq fg2.queues, \A q : q \in fg2.queues \/ EditsIn(s2, q) = EditsIn(s, q),
           s2.active = s.active \/ s2.active \in s2.telling,
           c => /\ ib2 \in {ib, Append(ib, m)}
                /\ \A x \in s.telling : x \in s2.telling \/ (ib2 = Append(ib, m) /\ m = Replaced(x))
    PROVE  Quiet(d, s2, h, la2, ib2, c, fg2, ms)
  <1>1. c => Grows(s, Calls(s, h), ib, fg, s2, Calls(s2, h), ib2, fg2)
    <2>1. c => \A x \in Calls(s, h) : x \in Calls(s2, h) \/ (ib2 = Append(ib, m) /\ m = Replaced(x))
      BY DEF Calls
    <2>2. s2.active = s.active \/ s2.active \in Calls(s2, h)
      BY DEF Calls
    <2>. QED BY <2>1, <2>2, Growing
  <1>2. Awaits(d, s, h, fg) => Awaits(d, s2, h, fg2)
    BY DEF Awaits
  <1>3. \A q : q \in fg2.queues \/ Prefix(EditsIn(s, q), EditsIn(s2, q))
    BY EditsInTyped, PrefixGoesOn
  <1>. QED BY <1>1, <1>2, <1>3, Serving

\* The server starts the queue, has it already, or refuses it (queue.rs).
LEMMA ServeStartQuiet ==
    ASSUME QuietInv, QueueInv', ServeStart \/ RefuseStart
    PROVE  QuietInv'
  <1>1. /\ http.kind = "start" /\ http.at = "sent"
        /\ UNCHANGED <<device, late, inbox, connected, forgotten, missed>>
    BY DEF ServeStart, RefuseStart, AtServer, Elsewhere
  <1>2. /\ DeviceType(device) /\ ServerType(server) /\ HttpType(http) /\ inbox \in Seq(Message)
        /\ Quiet(device, server, http, late, inbox, connected, forgotten, missed)
        /\ Drained(device, http)
    BY QuietIs
  <1>3. ServerType(server') /\ HttpType(http')
    BY DEF QueueInv, Inv, Types
  <1>4. http.queue \in Queue /\ ~Reading(http)
    BY <1>1, <1>2 DEF HttpType, Queue, Reading
  <1>5. ASSUME NEW status \in {"ok", "refused"}, Answer(Answered(status)), UNCHANGED server,
               status = "ok" => http.queue \in DOMAIN server.queues
        PROVE  QuietInv'
    <2>1. IsAnswered(http', http, Answered(status))
      BY <1>5 DEF Answer, IsAnswered
    <2>2. /\ http'.kind = http.kind /\ http'.queue = http.queue /\ http'.edit = http.edit
          /\ http'.stale = http.stale /\ http'.at = "answered"
          /\ (\A d, la, f, p : Asks(d, http', la, f, p) => Asks(d, http, la, f, p))
          /\ (Has(http', "ok") => Answered(status).status = "ok")
      BY <1>2, <2>1, AnsweredWith
    <2>3. Has(http', "ok") => http.queue \in DOMAIN server.queues
      BY <1>5, <2>2, AnsweredIs
    <2>4. Answers(device, server, http', forgotten)
      BY <1>1, <2>2 DEF Answers
    <2>5. Quiet(device, server, http', late, inbox, connected, forgotten, missed)
      BY <1>1, <1>2, <1>3, <1>4, <2>2, <2>3, <2>4, AnswerQuiet
    <2>6. Drained(device', http')
      BY <1>1, <1>2, <2>2, ServedDrained
    <2>. QED BY <1>1, <1>5, <2>5, <2>6 DEF QuietInv
  <1>6. CASE ServeStart /\ http.queue \notin DOMAIN server.queues
    <2>1. http' = [http EXCEPT !.at = "applied"] /\ Start(http.queue, server.telling)
      BY <1>6 DEF ServeStart
    <2>2. PICK repeat \in BOOLEAN, rows \in {"viewed", "resolved"} :
             server' = AfterStart(server, http.queue, repeat, rows, server.telling)
      BY <1>2, <2>1, StartIs
    <2>3. /\ http'.kind = http.kind /\ http'.queue = http.queue /\ http'.edit = http.edit
          /\ http'.stale = http.stale /\ http'.at = "applied"
      BY <1>2, <2>1 DEF HttpType
    <2>4. \A e, p : Asks(device, http', late, e, p) => Asks(device, http, late, e, p)
      BY <2>3 DEF Asks
    <2>5. server'.telling = server.telling
      BY <1>2, <1>6, <2>2, AfterStartIs
    <2>6. Calls(server, http) \cup {http.queue} \subseteq Calls(server', http')
      BY <1>1, <2>3, <2>5 DEF Calls
    <2>7. Quiet(device, server', http', late, inbox, connected, forgotten, missed)
      BY <1>1, <1>2, <1>3, <1>4, <1>6, <2>2, <2>3, <2>4, <2>6, StartQuiet
    <2>8. Drained(device', http')
      BY <1>1, <1>2, <2>3, ServedDrained
    <2>. QED BY <1>1, <2>7, <2>8 DEF QuietInv
  <1>7. CASE ServeStart /\ http.queue \in DOMAIN server.queues
    BY <1>5, <1>7 DEF ServeStart
  <1>8. CASE RefuseStart
    BY <1>5, <1>8 DEF RefuseStart
  <1>. QED BY <1>6, <1>7, <1>8

\* A restore written is of another queue than the active one, which the device soon hears of.
LEMMA ServeRestoreQuiet ==
    ASSUME QuietInv, QueueInv', ServeRestore
    PROVE  QuietInv'
  <1>1. /\ http.kind = "restore" /\ http.at = "sent"
        /\ UNCHANGED <<device, late, inbox, connected, forgotten, missed>>
    BY DEF ServeRestore, AtServer, Elsewhere
  <1>2. /\ DeviceType(device) /\ ServerType(server) /\ HttpType(http) /\ inbox \in Seq(Message)
        /\ Quiet(device, server, http, late, inbox, connected, forgotten, missed)
        /\ Drained(device, http)
    BY QuietIs
  <1>3. ServerType(server') /\ HttpType(http')
    BY DEF QueueInv, Inv, Types
  <1>4. ~Reading(http)
    BY <1>1 DEF Reading
  <1>5. CASE ~CanRestore(http.queue)
    <2>1. IsAnswered(http', http, Answered("refused")) /\ UNCHANGED server
      BY <1>5 DEF ServeRestore, Answer, IsAnswered
    <2>2. /\ http'.kind = http.kind /\ http'.queue = http.queue /\ http'.edit = http.edit
          /\ http'.stale = http.stale /\ http'.at = "answered"
          /\ (\A d, la, f, p : Asks(d, http', la, f, p) => Asks(d, http, la, f, p))
          /\ (Has(http', "ok") => Answered("refused").status = "ok")
      BY <1>2, <2>1, AnsweredWith
    <2>3. ~Has(http', "ok")
      BY <2>2, AnsweredIs
    <2>4. Answers(device, server, http', forgotten)
      BY <1>1, <2>2 DEF Answers
    <2>5. Quiet(device, server, http', late, inbox, connected, forgotten, missed)
      BY <1>1, <1>2, <1>3, <1>4, <2>2, <2>3, <2>4, AnswerQuiet
    <2>6. Drained(device', http')
      BY <1>1, <1>2, <2>2, ServedDrained
    <2>. QED BY <1>1, <2>1, <2>5, <2>6 DEF QuietInv
  <1>6. CASE CanRestore(http.queue)
    <2>1. /\ http' = [http EXCEPT !.at = "applied"]
          /\ server' = AfterRestore(server, http.queue, server.telling)
          /\ http.queue \in DOMAIN server.queues /\ http.queue # server.active
      BY <1>6 DEF ServeRestore, Restore, AfterRestore, CanRestore
    <2>2. /\ http'.kind = http.kind /\ http'.queue = http.queue /\ http'.edit = http.edit
          /\ http'.stale = http.stale /\ http'.at = "applied"
      BY <1>2, <2>1 DEF HttpType
    <2>3. \A e, p : Asks(device, http', late, e, p) => Asks(device, http, late, e, p)
      BY <2>2 DEF Asks
    <2>4. /\ server'.run = server.run /\ server'.active = http.queue /\ server'.done = server.done
          /\ server'.telling = server.telling /\ server'.queues = server.queues
      BY <1>2, <2>1 DEF ServerType, AfterRestore
    <2>5. \A q : EditsIn(server', q) = EditsIn(server, q)
      BY <2>4 DEF EditsIn
    <2>6. Calls(server, http) \cup {http.queue} \subseteq Calls(server', http')
      BY <1>1, <2>2, <2>4 DEF Calls
    <2>7. Grows(server, Calls(server, http), inbox, forgotten, server', Calls(server', http'), inbox,
              forgotten)
      <3>1. server'.active \in Calls(server', http') /\ Calls(server, http) \subseteq Calls(server', http')
        BY <2>4, <2>6
      <3>. QED BY <1>2, <1>3, <2>4, <2>5, <3>1, StayGrows
    <2>8. Awaits(device, server, http, forgotten) => Awaits(device, server', http', forgotten)
      BY <1>1, <2>2, <2>4 DEF Awaits
    <2>9. \A q : Prefix(EditsIn(server, q), EditsIn(server', q))
      BY <1>2, <2>5, EditsInTyped, PrefixGoesOn
    <2>10. Answers(device, server', http', forgotten)
      BY <1>1, <2>2 DEF Answers
    <2>11. ASSUME Settles(device, server, http, inbox, forgotten)
           PROVE  Restores(device, server', http', inbox, forgotten)
      <3>1. ~Has(http', "ok")
        BY <2>2 DEF Has
      <3>2. ASSUME http.queue = device.queue
            PROVE  Alarm(device.queue, Calls(server', http'), inbox, 0)
        <4>1. /\ Soon(Aim(device, http).queue, Aim(device, http).edits, server, Calls(server, http),
                      device.held, inbox, 0, forgotten)
              /\ Aim(device, http).queue = device.queue
          BY <1>2, <1>4, <2>11, AimIs DEF Settles
        <4>2. ~Current(device.queue, Aim(device, http).edits, server, device.held, inbox, 0, forgotten)
          BY <2>1, <3>2 DEF Current
        <4>3. Alarm(device.queue, Calls(server, http), inbox, 0)
          BY <4>1, <4>2 DEF Soon
        <4>4. 0 \in 0 .. Len(inbox)
          BY <1>2
        <4>. QED BY <2>7, <4>3, <4>4, GrowsOn
      <3>. QED BY <2>2, <3>1, <3>2 DEF Restores
    <2>12. Quiet(device, server', http', late, inbox, connected, forgotten, missed)
      BY <1>2, <1>3, <1>4, <2>2, <2>3, <2>4, <2>7, <2>8, <2>9, <2>10, <2>11, Serving
    <2>13. Drained(device', http')
      BY <1>1, <1>2, <2>2, ServedDrained
    <2>. QED BY <1>1, <2>12, <2>13 DEF QuietInv
  <1>. QED BY <1>5, <1>6

\* What the handler of a restore answers is the queue it announces, or one announced later.
LEMMA ToldQuiet ==
    ASSUME QuietInv, QueueInv', Told
    PROVE  QuietInv'
  <1>. DEFINE a == IF http.kind = "restore" THEN Snapshot ELSE Answered("ok")
              m == Replaced(http.queue)
  <1>1. /\ http.at = "applied" /\ UNCHANGED <<device, server, late, connected, forgotten>>
        /\ inbox' = IF connected THEN Append(inbox, m) ELSE inbox
        /\ IsAnswered(http', http, a)
        /\ missed' = \/ missed
                     \/ http.kind = "restore" /\ http.queue = device.queue /\ http.queue # server.active
    BY DEF Told, Elsewhere, ToDevice, Answer, IsAnswered
  <1>2. /\ Inv(device, server, http, late, inbox, made, forgotten)
        /\ DeviceType(device) /\ ServerType(server) /\ HttpType(http) /\ inbox \in Seq(Message)
        /\ Quiet(device, server, http, late, inbox, connected, forgotten, missed)
        /\ Starts(device, http) /\ Remembers(device, server, http, late, forgotten)
        /\ missed \in BOOLEAN /\ Drained(device, http)
    BY QuietIs
  <1>3. HttpType(http') /\ inbox' \in Seq(Message)
    BY DEF QueueInv, Inv, Types, InboxType
  <1>4. /\ http.kind \in {"start", "restore"} /\ ~Reading(http)
        /\ server.active \in DOMAIN server.queues
    BY <1>1, <1>2 DEF Inv, Types, HttpType, Reading, ServerType
  <1>5. /\ http'.kind = http.kind /\ http'.queue = http.queue /\ http'.edit = http.edit
        /\ http'.stale = http.stale /\ http'.at = "answered" /\ http'.answer = a
        /\ (\A d, la, f, p : Asks(d, http', la, f, p) => Asks(d, http, la, f, p))
        /\ \A status : Has(http', status) <=> a.status = status
    BY <1>1, <1>2, AnsweredWith
  <1>6. Drained(device', http')
    BY <1>1, <1>2, <1>4, <1>5, ServedDrained
  <1>7. m \in Message /\ m.type = "queueReplaced" /\ m.queue = http.queue
    BY <1>2, <1>4 DEF Replaced, Message, OfQueue, HttpType, Queue
  <1>8. CASE missed'
    <2>1. missed' \in BOOLEAN
      BY <1>8
    <2>2. Quiet(device, server, http', late, inbox', connected, forgotten, missed')
      BY <1>1, <1>2, <1>5, <1>8, <2>1, MissedOn
    <2>. QED BY <1>1, <1>6, <2>2 DEF QuietInv
  <1>9. CASE ~missed'
    <2>. HIDE DEF a
    <2>1. missed' = missed
      BY <1>1, <1>2, <1>9
    <2>2. connected => Grows(server, Calls(server, http), inbox, forgotten, server, Calls(server, http'),
                             inbox', forgotten)
      <3>1. Calls(server, http') = server.telling /\ Calls(server, http) = server.telling \cup {http.queue}
        BY <1>1, <1>5 DEF Calls
      <3>2. \A x \in Calls(server, http) : x \in Calls(server, http') \/ m = Replaced(x)
        BY <3>1
      <3>. HIDE DEF m
      <3>. QED BY <1>1, <1>2, <1>7, <3>2, Growing
    <2>3. Awaits(device, server, http, forgotten) => Awaits(device, server, http', forgotten)
      BY <1>1, <1>4, <1>5, SnapshotIs DEF Awaits, a
    <2>4. Answers(device, server, http', forgotten)
      BY <1>4, <1>5 DEF Answers
    <2>5. ASSUME connected, Settles(device, server, http, inbox, forgotten)
          PROVE  Restores(device, server, http', inbox', forgotten)
      <3>1. ASSUME http.kind = "restore", ~http.stale, http.queue = device.queue
            PROVE  Alarm(device.queue, Calls(server, http'), inbox', 0) /\ http'.answer.queue = device.queue
        <4>1. Alarm(device.queue, Calls(server, http), inbox, 0)
          BY <1>1, <2>5, <3>1 DEF Settles, Restores
        <4>2. 0 \in 0 .. Len(inbox)
          BY <1>2
        <4>3. Alarm(device.queue, Calls(server, http'), inbox', 0)
          BY <2>2, <2>5, <4>1, <4>2, GrowsOn
        <4>4. http'.answer.queue = server.active /\ http.queue = server.active
          BY <1>1, <1>5, <1>9, <3>1, SnapshotIs DEF a
        <4>. QED BY <3>1, <4>3, <4>4
      <3>2. ASSUME http.kind = "restore"
            PROVE  \E k \in DOMAIN inbox' :
                      /\ inbox'[k].type = "queueReplaced" /\ inbox'[k].queue = http.queue
                      /\ Soon(http'.answer.queue, http'.answer.content.edits, server, Calls(server, http'),
                              <<>>, inbox', k, forgotten)
        <4>. DEFINE k == Len(inbox) + 1
                    es == EditsIn(server, server.active)
        <4>. HIDE DEF m
        <4>1. k \in DOMAIN inbox' /\ inbox'[k] = m
          BY <1>1, <1>2, <1>7, <2>5
        <4>2. http'.answer.queue = server.active /\ http'.answer.content.edits = es
          BY <1>4, <1>5, <3>2, SnapshotIs DEF a, EditsIn
        <4>. HIDE DEF k, es
        <4>3. Prefix(es, es) /\ Len(es) + 1 .. Len(es) = {}
          <5>1. es \in Seq(Edit)
            BY <1>2, EditsInTyped DEF es
          <5>. QED BY <5>1, PrefixGoesOn
        <4>4. Current(server.active, es, server, <<>>, inbox', k, forgotten)
          BY <4>3 DEF Current, es
        <4>. QED BY <1>7, <4>1, <4>2, <4>4 DEF Soon
      <3>. QED BY <1>5, <3>1, <3>2 DEF Restores
    <2>6. \A q : Prefix(EditsIn(server, q), EditsIn(server, q))
      BY <1>2, EditsInTyped, PrefixGoesOn
    <2>7. Quiet(device, server, http', late, inbox', connected, forgotten, missed)
      BY <1>2, <1>3, <1>4, <1>5, <2>2, <2>3, <2>4, <2>5, <2>6, Serving
    <2>. QED BY <1>1, <1>6, <2>1, <2>7 DEF QuietInv
  <1>. QED BY <1>8, <1>9

\* A request or its answer is lost, the start's or restore's announcement with its handler.
LEMMA LoseQuiet ==
    ASSUME QuietInv, QueueInv', Lose
    PROVE  QuietInv'
  <1>1. /\ http.at \in {"sent", "applied", "answered"} /\ UNCHANGED <<device, connected, inbox, forgotten>>
        /\ IsAnswered(http', http, Answered("lost"))
    BY DEF Lose, Answer, IsAnswered
  <1>2. /\ Inv(device, server, http, late, inbox, made, forgotten)
        /\ DeviceType(device) /\ ServerType(server) /\ HttpType(http) /\ inbox \in Seq(Message)
        /\ Quiet(device, server, http, late, inbox, connected, forgotten, missed)
        /\ Starts(device, http) /\ Remembers(device, server, http, late, forgotten)
        /\ missed \in BOOLEAN /\ Drained(device, http)
    BY QuietIs
  <1>3. HttpType(http') /\ ServerType(server')
    BY DEF QueueInv, Inv, Types
  <1>4. /\ http'.kind = http.kind /\ http'.queue = http.queue /\ http'.edit = http.edit
        /\ http'.stale = http.stale /\ http'.at = "answered"
        /\ (\A d, la, f, p : Asks(d, http', la, f, p) => Asks(d, http, la, f, p))
        /\ \A status : Has(http', status) <=> "lost" = status
    <2>1. Answered("lost").status = "lost"
      BY AnsweredIs
    <2>. QED BY <1>1, <1>2, <2>1, AnsweredWith
  <1>5. Drained(device', http')
    <2>1. http.kind # "none"
      BY <1>1, <1>2 DEF HttpType
    <2>. QED BY <1>1, <1>2, <1>4, <2>1, ServedDrained
  <1>6. /\ server'.run = server.run /\ server'.active = server.active /\ server'.done = server.done
        /\ server'.queues = server.queues
    <2>1. server' = server \/ server' = [server EXCEPT !.telling = server.telling \cup {http.queue}]
      BY DEF Lose
    <2>. QED BY <1>2, <2>1 DEF ServerType
  <1>7. \A q : EditsIn(server', q) = EditsIn(server, q)
    BY <1>6 DEF EditsIn
  <1>8. \A e, q : Asks(device, http', late', e, q) => Asks(device, http, late, e, q)
    <2>1. \A r \in late' : \/ r \in late
                           \/ r.kind = http.kind /\ r.queue = http.queue /\ r.edit = http.edit
      BY DEF Lose
    <2>. QED BY <1>4, <2>1 DEF Asks
  <1>9. CASE missed' /\ missed' \in BOOLEAN
    <2>1. Quiet(device, server', http', late', inbox, connected, forgotten, missed')
      BY <1>2, <1>3, <1>4, <1>6, <1>7, <1>8, <1>9, MissedOn
    <2>. QED BY <1>1, <1>5, <2>1 DEF QuietInv
  <1>10. CASE /\ missed' = missed
              /\ http.at = "applied" => server'.telling = server.telling \cup {http.queue}
              /\ http.at # "applied" => server'.telling = server.telling
    <2>1. CASE Reading(http)
      <3>1. Reading(http') /\ Has(http', "lost")
        BY <1>4, <2>1 DEF Reading
      <3>2. Fetches(device, http', inbox, connected)
        BY <3>1 DEF Fetches
      <3>3. Quiet(device, server', http', late', inbox, connected, forgotten, missed)
        BY <1>2, <1>3, <1>4, <1>6, <1>7, <1>8, <3>2, MissedOn
      <3>. QED BY <1>1, <1>5, <1>10, <3>3 DEF QuietInv
    <2>2. CASE ~Reading(http)
      <3>1. Calls(server, http) \subseteq Calls(server', http')
        BY <1>1, <1>10 DEF Calls
      <3>2. Grows(server, Calls(server, http), inbox, forgotten, server', Calls(server', http'), inbox,
                  forgotten)
        BY <1>2, <1>3, <1>6, <1>7, <3>1, StayGrows
      <3>3. Awaits(device, server, http, forgotten) => Awaits(device, server', http', forgotten)
        BY <1>4, <1>6 DEF Awaits
      <3>4. Answers(device, server', http', forgotten) /\ Restores(device, server', http', inbox, forgotten)
        BY <1>4 DEF Answers, Restores
      <3>5. \A q : Prefix(EditsIn(server, q), EditsIn(server', q))
        BY <1>2, <1>7, EditsInTyped, PrefixGoesOn
      <3>6. Quiet(device, server', http', late', inbox, connected, forgotten, missed)
        BY <1>2, <1>3, <1>4, <1>6, <1>8, <2>2, <3>2, <3>3, <3>4, <3>5, Serving
      <3>. QED BY <1>1, <1>5, <1>10, <3>6 DEF QuietInv
    <2>. QED BY <2>1, <2>2
  <1>11. \/ missed' /\ missed' \in BOOLEAN
         \/ /\ missed' = missed
            /\ http.at = "applied" => server'.telling = server.telling \cup {http.queue}
            /\ http.at # "applied" => server'.telling = server.telling
    <2>1. CASE http.at # "applied"
      BY <2>1 DEF Lose
    <2>2. CASE http.at = "applied" /\ missed' = TRUE
      BY <2>2
    <2>3. CASE /\ http.at = "applied" /\ UNCHANGED missed
               /\ server' = [server EXCEPT !.telling = server.telling \cup {http.queue}]
      BY <1>2, <2>3 DEF ServerType
    <2>. QED BY <2>1, <2>2, <2>3 DEF Lose
  <1>. QED BY <1>9, <1>10, <1>11

\* The answer to a fetch is the active queue, which the device is about to show.
LEMMA ServeFetchQuiet ==
    ASSUME QuietInv, QueueInv', ServeFetch
    PROVE  QuietInv'
  <1>. DEFINE a == FetchAnswer(http.known)
  <1>1. /\ http.kind = "fetch" /\ http.at = "sent"
        /\ UNCHANGED <<device, server, late, connected, inbox, forgotten, missed>>
        /\ IsAnswered(http', http, a)
    BY DEF ServeFetch, AtServer, Answer, Elsewhere, IsAnswered
  <1>2. /\ Inv(device, server, http, late, inbox, made, forgotten)
        /\ DeviceType(device) /\ ServerType(server) /\ HttpType(http) /\ inbox \in Seq(Message)
        /\ Quiet(device, server, http, late, inbox, connected, forgotten, missed)
        /\ Starts(device, http) /\ Remembers(device, server, http, late, forgotten)
        /\ missed \in BOOLEAN /\ Drained(device, http)
    BY QuietIs
  <1>3. HttpType(http')
    BY DEF QueueInv, Inv, Types
  <1>. HIDE DEF a
  <1>4. /\ http'.kind = http.kind /\ http'.queue = http.queue /\ http'.edit = http.edit
        /\ http'.stale = http.stale /\ http'.at = "answered" /\ http'.answer = a
        /\ (\A d, la, f, p : Asks(d, http', la, f, p) => Asks(d, http, la, f, p))
        /\ \A status : Has(http', status) <=> a.status = status
    BY <1>1, <1>2, AnsweredWith
  <1>5. Drained(device', http')
    BY <1>1, <1>2, <1>4, ServedDrained
  <1>6. Answers(device, server, http', forgotten) /\ Restores(device, server, http', inbox, forgotten)
    BY <1>1, <1>4 DEF Answers, Restores
  <1>7. CASE http.stale
    <2>1. ~Reading(http) /\ http.at # "applied" /\ http.kind \notin {"start", "restore"}
      BY <1>1, <1>7 DEF Reading
    <2>2. Quiet(device, server, http', late, inbox, connected, forgotten, missed)
      BY <1>2, <1>3, <1>4, <1>6, <2>1, AnswerQuiet
    <2>. QED BY <1>1, <1>5, <2>2 DEF QuietInv
  <1>8. CASE ~http.stale
    <2>. DEFINE Good(q, es) == Current(q, es, server, device.held, inbox, 0, forgotten)
    <2>1. Reading(http')
      BY <1>1, <1>4, <1>8 DEF Reading
    <2>2. ASSUME NEW q, NEW es, q = server.active, q \notin forgotten.queues => es = EditsIn(server, q)
          PROVE  Good(q, es)
      <3>1. EditsIn(server, q) \in Seq(Edit)
        BY <1>2, EditsInTyped
      <3>2. Prefix(EditsIn(server, q), EditsIn(server, q))
            /\ Len(EditsIn(server, q)) + 1 .. Len(EditsIn(server, q)) = {}
        BY <3>1, PrefixGoesOn
      <3>. QED BY <2>2, <3>2 DEF Current
    <2>. HIDE DEF Good
    <2>3. /\ Good(Aim(device, http').queue, Aim(device, http').edits)
          /\ a.status \in {"ok", "same"} => a.run = server.run
      <3>1. CASE server.active = None
        <4>1. a = Answered("missing") /\ a.status = "missing"
          BY <3>1, AnsweredIs DEF FetchAnswer, a
        <4>2. Aim(device, http').queue = None /\ Aim(device, http').edits = <<>>
          BY <1>2, <1>3, <1>4, <2>1, <4>1, AimIs
        <4>3. EditsIn(server, None) = <<>>
          BY <1>2, IdsAssumption DEF ServerType, IsQueues, IdsAssumption, EditsIn
        <4>. QED BY <2>2, <3>1, <4>1, <4>2, <4>3
      <3>2. CASE server.active # None /\ http.known = [run |-> server.run, queue |-> server.active,
                                                       version |-> Version(server.queues[server.active])]
        <4>1. a = [Answered("same") EXCEPT !.run = server.run]
          BY <3>2 DEF FetchAnswer, a
        <4>2. a.status = "same" /\ a.run = server.run
          BY <4>1, AnsweredIs
        <4>3. Aim(device, http').queue = device.queue /\ Aim(device, http').edits = device.content.edits
          BY <1>2, <1>3, <1>4, <4>2, AimIs
        <4>4. /\ device.run = server.run /\ device.queue = server.active
              /\ Version(device.content) = Version(server.queues[server.active])
          <5>1. http.known = Known(device)
            BY <1>1, <1>2, <1>8 DEF Inv, Sames
          <5>2. server.run # 0
            BY <1>2 DEF ServerType
          <5>. QED BY <3>2, <5>1, <5>2 DEF Known, NoTag
        <4>5. device.queue \notin forgotten.queues => device.content.edits = EditsIn(server, device.queue)
          <5>1. device.content.edits \in Seq(Edit) /\ EditsIn(server, device.queue) \in Seq(Edit)
            BY <1>2, EditsInTyped DEF DeviceType, Contents
          <5>2. Len(device.content.edits) = Len(EditsIn(server, device.queue))
            BY <1>2, <3>2, <4>4 DEF EditsIn, Version, ServerType
          <5>3. device.queue \notin forgotten.queues
                    => Prefix(device.content.edits, EditsIn(server, device.queue))
            BY <1>1, <1>2, <4>4 DEF Inv, InStep, Installs, Behind
          <5>. QED BY <5>1, <5>2, <5>3, PrefixGoesOn
        <4>. QED BY <2>2, <4>2, <4>3, <4>4, <4>5
      <3>3. CASE server.active # None /\ http.known # [run |-> server.run, queue |-> server.active,
                                                       version |-> Version(server.queues[server.active])]
        <4>1. a = Snapshot
          BY <3>3 DEF FetchAnswer, a
        <4>2. /\ Aim(device, http').queue = server.active
              /\ Aim(device, http').edits = server.queues[server.active].edits
          BY <1>2, <1>3, <1>4, <2>1, <4>1, SnapshotIs, AimIs
        <4>3. EditsIn(server, server.active) = server.queues[server.active].edits
          BY <1>2, <3>3 DEF EditsIn, ServerType
        <4>. QED BY <2>2, <4>1, <4>2, <4>3, SnapshotIs
      <3>. QED BY <3>1, <3>2, <3>3
    <2>4. Settles(device, server, http', inbox, forgotten)
      BY <1>4, <1>6, <2>1, <2>3 DEF Settles, Soon, Good
    <2>5. Starts(device, http')
      BY <1>2, <1>4 DEF Starts, Reads
    <2>6. Remembers(device, server, http', late, forgotten)
      BY <1>2, <1>4 DEF Remembers
    <2>7. Quiet(device, server, http', late, inbox, connected, forgotten, missed)
      BY <1>2, <2>4, <2>5, <2>6 DEF Quiet, Catches
    <2>. QED BY <1>1, <1>5, <2>7 DEF QuietInv
  <1>. QED BY <1>2, <1>7, <1>8 DEF HttpType

\* The server takes an edit of anyone's and tells the device.
LEMMA ApplyQuiet ==
    ASSUME QuietInv, NEW e \in Edit, Apply(e), server.active # None,
           \A q \in Queue : Asks(device, http, late, e, q) => q = server.active
    PROVE  Quiet(device, server', http, late, inbox', connected, forgotten, missed)
  <1>. DEFINE s2 == AfterEdit(server, e)
              n == Len(server.queues[server.active].edits) + 1
  <1>1. /\ DeviceType(device) /\ ServerType(server) /\ HttpType(http) /\ inbox \in Seq(Message)
        /\ Quiet(device, server, http, late, inbox, connected, forgotten, missed)
    BY QuietIs
  <1>2. server' = s2
    BY DEF Apply, AfterEdit
  <1>3. Len(Append(server.queues[server.active].edits, e)) = n
    BY <1>1 DEF ServerType, IsQueues, Contents
  <1>4. inbox' = IF connected THEN Append(inbox, Edited(server.active, n, e)) ELSE inbox
    BY <1>3 DEF Apply, ToDevice
  <1>5. Quiet(device, s2, http, late, IF connected THEN Append(inbox, Edited(server.active, n, e)) ELSE inbox,
              connected, forgotten, missed)
    BY <1>1, EditQuiet
  <1>. HIDE DEF s2, n
  <1>. QED BY <1>2, <1>4, <1>5

\* Requests given up are forgotten.
LEMMA LateQuiet ==
    ASSUME NEW d, NEW s, NEW h, NEW la, NEW ib, NEW c, NEW fg, NEW ms, Quiet(d, s, h, la, ib, c, fg, ms),
           NEW la2, la2 \subseteq la
    PROVE  Quiet(d, s, h, la2, ib, c, fg, ms)
  <1>1. \A e, q : Asks(d, h, la2, e, q) => Asks(d, h, la, e, q)
    BY DEF Asks
  <1>. QED BY <1>1 DEF Quiet, Remembers

\* A queue is restored for anyone else.
LEMMA RestoreQuiet ==
    ASSUME QuietInv, ServerType(server'), NEW q, server' = AfterRestore(server, q, Untold(q))
    PROVE  Quiet(device, server', http, late, inbox, connected, forgotten, missed)
  <1>1. /\ DeviceType(device) /\ ServerType(server) /\ HttpType(http) /\ inbox \in Seq(Message)
        /\ Quiet(device, server, http, late, inbox, connected, forgotten, missed)
    BY QuietIs
  <1>2. /\ server'.run = server.run /\ server'.active = q /\ server'.done = server.done
        /\ server'.telling = Untold(q) /\ server'.queues = server.queues
    BY <1>1 DEF ServerType, AfterRestore
  <1>3. \A p : EditsIn(server', p) = EditsIn(server, p)
    BY <1>2 DEF EditsIn
  <1>4. server'.active \in server'.telling /\ \A x \in server.telling : x \in server'.telling
    BY <1>2 DEF Untold
  <1>5. Hello \in Message
    BY DEF Hello, Message, OfQueue
  <1>6. inbox \in {inbox, Append(inbox, Hello)} /\ DOMAIN server'.queues \subseteq DOMAIN server.queues
    BY <1>2
  <1>. QED BY <1>1, <1>2, <1>3, <1>4, <1>5, <1>6, StayQuiet

\* A request given up for lost arrives after all.
LEMMA ArriveQuiet ==
    ASSUME QuietInv, QueueInv', NEW r \in late, Arrive(r)
    PROVE  QuietInv'
  <1>1. late' = late \ {r} /\ UNCHANGED <<device, http, connected, made, missed, forgotten>>
    BY DEF Arrive
  <1>2. /\ Inv(device, server, http, late, inbox, made, forgotten)
        /\ DeviceType(device) /\ ServerType(server) /\ HttpType(http) /\ inbox \in Seq(Message)
        /\ Quiet(device, server, http, late, inbox, connected, forgotten, missed)
        /\ Drained(device, http)
    BY QuietIs
  <1>3. ServerType(server')
    BY DEF QueueInv, Inv, Types
  <1>4. Quiet(device, server', http, late, inbox', connected, forgotten, missed)
    <2>1. CASE r.kind = "edit" /\ EditAnswer(r.queue, r.edit).status = "applied"
      <3>1. Apply(r.edit)
        BY <2>1 DEF Arrive
      <3>2. server.active = r.queue /\ server.active # None
        BY <2>1, AppliedIs
      <3>3. Asks(device, http, late, r.edit, r.queue)
        BY <2>1 DEF Asks
      <3>4. r.edit \in OwnEdit /\ r.edit \in Edit /\ r.queue \in Queue
        BY <1>2, <2>1 DEF Inv, Types, LateType, Edit
      <3>5. \A p \in Queue : Asks(device, http, late, r.edit, p) => p = server.active
        BY <1>2, <3>2, <3>3, <3>4 DEF Inv, OneQueue
      <3>. QED BY <3>1, <3>2, <3>4, <3>5, ApplyQuiet
    <2>2. CASE r.kind = "start" /\ r.queue \notin DOMAIN server.queues
      <3>1. Start(r.queue, Untold(r.queue)) /\ UNCHANGED inbox
        BY <2>2 DEF Arrive
      <3>2. PICK repeat \in BOOLEAN, rows \in {"viewed", "resolved"} :
               server' = AfterStart(server, r.queue, repeat, rows, Untold(r.queue))
        BY <1>2, <3>1, StartIs
      <3>3. r.queue \in Queue
        BY <1>2, <2>2 DEF Inv, Types, LateType, Queue
      <3>4. Calls(server, http) \cup {r.queue} \subseteq Calls(server', http)
        BY <1>2, <2>2, <3>2, AfterStartIs DEF Calls, Untold
      <3>5. Quiet(device, server', http, late, inbox, connected, forgotten, missed)
        BY <1>2, <1>3, <2>2, <3>2, <3>3, <3>4, StartQuiet
      <3>. QED BY <3>1, <3>5
    <2>3. CASE r.kind = "restore" /\ CanRestore(r.queue)
      <3>1. server' = AfterRestore(server, r.queue, Untold(r.queue)) /\ UNCHANGED inbox
        BY <2>3 DEF Arrive, Restore, AfterRestore
      <3>. QED BY <1>3, <3>1, RestoreQuiet
    <2>4. CASE UNCHANGED <<server, inbox>>
      BY <1>2, <2>4
    <2>. QED BY <2>1, <2>2, <2>3, <2>4 DEF Arrive
  <1>5. late' \subseteq late
    BY <1>1
  <1>6. Quiet(device, server', http, late', inbox', connected, forgotten, missed)
    BY <1>4, <1>5, LateQuiet
  <1>. QED BY <1>1, <1>2, <1>6 DEF QuietInv

\* Another device edits the queue the account plays.
LEMMA OtherEditsQuiet ==
    ASSUME QuietInv, QueueInv', NEW e \in OtherEdit, OtherEdits(e)
    PROVE  QuietInv'
  <1>1. server.active # None /\ Apply(e) /\ UNCHANGED <<device, http, late, connected, forgotten, missed>>
    BY DEF OtherEdits, Aside
  <1>2. /\ Inv(device, server, http, late, inbox, made, forgotten) /\ DeviceType(device) /\ HttpType(http)
        /\ Drained(device, http)
    BY QuietIs
  <1>3. e \in Edit /\ e \notin OwnEdit
    BY IdsAssumption DEF IdsAssumption, Edit
  <1>4. \A q \in Queue : ~Asks(device, http, late, e, q)
    BY <1>2, <1>3, AsksTyped DEF Inv, Types
  <1>5. Quiet(device, server', http, late, inbox', connected, forgotten, missed)
    BY <1>1, <1>3, <1>4, ApplyQuiet
  <1>. QED BY <1>1, <1>2, <1>5 DEF QuietInv

\* Another device starts a queue.
LEMMA OtherStartsQuiet ==
    ASSUME QuietInv, QueueInv', NEW q \in Others, OtherStarts(q)
    PROVE  QuietInv'
  <1>1. /\ q \notin made /\ Start(q, Untold(q))
        /\ UNCHANGED <<device, http, late, inbox, connected, forgotten, missed>>
    BY DEF OtherStarts, Aside
  <1>2. /\ Inv(device, server, http, late, inbox, made, forgotten)
        /\ DeviceType(device) /\ ServerType(server) /\ HttpType(http) /\ inbox \in Seq(Message)
        /\ Quiet(device, server, http, late, inbox, connected, forgotten, missed)
        /\ Drained(device, http)
    BY QuietIs
  <1>3. ServerType(server')
    BY DEF QueueInv, Inv, Types
  <1>4. q \in Queue /\ q \notin DOMAIN server.queues
    BY <1>1, <1>2, IdsAssumption DEF IdsAssumption, Queue, Inv, KnownQueues
  <1>5. PICK repeat \in BOOLEAN, rows \in {"viewed", "resolved"} :
           server' = AfterStart(server, q, repeat, rows, Untold(q))
    BY <1>1, <1>2, StartIs
  <1>6. Calls(server, http) \cup {q} \subseteq Calls(server', http)
    BY <1>2, <1>4, <1>5, AfterStartIs DEF Calls, Untold
  <1>7. Quiet(device, server', http, late, inbox, connected, forgotten, missed)
    BY <1>2, <1>3, <1>4, <1>5, <1>6, StartQuiet
  <1>. QED BY <1>1, <1>2, <1>7 DEF QuietInv

\* Another device restores a queue.
LEMMA OtherRestoresQuiet ==
    ASSUME QuietInv, QueueInv', NEW q \in Queue, OtherRestores(q)
    PROVE  QuietInv'
  <1>1. /\ server' = AfterRestore(server, q, Untold(q))
        /\ UNCHANGED <<device, http, late, inbox, connected, forgotten, missed>>
    BY DEF OtherRestores, Aside, Restore, AfterRestore
  <1>2. Drained(device, http)
    BY QuietIs
  <1>3. ServerType(server')
    BY DEF QueueInv, Inv, Types
  <1>4. Quiet(device, server', http, late, inbox, connected, forgotten, missed)
    BY <1>1, <1>3, RestoreQuiet
  <1>. QED BY <1>1, <1>2, <1>4 DEF QuietInv

\* A start or restore is announced, or its handler ends before it does.
LEMMA AnnounceQuiet ==
    ASSUME QuietInv, QueueInv', NEW q \in Queue, Announce(q) \/ HangUp(q)
    PROVE  QuietInv'
  <1>1. /\ server' = [server EXCEPT !.telling = server.telling \ {q}]
        /\ UNCHANGED <<device, http, late, connected, forgotten>>
    BY DEF Announce, HangUp, Aside
  <1>2. /\ DeviceType(device) /\ ServerType(server) /\ HttpType(http) /\ inbox \in Seq(Message)
        /\ Quiet(device, server, http, late, inbox, connected, forgotten, missed)
        /\ Starts(device, http) /\ Remembers(device, server, http, late, forgotten)
        /\ Drained(device, http)
    BY QuietIs
  <1>3. ServerType(server')
    BY DEF QueueInv, Inv, Types
  <1>4. /\ server'.run = server.run /\ server'.active = server.active /\ server'.done = server.done
        /\ server'.telling = server.telling \ {q} /\ server'.queues = server.queues
    BY <1>1, <1>2 DEF ServerType
  <1>5. \A p : EditsIn(server', p) = EditsIn(server, p)
    BY <1>4 DEF EditsIn
  <1>6. CASE Announce(q)
    <2>. DEFINE m == Replaced(q)
    <2>1. UNCHANGED missed /\ inbox' = IF connected THEN Append(inbox, m) ELSE inbox
      BY <1>6 DEF Announce, ToDevice
    <2>2. m \in Message
      BY DEF Replaced, Message, OfQueue
    <2>3. \A x \in server.telling : x \in server'.telling \/ m = Replaced(x)
      BY <1>4
    <2>. HIDE DEF m
    <2>4. connected => /\ inbox' \in {inbox, Append(inbox, m)}
                       /\ \A x \in server.telling : x \in server'.telling \/ (inbox' = Append(inbox, m)
                                                                              /\ m = Replaced(x))
      BY <2>1, <2>3
    <2>5. DOMAIN server'.queues \subseteq DOMAIN server.queues
      BY <1>4
    <2>6. Quiet(device, server', http, late, inbox', connected, forgotten, missed)
      BY <1>2, <1>3, <1>4, <1>5, <2>2, <2>4, <2>5, StayQuiet
    <2>. QED BY <1>1, <1>2, <2>1, <2>6 DEF QuietInv
  <1>7. CASE HangUp(q)
    <2>1. missed' /\ missed' \in BOOLEAN
      BY <1>7 DEF HangUp
    <2>2. Quiet(device, server', http, late, inbox', connected, forgotten, missed')
      BY <1>2, <1>3, <1>4, <1>5, <2>1, MissedOn
    <2>. QED BY <1>1, <1>2, <2>2 DEF QuietInv
  <1>. QED BY <1>6, <1>7

\* The account is saved, and the queues it lets go of are forgotten.
LEMMA SaveQuiet ==
    ASSUME QuietInv, QueueInv', Save
    PROVE  QuietInv'
  <1>. DEFINE gone == DOMAIN server.queues \ KeptQueues(server)
              queues == [q \in KeptQueues(server) |-> server.queues[q]]
  <1>1. /\ server' = [server EXCEPT !.queues = queues,
               !.saved = [active |-> server.active, queues |-> queues]]
        /\ forgotten' = [edits |-> forgotten.edits \cup UNION {EditsOf(q) : q \in gone},
                         queues |-> forgotten.queues \cup gone]
        /\ UNCHANGED <<device, http, late, connected, inbox, missed>>
    BY DEF Save, KeptQueues
  <1>2. /\ DeviceType(device) /\ ServerType(server) /\ HttpType(http) /\ inbox \in Seq(Message)
        /\ Quiet(device, server, http, late, inbox, connected, forgotten, missed)
        /\ Drained(device, http)
    BY QuietIs
  <1>3. ServerType(server')
    BY DEF QueueInv, Inv, Types
  <1>4. /\ server'.run = server.run /\ server'.active = server.active /\ server'.done = server.done
        /\ server'.telling = server.telling /\ server'.queues = queues
    BY <1>1, <1>2 DEF ServerType
  <1>5. forgotten'.queues = forgotten.queues \cup gone
    BY <1>1
  <1>6. DOMAIN queues \subseteq DOMAIN server.queues
        /\ \A q : q \in forgotten'.queues \/ EditsIn(server', q) = EditsIn(server, q)
    <2>1. DOMAIN queues = KeptQueues(server) /\ \A q \in KeptQueues(server) : queues[q] = server.queues[q]
      OBVIOUS
    <2>2. KeptQueues(server) \subseteq DOMAIN server.queues
      BY DEF KeptQueues
    <2>. HIDE DEF queues
    <2>. QED BY <1>4, <1>5, <2>1, <2>2 DEF EditsIn
  <1>. HIDE DEF queues, gone
  <1>7. Hello \in Message
    BY DEF Hello, Message, OfQueue
  <1>8. /\ inbox \in {inbox, Append(inbox, Hello)} /\ forgotten.queues \subseteq forgotten'.queues
        /\ \A x \in server.telling : x \in server'.telling
    BY <1>4, <1>5
  <1>9. Quiet(device, server', http, late, inbox, connected, forgotten', missed)
    BY <1>2, <1>3, <1>4, <1>6, <1>7, <1>8, StayQuiet
  <1>. QED BY <1>1, <1>2, <1>9 DEF QuietInv

\* Once connected again, the device fetches the queue.
LEMMA ConnectionQuiet ==
    ASSUME QuietInv, QueueInv', Disconnect \/ Reconnect \/ Restart
    PROVE  QuietInv'
  <1>1. /\ DeviceType(device) /\ ServerType(server) /\ HttpType(http) /\ inbox \in Seq(Message)
        /\ Starts(device, http) /\ Remembers(device, server, http, late, forgotten)
        /\ Drained(device, http) /\ missed \in BOOLEAN
    BY QuietIs
  <1>2. ServerType(server')
    BY DEF QueueInv, Inv, Types
  <1>3. CASE Disconnect \/ Reconnect
    <2>1. /\ UNCHANGED <<device, server, http, late, missed, forgotten>>
          /\ \/ ~connected'
             \/ inbox' = Append(inbox, Hello)
      BY <1>3 DEF Disconnect, Reconnect
    <2>2. Fetches(device, http, inbox', connected')
      <3>1. Append(inbox, Hello)[Len(inbox) + 1] = Hello /\ Len(inbox) + 1 \in DOMAIN Append(inbox, Hello)
        BY <1>1
      <3>2. Hello.type = "hello"
        BY DEF Hello
      <3>. QED BY <2>1, <3>1, <3>2 DEF Fetches
    <2>3. Quiet(device, server, http, late, inbox', connected', forgotten, missed)
      BY <1>1, <2>2, MissedOn
    <2>. QED BY <1>1, <2>1, <2>3 DEF QuietInv
  <1>4. CASE Restart
    <2>1. /\ server'.done = <<>> /\ late' = {} /\ ~connected' /\ UNCHANGED <<device, missed>>
          /\ http' = http \/ (IsAnswered(http', http, Answered("lost")) /\ http.at \in {"sent", "applied"})
      BY <1>1, <1>4 DEF Restart, ServerType, IsAnswered
    <2>2. /\ http'.kind = http.kind /\ http'.queue = http.queue /\ http'.edit = http.edit
          /\ http'.stale = http.stale
          /\ (\A d, la, f, p : Asks(d, http', la, f, p) => Asks(d, http, la, f, p))
      BY <1>1, <2>1, AnsweredWith
    <2>3. \A e, q : Asks(device, http', late', e, q) => Asks(device, http, late, e, q)
      BY <2>1, <2>2 DEF Asks
    <2>4. Fetches(device, http', inbox', connected')
      BY <2>1 DEF Fetches
    <2>5. Quiet(device, server', http', late', inbox', connected', forgotten', missed)
      BY <1>1, <1>2, <2>1, <2>2, <2>3, <2>4, MissedOn
    <2>6. Drained(device', http')
      <3>1. http' = http \/ http'.kind # "none"
        BY <1>1, <2>1, <2>2 DEF HttpType
      <3>. QED BY <1>1, <2>1, <3>1, ServedDrained
    <2>. QED BY <2>1, <2>5, <2>6 DEF QuietInv
  <1>. QED BY <1>3, <1>4

-----------------------------------------------------------------------------
(* The device's steps.                                                     *)

\* What is sent next, if anything, is what there is to do.
LEMMA DrainQuiet ==
    ASSUME NEW d, NEW s, NEW la, NEW ib, NEW c, NEW fg, NEW ms, DeviceType(d),
           Quiet(d, s, NothingSent, la, ib, c, fg, ms)
    PROVE  Drained(After(d), Work(d)) /\ Quiet(After(d), s, Work(d), la, ib, c, fg, ms)
  <1>. DEFINE d2 == After(d)
              h == Work(d)
              n == NothingSent
  <1>1. /\ DeviceType(d2) /\ d2.queue = d.queue /\ d2.content = d.content /\ d2.pending = d.pending
        /\ d2.held = d.held /\ d2.starting = d.starting
        /\ h.kind # "fetch" => d2 = d
    BY AfterIs
  <1>2. /\ HttpType(h) /\ h.at \in {"idle", "sent"} /\ ~h.stale
        /\ h.kind = "edit" => \E i \in DOMAIN d.pending : h.edit = d.pending[i].edit
               /\ h.queue = d.pending[i].queue
        /\ d.starting # None => h.kind = "start"
        /\ h.kind = "none" => h = NothingSent
        /\ h.kind # "none" => h.at = "sent"
    BY WorkIs
  <1>3. n.kind = "none" /\ n.at = "idle" /\ HttpType(n)
    BY NothingSentIs
  <1>4. Quiet(d, s, n, la, ib, c, fg, ms)
    OBVIOUS
  <1>5. Drained(d2, h)
    BY <1>1, <1>2 DEF Drained
  <1>. HIDE DEF d2, h, n
  <1>6. Starts(d2, h)
    BY <1>1, <1>2, <1>4 DEF Quiet, Starts, Reads
  <1>7. Remembers(d2, s, h, la, fg)
    <2>1. \A e, q : Asks(d2, h, la, e, q) => Asks(d, n, la, e, q)
      BY <1>1, <1>2, <1>3 DEF Asks
    <2>. QED BY <1>4, <2>1 DEF Quiet, Remembers
  <1>8. \A status : ~Has(h, status) /\ ~Has(n, status)
    BY <1>2, <1>3 DEF Has
  <1>9. ASSUME Fetches(d, n, ib, c) PROVE Catches(d2, s, h, ib, c, fg)
    BY <1>1, <1>2, <1>3, <1>9 DEF Fetches, Catches, Reading
  <1>10. ASSUME Awaits(d, s, n, fg) PROVE Catches(d2, s, h, ib, c, fg)
    <2>1. Awaits(d2, s, h, fg)
      BY <1>1, <1>2, <1>8, <1>10 DEF Awaits
    <2>. QED BY <2>1 DEF Catches
  <1>11. ASSUME Settles(d, s, n, ib, fg) PROVE Catches(d2, s, h, ib, c, fg)
    <2>1. Calls(s, h) = Calls(s, n)
      BY <1>2, <1>3 DEF Calls
    <2>2. Aim(d2, h) = Aim(d, n)
      BY <1>1, <1>8 DEF Aim
    <2>3. Rest(d, s, fg) => Rest(d2, s, fg)
      BY <1>1 DEF Rest
    <2>4. ~Reading(n)
      BY <1>3 DEF Reading
    <2>5. Restores(d2, s, h, ib, fg) /\ Answers(d2, s, h, fg)
      BY <1>2, <1>8 DEF Restores, Answers
    <2>6. Settles(d2, s, h, ib, fg)
      BY <1>1, <1>8, <1>11, <2>1, <2>2, <2>3, <2>4, <2>5 DEF Settles
    <2>. QED BY <2>6 DEF Catches
  <1>12. ms \/ Catches(d2, s, h, ib, c, fg)
    BY <1>4, <1>9, <1>10, <1>11 DEF Quiet, Catches
  <1>13. Quiet(d2, s, h, la, ib, c, fg, ms)
    BY <1>4, <1>6, <1>7, <1>12 DEF Quiet
  <1>. QED BY <1>5, <1>13 DEF d2, h

\* Or it waits for the request under way.
LEMMA HandledQuiet ==
    ASSUME NEW d, NEW s, NEW la, NEW ib, NEW c, NEW fg, NEW ms, DeviceType(d),
           Quiet(d, s, http, la, ib, c, fg, ms), Drained(device, http), Handled(d)
    PROVE  Drained(device', http') /\ Quiet(device', s, http', la, ib, c, fg, ms)
  <1>1. CASE http = NothingSent
    <2>1. device' = After(d) /\ http' = Work(d) /\ Quiet(d, s, NothingSent, la, ib, c, fg, ms)
      BY <1>1 DEF Handled, Drain, After
    <2>2. Drained(After(d), Work(d)) /\ Quiet(After(d), s, Work(d), la, ib, c, fg, ms)
      BY <2>1, DrainQuiet
    <2>. QED BY <2>1, <2>2
  <1>2. CASE http # NothingSent
    <2>1. device' = d /\ http' = http /\ http.kind # "none"
      BY <1>2 DEF Handled, Drained
    <2>. QED BY <2>1 DEF Drained
  <1>. QED BY <1>1, <1>2

\* Nothing but some pending edits went.
Lighter(d2, d) ==
    /\ DeviceType(d2) /\ d2.queue = d.queue /\ d2.content = d.content /\ d2.held = d.held
    /\ DOMAIN d2.pending \subseteq DOMAIN d.pending
    /\ \A i \in DOMAIN d2.pending : d2.pending[i] = d.pending[i]
    /\ Refetches(d2, d)
LEMMA QuietStays ==
    ASSUME NEW d, NEW s, NEW h, NEW la, NEW ib, NEW c, NEW fg, NEW ms, Quiet(d, s, h, la, ib, c, fg, ms),
           DeviceType(d), HttpType(h), NEW d2, Lighter(d2, d),
           d2.starting = d.starting \/ (d2.starting = None /\ (d2.refetch \/ ~Awaits(d, s, h, fg)))
    PROVE  Quiet(d2, s, h, la, ib, c, fg, ms)
  <1>1. /\ DeviceType(d2) /\ d2.queue = d.queue /\ d2.content = d.content /\ d2.held = d.held
        /\ DOMAIN d2.pending \subseteq DOMAIN d.pending
        /\ \A i \in DOMAIN d2.pending : d2.pending[i] = d.pending[i]
        /\ d.refetch => d2.refetch
    BY DEF Lighter, Refetches
  <1>2. Edits(d2.pending) \subseteq Edits(d.pending)
    BY <1>1 DEF Edits
  <1>3. \A e, q : Asks(d2, h, la, e, q) => Asks(d, h, la, e, q)
    BY <1>1 DEF Asks
  <1>4. Starts(d2, h)
    BY <1>1, <1>2 DEF Quiet, Starts
  <1>5. Remembers(d2, s, h, la, fg)
    BY <1>3 DEF Quiet, Remembers
  <1>6. ASSUME Fetches(d, h, ib, c) PROVE Catches(d2, s, h, ib, c, fg)
    BY <1>1, <1>6 DEF Fetches, Catches
  <1>7. ASSUME Awaits(d, s, h, fg) PROVE Catches(d2, s, h, ib, c, fg)
    BY <1>1, <1>7 DEF Awaits, Fetches, Catches
  <1>8. ASSUME Settles(d, s, h, ib, fg) PROVE Catches(d2, s, h, ib, c, fg)
    <2>1. Aim(d2, h) = Aim(d, h)
      BY <1>1 DEF Aim
    <2>2. Rest(d, s, fg) => Rest(d2, s, fg)
      BY <1>1 DEF Rest
    <2>3. Restores(d2, s, h, ib, fg) /\ Answers(d2, s, h, fg)
      BY <1>1, <1>2, <1>8 DEF Settles, Restores, Answers
    <2>4. Settles(d2, s, h, ib, fg)
      BY <1>1, <1>8, <2>1, <2>2, <2>3 DEF Settles
    <2>. QED BY <2>4 DEF Catches
  <1>9. ms \/ Catches(d2, s, h, ib, c, fg)
    BY <1>6, <1>7, <1>8 DEF Quiet, Catches
  <1>. QED BY <1>4, <1>5, <1>9 DEF Quiet

\* An answer that says nothing of the queue ends the request.
LEMMA QuietEnds ==
    ASSUME NEW d, NEW s, NEW h, NEW la, NEW ib, NEW c, NEW fg, NEW ms, Quiet(d, s, h, la, ib, c, fg, ms),
           DeviceType(d), HttpType(h), ~Reading(h), h.at # "applied"
    PROVE  Quiet(d, s, NothingSent, la, ib, c, fg, ms)
  <1>. DEFINE n == NothingSent
  <1>1. n.kind = "none" /\ n.at = "idle" /\ HttpType(n)
    BY NothingSentIs
  <1>. HIDE DEF n
  <1>2. \A status : ~Has(n, status)
    BY <1>1 DEF Has
  <1>3. ~Reading(n)
    BY <1>1 DEF Reading
  <1>4. Starts(d, n)
    BY <1>1 DEF Quiet, Starts, Reads
  <1>5. Remembers(d, s, n, la, fg)
    <2>1. \A e, q : Asks(d, n, la, e, q) => Asks(d, h, la, e, q)
      BY <1>1 DEF Asks
    <2>. QED BY <2>1 DEF Quiet, Remembers
  <1>6. ASSUME Fetches(d, h, ib, c) PROVE Catches(d, s, n, ib, c, fg)
    BY <1>6 DEF Fetches, Catches
  <1>7. ASSUME Awaits(d, s, h, fg) PROVE Catches(d, s, n, ib, c, fg)
    <2>1. Awaits(d, s, n, fg)
      BY <1>1, <1>2, <1>7 DEF Awaits
    <2>. QED BY <2>1 DEF Catches
  <1>8. ASSUME Settles(d, s, h, ib, fg) PROVE Catches(d, s, n, ib, c, fg)
    <2>1. Calls(s, n) = Calls(s, h)
      BY <1>1 DEF Calls
    <2>2. Aim(d, n) = Aim(d, h)
      BY <1>2 DEF Aim
    <2>3. Restores(d, s, n, ib, fg) /\ Answers(d, s, n, fg)
      BY <1>1 DEF Restores, Answers
    <2>4. Settles(d, s, n, ib, fg)
      BY <1>2, <1>8, <2>1, <2>2, <2>3 DEF Settles
    <2>. QED BY <2>4 DEF Catches
  <1>9. ms \/ Catches(d, s, n, ib, c, fg)
    BY <1>6, <1>7, <1>8 DEF Quiet, Catches
  <1>10. Quiet(d, s, n, la, ib, c, fg, ms)
    BY <1>4, <1>5, <1>9 DEF Quiet
  <1>. QED BY <1>10 DEF n

\* An edit of the user's waits to be sent (edit).
LEMMA MadeQuiet ==
    ASSUME NEW d, NEW s, NEW h, NEW la, NEW ib, NEW c, NEW fg, NEW ms, Quiet(d, s, h, la, ib, c, fg, ms),
           DeviceType(d), NEW e, e \notin ToSet(d.content.edits), h.kind = "edit" => h.edit # e,
           \A i \in DOMAIN s.done : s.done[i].edit # e
    PROVE  Quiet(Made(d, e), s, h, la, ib, c, fg, ms)
  <1>. DEFINE d2 == Made(d, e)
              place == d.count + 1
              p == [edit |-> e, queue |-> d.queue, version |-> 0]
  <1>1. place \notin DOMAIN d.pending
    BY DEF DeviceType
  <1>2. p.edit = e /\ ~Sent(p)
    BY DEF Sent
  <1>. HIDE DEF p
  <1>3. /\ d2.queue = d.queue /\ d2.content = d.content /\ d2.held = d.held
        /\ d2.starting = d.starting /\ d2.refetch = d.refetch
        /\ d2.pending = [i \in DOMAIN d.pending \cup {place} |-> IF i = place THEN p ELSE d.pending[i]]
    BY DEF DeviceType, Made, p
  <1>4. /\ DOMAIN d2.pending = DOMAIN d.pending \cup {place} /\ d2.pending[place] = p
        /\ \A i \in DOMAIN d.pending : d2.pending[i] = d.pending[i]
    BY <1>1, <1>3
  <1>. HIDE DEF d2, place
  <1>5. \A x \in Edits(d2.pending) : x \in Edits(d.pending) \/ x = e
    BY <1>2, <1>4 DEF Edits
  <1>6. \A x, q : Asks(d2, h, la, x, q) => Asks(d, h, la, x, q) \/ x = e
    BY <1>2, <1>4 DEF Asks
  <1>7. Starts(d2, h)
    BY <1>2, <1>3, <1>4, <1>5 DEF Quiet, Starts
  <1>8. Remembers(d2, s, h, la, fg)
    BY <1>6 DEF Quiet, Remembers
  <1>9. ASSUME Fetches(d, h, ib, c) PROVE Catches(d2, s, h, ib, c, fg)
    BY <1>3, <1>9 DEF Fetches, Catches
  <1>10. ASSUME Awaits(d, s, h, fg) PROVE Catches(d2, s, h, ib, c, fg)
    BY <1>3, <1>10 DEF Awaits, Catches
  <1>11. ASSUME Settles(d, s, h, ib, fg) PROVE Catches(d2, s, h, ib, c, fg)
    <2>1. Aim(d2, h) = Aim(d, h)
      BY <1>3 DEF Aim
    <2>2. Rest(d, s, fg) => Rest(d2, s, fg)
      BY <1>2, <1>3, <1>4 DEF Rest
    <2>3. Restores(d2, s, h, ib, fg)
      BY <1>3, <1>11 DEF Settles, Restores
    <2>4. Answers(d2, s, h, fg)
      BY <1>5, <1>11 DEF Settles, Answers
    <2>5. Settles(d2, s, h, ib, fg)
      BY <1>3, <1>11, <2>1, <2>2, <2>3, <2>4 DEF Settles
    <2>. QED BY <2>5 DEF Catches
  <1>12. ms \/ Catches(d2, s, h, ib, c, fg)
    BY <1>9, <1>10, <1>11 DEF Quiet, Catches
  <1>13. Quiet(d2, s, h, la, ib, c, fg, ms)
    BY <1>7, <1>8, <1>12 DEF Quiet
  <1>. QED BY <1>13 DEF d2

\* The edit is made.
LEMMA UserEditQuiet ==
    ASSUME QuietInv, QueueInv', NEW e \in OwnEdit, UserEdit(e)
    PROVE  QuietInv'
  <1>1. /\ e \notin made /\ device.queue # None /\ Handled(Made(device, e))
        /\ UNCHANGED <<server, late, connected, inbox, missed, forgotten>>
    BY DEF UserEdit
  <1>2. /\ Inv(device, server, http, late, inbox, made, forgotten) /\ DeviceType(device) /\ HttpType(http)
        /\ Quiet(device, server, http, late, inbox, connected, forgotten, missed)
        /\ Drained(device, http)
    BY QuietIs
  <1>3. e # Past /\ e \in Edit
    BY IdsAssumption DEF IdsAssumption, Edit
  <1>4. e \notin ToSet(device.content.edits) /\ \A i \in DOMAIN server.done : server.done[i].edit # e
    BY <1>1, <1>2, <1>3 DEF Inv, KnownEdits
  <1>5. http.kind = "edit" => http.edit # e
    <2>1. http.kind = "edit" => /\ http.edit \in OwnEdit /\ http.queue \in Queue
                                /\ Asks(device, http, late, http.edit, http.queue)
      BY <1>2 DEF HttpType, Asks
    <2>. QED BY <1>1, <1>2, <2>1 DEF Inv, KnownEdits
  <1>6. Quiet(Made(device, e), server, http, late, inbox, connected, forgotten, missed)
    BY <1>2, <1>4, <1>5, MadeQuiet
  <1>7. DeviceType(Made(device, e))
    <2>1. Inv(Made(device, e), server, http, late, inbox, made \cup {e}, forgotten)
      BY <1>1, <1>2, MadeMoves
    <2>. QED BY <2>1 DEF Inv, Types
  <1>8. Drained(device', http')
        /\ Quiet(device', server, http', late, inbox, connected, forgotten, missed)
    BY <1>1, <1>2, <1>6, <1>7, HandledQuiet
  <1>. QED BY <1>1, <1>8 DEF QuietInv

\* The user restores a queue.
LEMMA UserRestoreQuiet ==
    ASSUME QuietInv, QueueInv', NEW q \in Queue, UserRestore(q)
    PROVE  QuietInv'
  <1>. DEFINE d2 == [device EXCEPT !.restoring = q]
  <1>1. Handled(d2) /\ UNCHANGED <<server, late, connected, inbox, missed, forgotten>>
    BY DEF UserRestore
  <1>2. /\ DeviceType(device) /\ HttpType(http)
        /\ Quiet(device, server, http, late, inbox, connected, forgotten, missed)
        /\ Drained(device, http)
    BY QuietIs
  <1>3. /\ DOMAIN d2 = DOMAIN device /\ d2.queue = device.queue /\ d2.content = device.content
        /\ d2.run = device.run /\ d2.count = device.count /\ d2.held = device.held
        /\ d2.starting = device.starting /\ d2.pending = device.pending /\ d2.reported = device.reported
        /\ d2.restoring = q /\ d2.refetch = device.refetch
    BY <1>2 DEF DeviceType
  <1>. HIDE DEF d2
  <1>4. Lighter(d2, device) /\ DeviceType(d2)
    <2>1. DeviceType(d2)
      BY <1>2, <1>3 DEF DeviceType, OfQueue
    <2>. QED BY <1>3, <2>1 DEF Lighter, Refetches
  <1>5. Quiet(d2, server, http, late, inbox, connected, forgotten, missed)
    BY <1>2, <1>3, <1>4, QuietStays
  <1>6. Drained(device', http')
        /\ Quiet(device', server, http', late, inbox, connected, forgotten, missed)
    BY <1>1, <1>2, <1>4, <1>5, HandledQuiet
  <1>. QED BY <1>1, <1>6 DEF QuietInv

\* The queue started shows at once, and what comes is its start.
LEMMA StartedQuiet ==
    ASSUME NEW d, NEW s, NEW h, NEW la, NEW ib, NEW c, NEW fg, NEW ms, Quiet(d, s, h, la, ib, c, fg, ms),
           NEW q \in Own, q # None, q \notin DOMAIN s.queues, h.kind = "start" => h.queue # q,
           NEW d2, d2.queue = q, d2.content.edits = <<>>, DOMAIN d2.pending = {}, d2.starting = q,
           NEW h2, h2.kind = h.kind, h2.queue = h.queue, h2.edit = h.edit, h2.stale \/ h.kind = "none"
    PROVE  Quiet(d2, s, h2, la, ib, c, fg, ms)
  <1>1. Starts(d2, h2)
    BY DEF Starts, Edits, Reads
  <1>2. \A e, p : Asks(d2, h2, la, e, p) => Asks(d, h, la, e, p)
    BY DEF Asks
  <1>3. Remembers(d2, s, h2, la, fg)
    BY <1>2 DEF Quiet, Remembers
  <1>4. Awaits(d2, s, h2, fg)
    BY DEF Awaits
  <1>. QED BY <1>1, <1>3, <1>4 DEF Quiet, Catches

\* The queue is started.
LEMMA UserStartQuiet ==
    ASSUME QuietInv, QueueInv', NEW q \in Own, UserStart(q)
    PROVE  QuietInv'
  <1>. DEFINE started == StartedAs(device, q)
              tapped == Edits(device.pending) \cap Repeats # {}
              Begun(d) == IF http = NothingSent THEN Drain(d) ELSE device' = d /\ http' = Overtaken
              Holds(d, h) == Quiet(d, server, h, late, inbox, connected, forgotten, missed)
  <1>1. /\ q \notin made /\ UNCHANGED <<server, late, connected, inbox, missed, forgotten>>
        /\ \/ tapped /\ \E e \in (OwnEdit \cap Repeats) \ made :
                            made' = made \cup {q, e} /\ Begun(Made(started, e))
           \/ ~tapped /\ made' = made \cup {q} /\ Begun(started)
    BY DEF UserStart, StartedAs
  <1>2. /\ Inv(device, server, http, late, inbox, made, forgotten) /\ DeviceType(device) /\ HttpType(http)
        /\ Holds(device, http) /\ Drained(device, http)
    BY QuietIs
  <1>3. /\ DeviceType(started) /\ started.queue = q /\ started.content.edits = <<>>
        /\ DOMAIN started.pending = {} /\ started.run = 0 /\ started.held = device.held
        /\ started.starting = q
    BY <1>2, StartedAsIs
  <1>. HIDE DEF started
  <1>4. q \in Queue /\ q # None /\ q \notin {First, Older}
    BY IdsAssumption DEF IdsAssumption, Queue
  <1>6. q \notin DOMAIN server.queues
    BY <1>1, <1>2, <1>4 DEF Inv, KnownQueues
  <1>7. http.kind = "start" => http.queue # q
    BY <1>1, <1>2 DEF Inv, KnownQueues
  <1>8. /\ HttpType(Overtaken) /\ Overtaken.kind = http.kind /\ Overtaken.at = http.at
        /\ Overtaken.queue = http.queue /\ Overtaken.edit = http.edit /\ Overtaken.answer = http.answer
        /\ Overtaken.stale
    BY <1>2, OvertakenIs
  <1>9. Holds(started, Overtaken)
    BY <1>2, <1>3, <1>4, <1>6, <1>7, <1>8, StartedQuiet
  <1>10. http = NothingSent => Holds(started, NothingSent)
    <2>1. http = NothingSent => http.kind = "none"
      BY NothingSentIs
    <2>2. http = NothingSent => Holds(started, http)
      BY <1>2, <1>3, <1>4, <1>6, <1>7, <2>1, StartedQuiet
    <2>. QED BY <2>2
  <1>11. Inv(started, server, Overtaken, late, inbox, made \cup {q}, forgotten)
    BY <1>1, <1>2, <1>3, <1>8, StartedMoves
  <1>12. ASSUME NEW d, DeviceType(d), Begun(d), Holds(d, Overtaken), http = NothingSent
             => Holds(d, NothingSent)
         PROVE  Drained(device', http') /\ Holds(device', http')
    <2>1. CASE http = NothingSent
      <3>1. device' = After(d) /\ http' = Work(d)
        BY <1>12, <2>1 DEF Drain, After
      <3>2. Drained(After(d), Work(d)) /\ Holds(After(d), Work(d))
        BY <1>12, <2>1, DrainQuiet
      <3>. QED BY <3>1, <3>2
    <2>2. CASE http # NothingSent
      <3>1. device' = d /\ http' = Overtaken /\ Overtaken.kind # "none"
        BY <1>2, <1>8, <1>12, <2>2 DEF Drained
      <3>. QED BY <1>12, <3>1 DEF Drained
    <2>. QED BY <2>1, <2>2
  <1>13. Drained(device', http') /\ Holds(device', http')
    <2>1. ASSUME ~tapped, Begun(started) PROVE Drained(device', http') /\ Holds(device', http')
      <3>. HIDE DEF Begun, Holds
      <3>. QED BY <1>3, <1>9, <1>10, <1>12, <2>1
    <2>2. ASSUME NEW e \in (OwnEdit \cap Repeats) \ made, Begun(Made(started, e))
          PROVE  Drained(device', http') /\ Holds(device', http')
      <3>1. e \notin made \cup {q} /\ started.queue # None /\ e # Past
        <4>1. e \in Edit
          BY DEF Edit
        <4>. QED BY <1>3, <1>4, <2>2, <4>1, IdsAssumption DEF IdsAssumption
      <3>2. Inv(Made(started, e), server, Overtaken, late, inbox, (made \cup {q}) \cup {e}, forgotten)
        BY <1>11, <3>1, MadeMoves
      <3>3. DeviceType(Made(started, e))
        BY <3>2 DEF Inv, Types
      <3>4. e \notin ToSet(started.content.edits) /\ \A i \in DOMAIN server.done : server.done[i].edit # e
        <4>1. e \notin ToSet(started.content.edits)
          BY <1>3 DEF ToSet
        <4>2. \A i \in DOMAIN server.done : server.done[i].edit # e
          BY <1>2, <3>1 DEF Inv, KnownEdits
        <4>. QED BY <4>1, <4>2
      <3>5. http.kind = "edit" => http.edit # e
        <4>1. http.kind = "edit" => /\ http.edit \in OwnEdit /\ http.queue \in Queue
                                    /\ Asks(device, http, late, http.edit, http.queue)
          BY <1>2 DEF HttpType, Asks
        <4>. QED BY <1>2, <3>1, <4>1 DEF Inv, KnownEdits
      <3>6. Holds(Made(started, e), Overtaken)
        BY <1>3, <1>8, <1>9, <3>4, <3>5, MadeQuiet
      <3>7. http = NothingSent => Holds(Made(started, e), NothingSent)
        <4>1. NothingSent.kind # "edit"
          BY NothingSentIs
        <4>. QED BY <1>3, <1>10, <3>4, <4>1, MadeQuiet
      <3>. HIDE DEF Begun, Holds
      <3>. QED BY <1>12, <2>2, <3>3, <3>6, <3>7
    <2>. HIDE DEF Begun, Holds, tapped
    <2>. QED BY <1>1, <2>1, <2>2
  <1>. QED BY <1>1, <1>13 DEF QuietInv

\* What is given up is all that goes.
LEMMA GiveUpLighter ==
    ASSUME NEW d, DeviceType(d), NEW gone \in SUBSET DOMAIN d.pending
    PROVE  /\ Lighter(GiveUp(d, gone), d) /\ GiveUp(d, gone).starting = d.starting
           /\ GiveUp(d, gone).refetch = d.refetch
  <1>. DEFINE g == GiveUp(d, gone)
  <1>1. /\ DeviceType(g) /\ Follows(g, d) /\ g.content = d.content /\ g.refetch = d.refetch
    BY GiveUpFollows
  <1>2. g.held = d.held /\ g.starting = d.starting
    BY DEF GiveUp, DeviceType
  <1>. HIDE DEF g
  <1>3. Lighter(g, d) /\ g.starting = d.starting /\ g.refetch = d.refetch
    BY <1>1, <1>2 DEF Lighter, Follows, Goes, Refetches
  <1>. QED BY <1>3 DEF g

\* So where the pending edits are replayed.
LEMMA RebuildLighter ==
    ASSUME NEW d, DeviceType(d)
    PROVE  /\ Lighter(Rebuild(d), d) /\ Rebuild(d).starting = d.starting
           /\ Rebuild(d).refetch = d.refetch
  <1>1. DOMAIN d.pending \ Replayable(d) \in SUBSET DOMAIN d.pending
    OBVIOUS
  <1>. QED BY <1>1, GiveUpLighter DEF Rebuild

\* One after the other.
LEMMA LighterOn ==
    ASSUME NEW d, NEW d2, NEW d3, Lighter(d2, d), Lighter(d3, d2)
    PROVE  Lighter(d3, d)
  BY DEF Lighter, Refetches

\* A request ends, and the next is sent.
LEMMA EndsQuiet ==
    ASSUME QuietInv, QueueInv', UNCHANGED <<server, late, connected, inbox, missed, forgotten>>,
           NEW d2, DeviceType(d2), Drain(d2),
           Quiet(d2, server, NothingSent, late, inbox, connected, forgotten, missed)
    PROVE  QuietInv'
  <1>1. device' = After(d2) /\ http' = Work(d2)
    BY DEF Drain, After
  <1>2. /\ Drained(After(d2), Work(d2))
        /\ Quiet(After(d2), server, Work(d2), late, inbox, connected, forgotten, missed)
    BY DrainQuiet
  <1>. QED BY <1>1, <1>2 DEF QuietInv

\* The start is answered.
LEMMA StartAnsweredQuiet ==
    ASSUME QuietInv, QueueInv', StartAnswered
    PROVE  QuietInv'
  <1>. DEFINE refused == [device EXCEPT !.starting = None, !.refetch = TRUE]
              gone == {i \in DOMAIN device.pending : device.pending[i].queue = http.queue}
              Holds(d, h) == Quiet(d, server, h, late, inbox, connected, forgotten, missed)
  <1>1. /\ http.kind = "start" /\ http.at = "answered"
        /\ UNCHANGED <<server, late, connected, inbox, missed, forgotten>>
        /\ \/ Drain(device)
           \/ Has(http, "ok") /\ device.starting = http.queue /\ Drain(Started(device))
           \/ Drain(GiveUp(refused, gone))
    BY DEF StartAnswered, Back, Is, Has
  <1>2. /\ DeviceType(device) /\ HttpType(http) /\ Holds(device, http) /\ ~Reading(http)
    BY <1>1, QuietIs DEF Reading
  <1>. HIDE DEF Holds
  <1>3. ASSUME NEW d2, DeviceType(d2), Holds(d2, http), Drain(d2) PROVE QuietInv'
    <2>1. Holds(d2, NothingSent)
      BY <1>1, <1>2, <1>3, QuietEnds DEF Holds
    <2>. QED BY <1>1, <1>3, <2>1, EndsQuiet DEF Holds
  <1>4. CASE Drain(device)
    BY <1>2, <1>3, <1>4
  <1>5. CASE Has(http, "ok") /\ device.starting = http.queue /\ Drain(Started(device))
    <2>. DEFINE d2 == Started(device)
    <2>1. /\ DOMAIN d2 = DOMAIN device /\ d2.queue = device.queue /\ d2.content = device.content
          /\ d2.run = device.run /\ d2.count = device.count /\ d2.held = device.held
          /\ d2.starting = None /\ d2.pending = device.pending /\ d2.reported = device.reported
          /\ d2.restoring = device.restoring /\ d2.refetch \in BOOLEAN
          /\ device.refetch => d2.refetch
      BY <1>2 DEF DeviceType, Started
    <2>2. Drain(d2)
      BY <1>5
    <2>. HIDE DEF d2
    <2>3. DeviceType(d2)
      BY <1>2, <2>1 DEF DeviceType
    <2>4. Lighter(d2, device)
      BY <2>1, <2>3 DEF Lighter, Refetches
    <2>5. ~Awaits(device, server, http, forgotten)
      BY <1>1, <1>5 DEF Awaits
    <2>6. Holds(d2, http)
      BY <1>2, <2>1, <2>4, <2>5, QuietStays DEF Holds
    <2>. QED BY <1>3, <2>2, <2>3, <2>6
  <1>6. CASE Drain(GiveUp(refused, gone))
    <2>1. /\ DOMAIN refused = DOMAIN device /\ refused.queue = device.queue
          /\ refused.content = device.content
          /\ refused.run = device.run /\ refused.count = device.count /\ refused.held = device.held
          /\ refused.starting = None /\ refused.pending = device.pending /\ refused.reported = device.reported
          /\ refused.restoring = device.restoring /\ refused.refetch \in BOOLEAN /\ refused.refetch
      BY <1>2 DEF DeviceType
    <2>. HIDE DEF refused
    <2>2. DeviceType(refused)
      BY <1>2, <2>1 DEF DeviceType
    <2>3. Lighter(refused, device)
      BY <2>1, <2>2 DEF Lighter, Refetches
    <2>4. gone \in SUBSET DOMAIN refused.pending
      BY <2>1
    <2>. HIDE DEF gone
    <2>. DEFINE g == GiveUp(refused, gone)
    <2>5. Lighter(g, refused) /\ g.starting = None /\ g.refetch
      BY <2>1, <2>2, <2>4, GiveUpLighter
    <2>6. Drain(g)
      BY <1>6
    <2>. HIDE DEF g
    <2>7. Lighter(g, device) /\ DeviceType(g)
      BY <2>3, <2>5, LighterOn DEF Lighter
    <2>8. Holds(g, http)
      BY <1>2, <2>5, <2>7, QuietStays DEF Holds
    <2>. QED BY <1>3, <2>6, <2>7, <2>8
  <1>. QED BY <1>1, <1>4, <1>5, <1>6

\* The edit answered with a place has it in the queue shown.
LEMMA AppliedQuiet ==
    ASSUME NEW d, NEW s, NEW h, NEW la, NEW ib, NEW c, NEW fg, NEW ms, Quiet(d, s, h, la, ib, c, fg, ms),
           DeviceType(d), HttpType(h), OneQueue(d, h, la),
           h.kind = "edit", Has(h, "applied") \/ Has(h, "again"), h.edit \in Edits(d.pending)
    PROVE  Quiet(AfterAnswer(d, h.edit, h.answer.version), s, h, la, ib, c, fg, ms)
  <1>. DEFINE d2 == AfterAnswer(d, h.edit, h.answer.version)
              v == h.answer.version
  <1>1. \A i \in DOMAIN d.pending : d.pending[i] \in Pending /\ d.pending[i].queue = d.queue
    BY DEF DeviceType
  <1>2. /\ d2.queue = d.queue /\ d2.content = d.content /\ d2.held = d.held
        /\ d2.starting = d.starting /\ d2.refetch = d.refetch
        /\ d2.pending = [i \in DOMAIN d.pending |->
              IF d.pending[i].edit = h.edit THEN [d.pending[i] EXCEPT !.version = v] ELSE d.pending[i]]
    BY DEF DeviceType, AfterAnswer
  <1>. HIDE DEF d2
  <1>3. /\ DOMAIN d2.pending = DOMAIN d.pending
        /\ \A i \in DOMAIN d.pending :
              /\ d2.pending[i].edit = d.pending[i].edit /\ d2.pending[i].queue = d.pending[i].queue
              /\ d2.pending[i] = d.pending[i] \/ (d.pending[i].edit = h.edit /\ d2.pending[i].version = v)
    BY <1>1, <1>2 DEF Pending
  <1>4. h.edit \in OwnEdit /\ h.queue \in Queue /\ Asks(d, h, la, h.edit, h.queue)
    BY DEF HttpType, Asks
  <1>5. h.queue = d.queue
    <2>1. PICK i \in DOMAIN d.pending : d.pending[i].edit = h.edit
      BY DEF Edits
    <2>2. Asks(d, h, la, h.edit, d.queue) /\ d.queue \in Queue
      BY <1>1, <2>1 DEF Asks, Pending
    <2>. QED BY <1>4, <2>2 DEF OneQueue
  <1>6. d.starting = None
    BY DEF Quiet, Starts
  <1>7. Starts(d2, h)
    BY <1>2, <1>6 DEF Starts
  <1>8. Remembers(d2, s, h, la, fg)
    <2>1. \A e, q : Asks(d2, h, la, e, q) => Asks(d, h, la, e, q)
      BY <1>3 DEF Asks
    <2>. QED BY <2>1 DEF Quiet, Remembers
  <1>9. ASSUME Fetches(d, h, ib, c) PROVE Catches(d2, s, h, ib, c, fg)
    BY <1>2, <1>9 DEF Fetches, Catches
  <1>10. ~Awaits(d, s, h, fg)
    BY <1>6 DEF Awaits
  <1>11. ASSUME Settles(d, s, h, ib, fg) PROVE Catches(d2, s, h, ib, c, fg)
    <2>1. Aim(d2, h) = Aim(d, h)
      BY <1>2 DEF Aim
    <2>2. d.queue \notin fg.queues => Applied(EditsIn(s, d.queue), h.edit, v)
      BY <1>5, <1>11 DEF Settles, Answers
    <2>3. Rest(d, s, fg) => Rest(d2, s, fg)
      BY <1>2, <1>3, <2>2 DEF Rest
    <2>4. Restores(d2, s, h, ib, fg)
      BY <1>2, <1>11 DEF Settles, Restores
    <2>5. Answers(d2, s, h, fg)
      BY <1>5, <2>2 DEF Answers
    <2>6. Settles(d2, s, h, ib, fg)
      BY <1>2, <1>11, <2>1, <2>3, <2>4, <2>5 DEF Settles
    <2>. QED BY <2>6 DEF Catches
  <1>12. ms \/ Catches(d2, s, h, ib, c, fg)
    BY <1>9, <1>10, <1>11 DEF Quiet, Catches
  <1>13. Quiet(d2, s, h, la, ib, c, fg, ms)
    BY <1>7, <1>8, <1>12 DEF Quiet
  <1>. QED BY <1>13 DEF d2

\* The edit is answered.
LEMMA EditAnsweredQuiet ==
    ASSUME QuietInv, QueueInv', EditAnswered
    PROVE  QuietInv'
  <1>. DEFINE refused == [device EXCEPT !.refetch = @ \/ Is({"changed", "missing"})]
              gone == {i \in DOMAIN device.pending : device.pending[i].edit = http.edit}
              answered == AfterAnswer(device, http.edit, http.answer.version)
              Holds(d, h) == Quiet(d, server, h, late, inbox, connected, forgotten, missed)
  <1>1. /\ http.kind = "edit" /\ http.at = "answered"
        /\ UNCHANGED <<server, late, connected, inbox, missed, forgotten>>
        /\ \/ Drain(device)
           \/ /\ Has(http, "applied") \/ Has(http, "again")
              /\ http.edit \in Edits(device.pending) /\ Drain(answered)
           \/ Drain(Rebuild(GiveUp(refused, gone)))
    BY DEF EditAnswered, Back, AfterAnswer, Is, Has
  <1>2. /\ DeviceType(device) /\ HttpType(http) /\ Holds(device, http) /\ ~Reading(http)
        /\ Inv(device, server, http, late, inbox, made, forgotten)
    BY <1>1, QuietIs DEF Reading
  <1>. HIDE DEF Holds
  <1>3. ASSUME NEW d2, DeviceType(d2), Holds(d2, http), Drain(d2) PROVE QuietInv'
    <2>1. Holds(d2, NothingSent)
      BY <1>1, <1>2, <1>3, QuietEnds DEF Holds
    <2>. QED BY <1>1, <1>3, <2>1, EndsQuiet DEF Holds
  <1>4. CASE Drain(device)
    BY <1>2, <1>3, <1>4
  <1>5. CASE /\ Has(http, "applied") \/ Has(http, "again")
             /\ http.edit \in Edits(device.pending) /\ Drain(answered)
    <2>1. Inv(answered, server, http, late, inbox, made, forgotten)
      BY <1>1, <1>2, <1>5, EditAnswerMoves
    <2>2. DeviceType(answered)
      BY <2>1 DEF Inv, Types
    <2>3. OneQueue(device, http, late)
      BY <1>2 DEF Inv
    <2>4. Holds(answered, http)
      BY <1>1, <1>2, <1>5, <2>3, AppliedQuiet DEF Holds
    <2>. QED BY <1>3, <1>5, <2>2, <2>4
  <1>6. CASE Drain(Rebuild(GiveUp(refused, gone)))
    <2>1. /\ DOMAIN refused = DOMAIN device /\ refused.queue = device.queue
          /\ refused.content = device.content
          /\ refused.run = device.run /\ refused.count = device.count /\ refused.held = device.held
          /\ refused.starting = device.starting /\ refused.pending = device.pending
          /\ refused.reported = device.reported /\ refused.restoring = device.restoring
          /\ refused.refetch \in BOOLEAN /\ (device.refetch => refused.refetch)
      BY <1>2 DEF DeviceType
    <2>. HIDE DEF refused
    <2>2. DeviceType(refused)
      BY <1>2, <2>1 DEF DeviceType
    <2>3. Lighter(refused, device)
      BY <2>1, <2>2 DEF Lighter, Refetches
    <2>4. gone \in SUBSET DOMAIN refused.pending
      BY <2>1
    <2>. HIDE DEF gone
    <2>. DEFINE g == GiveUp(refused, gone)
                r == Rebuild(g)
    <2>5. Lighter(g, refused) /\ g.starting = refused.starting
      BY <2>2, <2>4, GiveUpLighter
    <2>6. Drain(r)
      BY <1>6
    <2>. HIDE DEF g
    <2>7. DeviceType(g)
      BY <2>5 DEF Lighter
    <2>8. Lighter(r, g) /\ r.starting = g.starting
      BY <2>7, RebuildLighter
    <2>. HIDE DEF r
    <2>9. Lighter(r, device) /\ DeviceType(r) /\ r.starting = device.starting
      BY <2>1, <2>3, <2>5, <2>8, LighterOn DEF Lighter
    <2>10. Holds(r, http)
      BY <1>2, <2>9, QuietStays DEF Holds
    <2>. QED BY <1>3, <2>6, <2>9, <2>10
  <1>. QED BY <1>1, <1>4, <1>5, <1>6

\* The queue answered is read before it shows.
LEMMA InstallingQuiet ==
    ASSUME QuietInv, QueueInv', http.at = "answered", Has(http, "ok"), http.kind # "start",
           Installing, device' = [device EXCEPT !.run = http.answer.run],
           UNCHANGED <<server, late, connected, inbox, missed, forgotten>>
    PROVE  QuietInv'
  <1>. DEFINE d == device
              d2 == device'
              h == http
              h2 == http'
  <1>1. /\ DeviceType(d) /\ HttpType(h) /\ Drained(d, h)
        /\ Quiet(d, server, h, late, inbox, connected, forgotten, missed)
    BY QuietIs
  <1>2. /\ d2.queue = d.queue /\ d2.content = d.content /\ d2.held = d.held /\ d2.starting = d.starting
        /\ d2.pending = d.pending /\ d2.refetch = d.refetch
    BY <1>1 DEF DeviceType
  <1>3. /\ h2.kind = h.kind /\ h2.queue = h.queue /\ h2.edit = h.edit /\ h2.stale = h.stale
        /\ h2.at = "installing" /\ h2.answer = h.answer
    BY <1>1 DEF HttpType, Installing
  <1>4. Drained(d2, h2)
    BY <1>1, <1>3 DEF Drained, HttpType
  <1>5. \A status : Has(h2, status) <=> Has(h, status)
    BY <1>3 DEF Has
  <1>. HIDE DEF d, d2, h, h2
  <1>6. Starts(d2, h2)
    BY <1>1, <1>2, <1>3 DEF Quiet, Starts, Reads
  <1>7. Remembers(d2, server, h2, late, forgotten)
    <2>1. \A e, q : Asks(d2, h2, late, e, q) => Asks(d, h, late, e, q)
      BY <1>2, <1>3 DEF Asks
    <2>. QED BY <1>1, <2>1 DEF Quiet, Remembers
  <1>8. Reading(h2) <=> Reading(h)
    BY <1>3 DEF Reading
  <1>9. ASSUME Fetches(d, h, inbox, connected) PROVE Catches(d2, server, h2, inbox, connected, forgotten)
    <2>1. h.at # "sent"
      BY DEF h
    <2>. QED BY <1>2, <1>5, <1>8, <1>9, <2>1 DEF Fetches, Catches
  <1>10. ASSUME Awaits(d, server, h, forgotten) PROVE Catches(d2, server, h2, inbox, connected, forgotten)
    <2>1. h2.kind # "start"
      BY <1>3 DEF h
    <2>. QED BY <1>2, <1>10, <2>1 DEF Awaits, Catches
  <1>11. ASSUME Settles(d, server, h, inbox, forgotten)
         PROVE  Catches(d2, server, h2, inbox, connected, forgotten)
    <2>1. Aim(d2, h2) = Aim(d, h)
      BY <1>2, <1>3, <1>5, <1>8 DEF Aim
    <2>2. Calls(server, h2) = Calls(server, h)
      <3>1. h.at # "applied"
        BY DEF h
      <3>. QED BY <1>3, <3>1 DEF Calls
    <2>3. Rest(d, server, forgotten) => Rest(d2, server, forgotten)
      BY <1>2 DEF Rest
    <2>4. Restores(d2, server, h2, inbox, forgotten)
      BY <1>2, <1>3, <1>5, <1>11, <2>2 DEF Settles, Restores
    <2>5. Answers(d2, server, h2, forgotten)
      BY <1>2, <1>3, <1>5, <1>11 DEF Settles, Answers
    <2>6. Settles(d2, server, h2, inbox, forgotten)
      BY <1>2, <1>3, <1>5, <1>8, <1>11, <2>1, <2>2, <2>3, <2>4, <2>5 DEF Settles
    <2>. QED BY <2>6 DEF Catches
  <1>12. missed \/ Catches(d2, server, h2, inbox, connected, forgotten)
    BY <1>1, <1>9, <1>10, <1>11 DEF Quiet, Catches
  <1>13. Quiet(d2, server, h2, late, inbox, connected, forgotten, missed)
    BY <1>1, <1>6, <1>7, <1>12 DEF Quiet
  <1>. QED BY <1>4, <1>13 DEF QuietInv, d2, h2

\* The restore is answered.
LEMMA RestoreAnsweredQuiet ==
    ASSUME QuietInv, QueueInv', RestoreAnswered
    PROVE  QuietInv'
  <1>. DEFINE d2 == [device EXCEPT !.restoring = None, !.refetch = @ \/ Is({"lost"})]
  <1>1. /\ http.kind = "restore" /\ http.at = "answered"
        /\ UNCHANGED <<server, late, connected, inbox, missed, forgotten>>
    BY DEF RestoreAnswered, Back
  <1>2. /\ DeviceType(device) /\ HttpType(http) /\ ~Reading(http)
        /\ Quiet(device, server, http, late, inbox, connected, forgotten, missed)
    BY <1>1, QuietIs DEF Reading
  <1>3. CASE Is({"ok"})
    <2>1. Installing /\ device' = [device EXCEPT !.run = http.answer.run] /\ Has(http, "ok")
      BY <1>1, <1>3 DEF RestoreAnswered, Is, Has
    <2>. QED BY <1>1, <2>1, InstallingQuiet
  <1>4. CASE ~Is({"ok"})
    <2>1. Drain(d2)
      BY <1>4 DEF RestoreAnswered
    <2>2. /\ DOMAIN d2 = DOMAIN device /\ d2.queue = device.queue /\ d2.content = device.content
          /\ d2.run = device.run /\ d2.count = device.count /\ d2.held = device.held
          /\ d2.starting = device.starting /\ d2.pending = device.pending /\ d2.reported = device.reported
          /\ d2.restoring = None /\ d2.refetch \in BOOLEAN /\ (device.refetch => d2.refetch)
      BY <1>2 DEF DeviceType
    <2>. HIDE DEF d2
    <2>3. DeviceType(d2)
      BY <1>2, <2>2 DEF DeviceType, OfQueue
    <2>4. Lighter(d2, device)
      BY <2>2, <2>3 DEF Lighter, Refetches
    <2>5. Quiet(d2, server, http, late, inbox, connected, forgotten, missed)
      BY <1>2, <2>2, <2>4, QuietStays
    <2>6. Quiet(d2, server, NothingSent, late, inbox, connected, forgotten, missed)
      BY <1>1, <1>2, <2>3, <2>5, QuietEnds
    <2>. QED BY <1>1, <2>1, <2>3, <2>6, EndsQuiet
  <1>. QED BY <1>3, <1>4

\* The first message is heard: what came after it comes still.
LEMMA TailIs ==
    ASSUME NEW ib \in Seq(Message), ib # <<>>
    PROVE  /\ Tail(ib) \in Seq(Message) /\ 1 \in DOMAIN ib /\ Head(ib) = ib[1] /\ ib[1] \in Message
           /\ \A i \in DOMAIN ib : i \in Nat /\ i >= 1
           /\ \A i \in DOMAIN ib : i # 1 => i - 1 \in DOMAIN Tail(ib) /\ Tail(ib)[i - 1] = ib[i]
  OBVIOUS
\* What another message than the first says comes still, but for the queue the first names.
LEMMA TailSoon ==
    ASSUME NEW s, NEW calls, NEW fg, NEW ib \in Seq(Message), ib # <<>>
    PROVE  /\ \A q : Alarm(q, calls, ib, 0) /\ ~NamesOther(ib[1], q) => Alarm(q, calls, Tail(ib), 0)
           /\ \A q, es, ms : \A k \in DOMAIN ib :
                 Soon(q, es, s, calls, ms, ib, k, fg) => Soon(q, es, s, calls, ms, Tail(ib), k - 1, fg)
           /\ \A q, es, ms : /\ Soon(q, es, s, calls, ms, ib, 0, fg) /\ ~NamesOther(ib[1], q)
                             /\ \A v : ~TellsOf(ib[1], q, v)
                 => Soon(q, es, s, calls, ms, Tail(ib), 0, fg)
  <1>. DEFINE t == Tail(ib)
  <1>1. /\ \A i \in DOMAIN ib : i \in Nat /\ i >= 1
        /\ \A i \in DOMAIN ib : i # 1 => i - 1 \in DOMAIN t /\ t[i - 1] = ib[i]
    BY TailIs
  <1>. HIDE DEF t
  <1>2. \A q : Alarm(q, calls, ib, 0) /\ ~NamesOther(ib[1], q) => Alarm(q, calls, t, 0)
    BY <1>1 DEF Alarm
  <1>3. ASSUME NEW q, NEW v, NEW ms, Comes(q, v, ms, ib, 0), ~TellsOf(ib[1], q, v) PROVE Comes(q, v, ms, t, 0)
    BY <1>1, <1>3 DEF Comes
  <1>4. \A q, v, ms : \A k \in DOMAIN ib : Comes(q, v, ms, ib, k) => Comes(q, v, ms, t, k - 1)
    BY <1>1 DEF Comes
  <1>5. \A q : \A k \in DOMAIN ib : Alarm(q, calls, ib, k) => Alarm(q, calls, t, k - 1)
    BY <1>1 DEF Alarm
  <1>6. \A q, es, ms : \A k \in DOMAIN ib :
           Current(q, es, s, ms, ib, k, fg) => Current(q, es, s, ms, t, k - 1, fg)
    BY <1>4 DEF Current
  <1>7. \A q, es, ms : Current(q, es, s, ms, ib, 0, fg) /\ (\A v : ~TellsOf(ib[1], q, v))
           => Current(q, es, s, ms, t, 0, fg)
    BY <1>3 DEF Current
  <1>8. /\ \A q, es, ms : \A k \in DOMAIN ib :
              Soon(q, es, s, calls, ms, ib, k, fg) => Soon(q, es, s, calls, ms, t, k - 1, fg)
        /\ \A q, es, ms : /\ Soon(q, es, s, calls, ms, ib, 0, fg) /\ ~NamesOther(ib[1], q)
                          /\ \A v : ~TellsOf(ib[1], q, v)
              => Soon(q, es, s, calls, ms, t, 0, fg)
    BY <1>2, <1>5, <1>6, <1>7 DEF Soon
  <1>. QED BY <1>2, <1>8 DEF t

\* So for the answer to a restore.
LEMMA TailRestores ==
    ASSUME NEW d, NEW s, NEW h, NEW fg, NEW ib \in Seq(Message), ib # <<>>, ~NamesOther(ib[1], d.queue),
           Restores(d, s, h, ib, fg), NEW d2, d2.queue = d.queue
    PROVE  Restores(d2, s, h, Tail(ib), fg)
  <1>1. ASSUME h.kind = "restore", ~h.stale, h.queue = d.queue
        PROVE  /\ h.at = "applied" \/ Has(h, "ok") => Alarm(d.queue, Calls(s, h), Tail(ib), 0)
               /\ Has(h, "ok") => h.answer.queue = d.queue
    <2>1. /\ h.at = "applied" \/ Has(h, "ok") => Alarm(d.queue, Calls(s, h), ib, 0)
          /\ Has(h, "ok") => h.answer.queue = d.queue
      BY <1>1 DEF Restores
    <2>2. Alarm(d.queue, Calls(s, h), ib, 0) => Alarm(d.queue, Calls(s, h), Tail(ib), 0)
      BY TailSoon
    <2>. QED BY <2>1, <2>2
  <1>2. ASSUME h.kind = "restore", ~h.stale, h.queue # d.queue, Has(h, "ok")
        PROVE  \E k \in DOMAIN Tail(ib) :
                  /\ Tail(ib)[k].type = "queueReplaced" /\ Tail(ib)[k].queue = h.queue
                  /\ Soon(h.answer.queue, h.answer.content.edits, s, Calls(s, h), <<>>, Tail(ib), k, fg)
    <2>1. PICK k \in DOMAIN ib :
                  /\ ib[k].type = "queueReplaced" /\ ib[k].queue = h.queue
                  /\ Soon(h.answer.queue, h.answer.content.edits, s, Calls(s, h), <<>>, ib, k, fg)
      BY <1>2 DEF Restores
    <2>2. NamesOther(ib[k], d.queue)
      BY <1>2, <2>1 DEF NamesOther
    <2>3. k # 1
      BY <2>2
    <2>4. k - 1 \in DOMAIN Tail(ib) /\ Tail(ib)[k - 1] = ib[k]
      BY <2>3, TailIs
    <2>5. Soon(h.answer.queue, h.answer.content.edits, s, Calls(s, h), <<>>, Tail(ib), k - 1, fg)
      BY <2>1, TailSoon
    <2>. QED BY <2>1, <2>4, <2>5
  <1>. QED BY <1>1, <1>2 DEF Restores

\* A message that says no more than the device knows.
LEMMA KnownQuiet ==
    ASSUME NEW d, NEW s, NEW h, NEW la, NEW ib \in Seq(Message), NEW c, NEW fg, NEW ms,
           Quiet(d, s, h, la, ib, c, fg, ms), DeviceType(d), HttpType(h), ib # <<>>, h.kind # "fetch",
           ib[1].type = "queueReplaced", ib[1].queue = d.queue
    PROVE  Quiet(d, s, h, la, Tail(ib), c, fg, ms)
  <1>. DEFINE t == Tail(ib)
  <1>1. ~NamesOther(ib[1], d.queue) /\ \A q, v : ~TellsOf(ib[1], q, v)
    BY DEF NamesOther, TellsOf
  <1>2. ASSUME Fetches(d, h, ib, c) PROVE Catches(d, s, h, t, c, fg)
    <2>1. \A i \in DOMAIN ib : i # 1 => i - 1 \in DOMAIN t /\ t[i - 1] = ib[i]
      BY TailIs
    <2>. HIDE DEF t
    <2>2. Fetches(d, h, t, c)
      BY <1>2, <2>1 DEF Fetches
    <2>. QED BY <2>2 DEF Catches
  <1>3. ASSUME Settles(d, s, h, ib, fg) PROVE Catches(d, s, h, t, c, fg)
    <2>1. Aim(d, h).queue = d.queue /\ ~Reading(h)
      BY DEF Aim, Reading
    <2>2. Soon(Aim(d, h).queue, Aim(d, h).edits, s, Calls(s, h), d.held, t, 0, fg)
      BY <1>1, <1>3, <2>1, TailSoon DEF Settles
    <2>3. Alarm(d.queue, Calls(s, h), ib, 0) => Alarm(d.queue, Calls(s, h), t, 0)
      BY <1>1, TailSoon
    <2>4. Restores(d, s, h, t, fg)
      BY <1>1, <1>3, TailRestores DEF Settles
    <2>. HIDE DEF t
    <2>5. Settles(d, s, h, t, fg)
      BY <1>3, <2>1, <2>2, <2>3, <2>4 DEF Settles
    <2>. QED BY <2>5 DEF Catches
  <1>. HIDE DEF t
  <1>4. ms \/ Catches(d, s, h, t, c, fg)
    BY <1>2, <1>3 DEF Quiet, Catches
  <1>5. Quiet(d, s, h, la, t, c, fg, ms)
    BY <1>4 DEF Quiet
  <1>. QED BY <1>5 DEF t

\* One held is heard later.
LEMMA HoldQuiet ==
    ASSUME NEW d, NEW s, NEW h, NEW la, NEW ib \in Seq(Message), NEW c, NEW fg, NEW ms,
           Quiet(d, s, h, la, ib, c, fg, ms), DeviceType(d), HttpType(h), ib # <<>>, h.kind = "fetch",
           ib[1].type = "queueEdit"
    PROVE  Quiet([d EXCEPT !.held = Append(@, ib[1])], s, h, la, Tail(ib), c, fg, ms)
  <1>. DEFINE t == Tail(ib)
              m == ib[1]
              d2 == [d EXCEPT !.held = Append(@, m)]
              held == Append(d.held, m)
  <1>1. /\ \A i \in DOMAIN ib : i # 1 => i - 1 \in DOMAIN t /\ t[i - 1] = ib[i]
        /\ \A i \in DOMAIN ib : i \in Nat /\ i >= 1
        /\ m \in Message
    BY TailIs
  <1>2. /\ \A i \in DOMAIN d.held : i \in DOMAIN held /\ held[i] = d.held[i]
        /\ Len(d.held) + 1 \in DOMAIN held /\ held[Len(d.held) + 1] = m
    <2>1. d.held \in Seq(Message)
      BY DEF DeviceType
    <2>. HIDE DEF m
    <2>. QED BY <1>1, <2>1
  <1>3. /\ d2.queue = d.queue /\ d2.content = d.content /\ d2.held = held /\ d2.starting = d.starting
        /\ d2.pending = d.pending /\ d2.refetch = d.refetch
    BY DEF DeviceType
  <1>. HIDE DEF d2, held, t, m
  <1>4. \A q, calls : Alarm(q, calls, ib, 0) => Alarm(q, calls, t, 0)
    <2>1. \A q : ~NamesOther(ib[1], q)
      BY DEF NamesOther
    <2>. QED BY <2>1, TailSoon DEF t
  <1>5. \A q, v : Comes(q, v, d.held, ib, 0) => Comes(q, v, held, t, 0)
    BY <1>1, <1>2 DEF Comes, m
  <1>6. \A q, es : Current(q, es, s, d.held, ib, 0, fg) => Current(q, es, s, held, t, 0, fg)
    BY <1>5 DEF Current
  <1>7. Starts(d2, h)
    BY <1>3 DEF Quiet, Starts
  <1>8. Remembers(d2, s, h, la, fg)
    <2>1. \A e, q : Asks(d2, h, la, e, q) => Asks(d, h, la, e, q)
      BY <1>3 DEF Asks
    <2>. QED BY <2>1 DEF Quiet, Remembers
  <1>9. ASSUME Fetches(d, h, ib, c) PROVE Catches(d2, s, h, t, c, fg)
    BY <1>1, <1>3, <1>9 DEF Fetches, Catches
  <1>10. ASSUME Awaits(d, s, h, fg) PROVE Catches(d2, s, h, t, c, fg)
    BY <1>3, <1>10 DEF Awaits, Catches
  <1>11. ASSUME Settles(d, s, h, ib, fg) PROVE Catches(d2, s, h, t, c, fg)
    <2>1. Aim(d2, h) = Aim(d, h)
      BY <1>3 DEF Aim
    <2>2. Soon(Aim(d, h).queue, Aim(d, h).edits, s, Calls(s, h), held, t, 0, fg)
      BY <1>4, <1>6, <1>11 DEF Settles, Soon
    <2>3. Rest(d, s, fg) => Rest(d2, s, fg)
      BY <1>3 DEF Rest
    <2>4. Restores(d2, s, h, t, fg) /\ Answers(d2, s, h, fg)
      BY DEF Restores, Answers
    <2>5. Settles(d2, s, h, t, fg)
      BY <1>3, <1>4, <1>11, <2>1, <2>2, <2>3, <2>4 DEF Settles
    <2>. QED BY <2>5 DEF Catches
  <1>12. ms \/ Catches(d2, s, h, t, c, fg)
    BY <1>9, <1>10, <1>11 DEF Quiet, Catches
  <1>13. Quiet(d2, s, h, la, t, c, fg, ms)
    BY <1>7, <1>8, <1>12 DEF Quiet
  <1>. QED BY <1>13 DEF d2, t, m

\* Hearing changes neither the start awaited nor what is held.
LEMMA HeardStays ==
    ASSUME NEW d, NEW m, DeviceType(d)
    PROVE  Heard(d, m).starting = d.starting
  <1>1. \A x : Rebuild(x).starting = x.starting
    BY DEF Rebuild, GiveUp
  <1>. DEFINE x == [d EXCEPT !.content.edits = Append(@, m.edit),
                             !.pending = Restrict(@, {i \in DOMAIN @ : @[i].edit # m.edit})]
              r == [d EXCEPT !.refetch = TRUE]
  <1>2. x.starting = d.starting /\ r.starting = d.starting
    BY DEF DeviceType
  <1>3. Heard(d, m) \in {Rebuild(x), r, d}
    BY DEF Heard, Confirm
  <1>. HIDE DEF x, r
  <1>. QED BY <1>1, <1>2, <1>3

\* What is beyond the later of two versions is beyond both.
LEMMA BeyondIs ==
    ASSUME NEW a \in Nat, NEW b \in Nat, NEW c \in Nat, NEW k \in Nat, a <= b, k <= b, NEW v \in b + 1 .. c
    PROVE  v \in a + 1 .. c /\ k # v
  OBVIOUS

\* An edit's message is heard: the queue shown has it then, or is to be fetched.
LEMMA HeardQuiet ==
    ASSUME NEW d, NEW s, NEW h, NEW la, NEW ib \in Seq(Message), NEW c, NEW fg, NEW ms,
           Quiet(d, s, h, la, ib, c, fg, ms), DeviceType(d), ServerType(s), HttpType(h),
           ib # <<>>, h.kind # "fetch", d.held = <<>>,
           ib[1].type = "queueEdit", ib[1].edit \in Edit, ib[1].queue # None, IsSo(s, fg, ib[1])
    PROVE  /\ DeviceType(Heard(d, ib[1]))
           /\ Quiet(Heard(d, ib[1]), s, h, la, Tail(ib), c, fg, ms)
  <1>. DEFINE t == Tail(ib)
              m == ib[1]
              d2 == Heard(d, m)
  <1>1. /\ \A i \in DOMAIN ib : i # 1 => i - 1 \in DOMAIN t /\ t[i - 1] = ib[i]
        /\ \A i \in DOMAIN ib : i \in Nat /\ i >= 1
        /\ m \in Message
    BY TailIs
  <1>2. /\ Hears(d2, d, Edit)
        /\ \A es \in Seq(Edit) : Prefix(d.content.edits, es) /\ Says(m, d, es)
              => Prefix(d2.content.edits, es)
        /\ Refetches(d2, d) /\ (d2.refetch \/ Reaches(d2, m))
    BY <1>1, HeardHears
  <1>3. d2.starting = d.starting
    BY HeardStays
  <1>4. \A q : ~NamesOther(m, q)
    BY DEF NamesOther
  <1>5. /\ m.type = "queueEdit" /\ m.edit \in Edit /\ m.queue # None /\ IsSo(s, fg, m) /\ m = ib[1]
    OBVIOUS
  <1>. HIDE DEF d2, t, m
  <1>6. /\ DeviceType(d2) /\ d2.queue = d.queue /\ d2.held = <<>>
        /\ DOMAIN d2.pending \subseteq DOMAIN d.pending
        /\ \A i \in DOMAIN d2.pending : d2.pending[i] = d.pending[i]
        /\ Prefix(d.content.edits, d2.content.edits)
        /\ \A i \in DOMAIN d2.pending :
              d2.pending[i].edit \in ToSet(d2.content.edits) => d2.pending[i].edit \in ToSet(d.content.edits)
    BY <1>2 DEF Hears, Follows, Goes
  <1>7. Edits(d2.pending) \subseteq Edits(d.pending)
    BY <1>6 DEF Edits
  <1>8. Starts(d2, h)
    BY <1>3, <1>6, <1>7 DEF Quiet, Starts
  <1>9. Remembers(d2, s, h, la, fg)
    <2>1. \A e, q : Asks(d2, h, la, e, q) => Asks(d, h, la, e, q)
      BY <1>6 DEF Asks
    <2>. QED BY <2>1 DEF Quiet, Remembers
  <1>10. ASSUME d2.refetch PROVE Catches(d2, s, h, t, c, fg)
    BY <1>10 DEF Fetches, Catches
  <1>11. ASSUME Fetches(d, h, ib, c) PROVE Catches(d2, s, h, t, c, fg)
    <2>1. Fetches(d2, h, t, c)
      BY <1>1, <1>2, <1>5, <1>11 DEF Fetches, Refetches, Reading
    <2>. QED BY <2>1 DEF Catches
  <1>12. ASSUME Awaits(d, s, h, fg), Reaches(d2, m) PROVE Catches(d2, s, h, t, c, fg)
    <2>1. d.starting = d.queue /\ m.queue = d.queue
      BY <1>6, <1>12 DEF Awaits, Quiet, Starts, Reaches
    <2>2. d.starting \in fg.queues
      <3>1. d.starting \notin DOMAIN s.queues
        BY <1>12 DEF Awaits
      <3>2. EditsIn(s, m.queue) = <<>>
        BY <2>1, <3>1 DEF EditsIn
      <3>3. m.version \in Nat
        BY <1>1 DEF Message
      <3>4. ~Applied(EditsIn(s, m.queue), m.edit, m.version)
        BY <3>2, <3>3 DEF Applied
      <3>. QED BY <1>5, <2>1, <3>4 DEF IsSo
    <2>3. Awaits(d2, s, h, fg)
      BY <1>3, <1>12, <2>2 DEF Awaits
    <2>. QED BY <2>3 DEF Catches
  <1>13. ASSUME Settles(d, s, h, ib, fg), Reaches(d2, m) PROVE Catches(d2, s, h, t, c, fg)
    <2>1. ~Reading(h) /\ Aim(d, h).queue = d.queue /\ Aim(d, h).edits = d.content.edits
          /\ Aim(d2, h).queue = d.queue /\ Aim(d2, h).edits = d2.content.edits
      BY <1>6 DEF Aim, Reading
    <2>2. \A calls : Alarm(d.queue, calls, ib, 0) => Alarm(d.queue, calls, t, 0)
      BY <1>4, TailSoon DEF t, m
    <2>3. m.queue = d.queue /\ m.version <= Len(d2.content.edits)
      BY <1>6, <1>13 DEF Reaches, Version
    <2>4. ASSUME Current(d.queue, d.content.edits, s, d.held, ib, 0, fg)
          PROVE  Current(d.queue, d2.content.edits, s, d2.held, t, 0, fg)
      <3>. DEFINE es == EditsIn(s, d.queue)
      <3>1. /\ es \in Seq(Edit) /\ d2.content.edits \in Seq(Edit) /\ d.content.edits \in Seq(Edit)
        BY <1>6, EditsInTyped DEF DeviceType, Contents
      <3>. HIDE DEF es
      <3>2. ASSUME d.queue \notin fg.queues
            PROVE  /\ Prefix(d2.content.edits, es)
                   /\ \A v \in Len(d2.content.edits) + 1 .. Len(es) : Comes(d.queue, v, d2.held, t, 0)
        <4>1. /\ Prefix(d.content.edits, es)
              /\ \A v \in Len(d.content.edits) + 1 .. Len(es) : Comes(d.queue, v, d.held, ib, 0)
          BY <2>4, <3>2 DEF Current, es
        <4>2. Says(m, d, es)
          BY <1>5, <2>3, <3>2 DEF Says, IsSo, es
        <4>3. Prefix(d2.content.edits, es)
          BY <1>2, <3>1, <4>1, <4>2
        <4>4. ASSUME NEW v \in Len(d2.content.edits) + 1 .. Len(es) PROVE Comes(d.queue, v, d2.held, t, 0)
          <5>1. v \in Len(d.content.edits) + 1 .. Len(es) /\ m.version # v
            <6>1. Len(d.content.edits) <= Len(d2.content.edits) /\ m.version \in Nat
              BY <1>1, <1>6 DEF Prefix, Message
            <6>2. Len(d.content.edits) \in Nat /\ Len(d2.content.edits) \in Nat /\ Len(es) \in Nat
              BY <3>1
            <6>. DEFINE k0 == Len(d.content.edits)
                        k1 == Len(d2.content.edits)
                        k2 == Len(es)
                        k == m.version
            <6>3. /\ k0 \in Nat /\ k1 \in Nat /\ k2 \in Nat /\ k \in Nat
                  /\ k0 <= k1 /\ k <= k1 /\ v \in k1 + 1 .. k2
              BY <2>3, <4>4, <6>1, <6>2
            <6>4. v \in k0 + 1 .. k2 /\ k # v
              <7>. HIDE DEF k0, k1, k2, k
              <7>. QED BY <6>3, BeyondIs
            <6>. QED BY <6>4
          <5>2. Comes(d.queue, v, d.held, ib, 0) /\ ~TellsOf(ib[1], d.queue, v)
            BY <1>5, <4>1, <5>1 DEF TellsOf
          <5>3. PICK i \in DOMAIN ib : i > 0 /\ TellsOf(ib[i], d.queue, v)
            BY <5>2 DEF Comes
          <5>4. i - 1 \in DOMAIN t /\ t[i - 1] = ib[i] /\ i - 1 > 0
            BY <1>1, <5>2, <5>3
          <5>. QED BY <5>3, <5>4 DEF Comes
        <4>. QED BY <4>3, <4>4
      <3>. QED BY <2>4, <3>2 DEF Current, es
    <2>5. Soon(Aim(d2, h).queue, Aim(d2, h).edits, s, Calls(s, h), d2.held, t, 0, fg)
      BY <1>13, <2>1, <2>2, <2>4 DEF Settles, Soon
    <2>6. Rest(d, s, fg) => Rest(d2, s, fg)
      BY <1>6 DEF Rest
    <2>7. Restores(d2, s, h, t, fg)
      BY <1>4, <1>5, <1>6, <1>13, TailRestores DEF Settles, t
    <2>8. Answers(d2, s, h, fg)
      BY <1>7, <1>13 DEF Settles, Answers
    <2>9. Settles(d2, s, h, t, fg)
      BY <1>6, <1>13, <2>1, <2>2, <2>5, <2>6, <2>7, <2>8 DEF Settles
    <2>. QED BY <2>9 DEF Catches
  <1>14. ms \/ Catches(d2, s, h, t, c, fg)
    BY <1>2, <1>10, <1>11, <1>12, <1>13 DEF Quiet, Catches
  <1>15. Quiet(d2, s, h, la, t, c, fg, ms)
    BY <1>8, <1>9, <1>14 DEF Quiet
  <1>. QED BY <1>6, <1>15 DEF d2, t, m

\* The device is to fetch the queue, whatever it heard.
LEMMA RefetchQuiet ==
    ASSUME NEW d, NEW s, NEW h, NEW la, NEW ib, NEW c, NEW fg, NEW ms, Quiet(d, s, h, la, ib, c, fg, ms),
           DeviceType(d), NEW ib2
    PROVE  LET d2 == [d EXCEPT !.refetch = TRUE]
           IN  DeviceType(d2) /\ Quiet(d2, s, h, la, ib2, c, fg, ms)
  <1>. DEFINE d2 == [d EXCEPT !.refetch = TRUE]
  <1>1. /\ DeviceType(d2) /\ d2.refetch
    BY FetchLater
  <1>2. d2.pending = d.pending /\ d2.queue = d.queue /\ d2.starting = d.starting
    BY DEF DeviceType
  <1>. HIDE DEF d2
  <1>3. Starts(d2, h)
    BY <1>2 DEF Quiet, Starts
  <1>4. Remembers(d2, s, h, la, fg)
    <2>1. \A e, q : Asks(d2, h, la, e, q) => Asks(d, h, la, e, q)
      BY <1>2 DEF Asks
    <2>. QED BY <2>1 DEF Quiet, Remembers
  <1>5. Catches(d2, s, h, ib2, c, fg)
    BY <1>1 DEF Catches, Fetches
  <1>6. Quiet(d2, s, h, la, ib2, c, fg, ms)
    BY <1>3, <1>4, <1>5 DEF Quiet
  <1>. QED BY <1>1, <1>6 DEF d2

\* The message is handled.
LEMMA HearQuiet ==
    ASSUME QuietInv, QueueInv', Hear
    PROVE  QuietInv'
  <1>. DEFINE m == Head(inbox)
              t == Tail(inbox)
              refetching == [device EXCEPT !.refetch = TRUE]
              holding == [device EXCEPT !.held = Append(@, m)]
              Holds(d, h) == Quiet(d, server, h, late, t, connected, forgotten, missed)
  <1>1. /\ inbox # <<>> /\ inbox' = t
        /\ UNCHANGED <<server, late, connected, missed, forgotten>>
        /\ \/ Handled(refetching)
           \/ m.type = "queueReplaced" /\ ~Outdated(m.queue) /\ UNCHANGED <<device, http>>
           \/ m.type = "queueEdit" /\ Holding /\ device' = holding /\ UNCHANGED http
           \/ m.type = "queueEdit" /\ ~Holding /\ Handled(Heard(device, m))
    BY DEF Hear
  <1>2. /\ DeviceType(device) /\ ServerType(server) /\ HttpType(http) /\ inbox \in Seq(Message)
        /\ Quiet(device, server, http, late, inbox, connected, forgotten, missed)
        /\ Drained(device, http) /\ Inv(device, server, http, late, inbox, made, forgotten)
    BY QuietIs
  <1>3. m = inbox[1] /\ 1 \in DOMAIN inbox /\ m \in Message
    BY <1>1, <1>2, TailIs
  <1>. HIDE DEF m, t
  <1>4. Drained(device', http') /\ Holds(device', http')
    <2>1. CASE Handled(refetching)
      <3>1. DeviceType(refetching) /\ Holds(refetching, http)
        BY <1>2, RefetchQuiet
      <3>. HIDE DEF refetching
      <3>. QED BY <1>2, <2>1, <3>1, HandledQuiet
    <2>2. CASE m.type = "queueReplaced" /\ ~Outdated(m.queue) /\ UNCHANGED <<device, http>>
      <3>1. http.kind # "fetch" /\ m.queue = device.queue
        BY <2>2 DEF Outdated, Holding
      <3>2. Holds(device, http)
        BY <1>1, <1>2, <1>3, <2>2, <3>1, KnownQuiet DEF t
      <3>. QED BY <1>2, <2>2, <3>2 DEF Drained
    <2>3. CASE m.type = "queueEdit" /\ Holding /\ device' = holding /\ UNCHANGED http
      <3>1. http.kind = "fetch" /\ http.kind # "none"
        BY <2>3 DEF Holding
      <3>2. Holds(holding, http)
        BY <1>1, <1>2, <1>3, <2>3, <3>1, HoldQuiet DEF t
      <3>. QED BY <2>3, <3>1, <3>2 DEF Drained
    <2>4. CASE m.type = "queueEdit" /\ ~Holding /\ Handled(Heard(device, m))
      <3>1. http.kind # "fetch"
        BY <2>4 DEF Holding
      <3>2. device.held = <<>> /\ m.edit \in Edit /\ m.queue \in Queue /\ IsSo(server, forgotten, m)
        BY <1>2, <1>3, <2>4, <3>1 DEF Inv, Types, InboxType, InStep
      <3>3. m.queue # None
        BY <3>2, IdsAssumption DEF IdsAssumption
      <3>4. DeviceType(Heard(device, m)) /\ Holds(Heard(device, m), http)
        BY <1>1, <1>2, <1>3, <2>4, <3>1, <3>2, <3>3, HeardQuiet DEF t
      <3>. QED BY <1>2, <2>4, <3>4, HandledQuiet
    <2>. QED BY <1>1, <2>1, <2>2, <2>3, <2>4
  <1>. QED BY <1>1, <1>4 DEF QuietInv

\* A queue read and caught up with is the server's, or another is to be fetched.
LEMMA CaughtUpQuiet ==
    ASSUME NEW d, NEW s, NEW h, NEW la, NEW ib, NEW c, NEW fg, NEW ms, Quiet(d, s, h, la, ib, c, fg, ms),
           ServerType(s), Reads(h), ~h.stale, h.at \in {"answered", "installing"}, ~Has(h, "lost"),
           NEW x, DeviceType(x), x.starting \in {d.starting, None}, Refetches(x, d),
           DOMAIN x.pending \subseteq DOMAIN d.pending,
           \A i \in DOMAIN x.pending : x.pending[i] = d.pending[i],
           NEW held \in Seq(Message), \A i \in DOMAIN held : held[i].edit \in Edit /\ held[i].queue # None,
           \A i \in Unanswered(x) : x.pending[i].edit \notin ToSet(EditsIn(s, x.queue)),
           Settles(d, s, h, ib, fg) =>
              /\ Soon(x.queue, x.content.edits, s, s.telling, held, ib, 0, fg)
              /\ \A i \in DOMAIN held : IsSo(s, fg, held[i])
    PROVE  /\ DeviceType(CaughtUp(x, held))
           /\ Quiet(CaughtUp(x, held), s, NothingSent, la, ib, c, fg, ms)
  <1>. DEFINE y == CaughtUp(x, held)
              n == NothingSent
  <1>1. /\ Hears(y, Left(x), Edit)
        /\ \A es \in Seq(Edit) : Prefix(x.content.edits, es) /\ (\A i \in DOMAIN held : Says(held[i], x, es))
              => Prefix(y.content.edits, es)
        /\ Refetches(y, x)
        /\ \/ y.refetch
           \/ /\ \A i \in DOMAIN held : Reaches(y, held[i])
              /\ \A i \in DOMAIN y.pending : ~Sent(y.pending[i])
    BY CaughtUpHears
  <1>2. Goes(Left(x), x) /\ DeviceType(Left(x)) /\ Left(x).content = x.content
    BY LeftGoes
  <1>3. n.kind = "none" /\ n.at = "idle" /\ HttpType(n)
    BY NothingSentIs
  <1>. HIDE DEF y, n
  <1>4. DeviceType(y) /\ Goes(y, Left(x))
    BY <1>1 DEF Hears, Follows
  <1>5. /\ y.queue = x.queue /\ y.starting \in {x.starting, None}
        /\ DOMAIN y.pending \subseteq DOMAIN x.pending
        /\ \A i \in DOMAIN y.pending : y.pending[i] = x.pending[i]
        /\ Prefix(x.content.edits, y.content.edits)
    BY <1>2, <1>4 DEF Goes
  <1>6. d.starting = None /\ y.starting = None
    BY <1>5 DEF Quiet, Starts
  <1>7. Starts(y, n)
    BY <1>6 DEF Starts
  <1>8. Remembers(y, s, n, la, fg)
    <2>1. \A e, q : Asks(y, n, la, e, q) => Asks(d, h, la, e, q)
      BY <1>3, <1>5 DEF Asks
    <2>. QED BY <2>1 DEF Quiet, Remembers
  <1>9. ASSUME y.refetch PROVE Catches(y, s, n, ib, c, fg)
    BY <1>9 DEF Fetches, Catches
  <1>10. ASSUME Fetches(d, h, ib, c) PROVE Catches(y, s, n, ib, c, fg)
    BY <1>1, <1>10 DEF Fetches, Catches, Refetches
  <1>11. ~Awaits(d, s, h, fg)
    BY <1>6 DEF Awaits
  <1>12. ASSUME Settles(d, s, h, ib, fg), ~y.refetch PROVE Catches(y, s, n, ib, c, fg)
    <2>. DEFINE es == EditsIn(s, x.queue)
    <2>1. /\ Soon(x.queue, x.content.edits, s, s.telling, held, ib, 0, fg)
          /\ \A i \in DOMAIN held : IsSo(s, fg, held[i])
      BY <1>12
    <2>2. /\ \A i \in DOMAIN held : Reaches(y, held[i])
          /\ \A i \in DOMAIN y.pending : ~Sent(y.pending[i])
      BY <1>1, <1>12
    <2>3. es \in Seq(Edit) /\ y.content.edits \in Seq(Edit) /\ x.content.edits \in Seq(Edit)
      BY <1>4, EditsInTyped DEF DeviceType, Contents
    <2>. HIDE DEF es
    <2>4. Calls(s, n) = s.telling
      BY <1>3 DEF Calls
    <2>5. /\ ~Reading(n) /\ (\A status : ~Has(n, status))
          /\ Aim(y, n).queue = x.queue /\ Aim(y, n).edits = y.content.edits
      BY <1>3, <1>5 DEF Reading, Has, Aim
    <2>6. Restores(y, s, n, ib, fg) /\ Answers(y, s, n, fg)
      BY <1>3 DEF Restores, Answers
    <2>7. ASSUME Alarm(x.queue, s.telling, ib, 0) PROVE Settles(y, s, n, ib, fg)
      BY <1>5, <2>4, <2>5, <2>6, <2>7 DEF Settles, Soon
    <2>8. ASSUME Current(x.queue, x.content.edits, s, held, ib, 0, fg) PROVE Settles(y, s, n, ib, fg)
      <3>1. ASSUME x.queue \notin fg.queues
            PROVE  /\ Prefix(y.content.edits, es)
                   /\ \A v \in Len(y.content.edits) + 1 .. Len(es) : Comes(x.queue, v, y.held, ib, 0)
        <4>1. /\ Prefix(x.content.edits, es)
              /\ \A v \in Len(x.content.edits) + 1 .. Len(es) : Comes(x.queue, v, held, ib, 0)
          BY <2>8, <3>1 DEF Current, es
        <4>2. \A i \in DOMAIN held : Says(held[i], x, es)
          BY <2>1, <3>1 DEF Says, IsSo, es
        <4>3. Prefix(y.content.edits, es)
          BY <1>1, <2>3, <4>1, <4>2
        <4>4. ASSUME NEW v \in Len(y.content.edits) + 1 .. Len(es) PROVE Comes(x.queue, v, y.held, ib, 0)
          <5>1. v \in Len(x.content.edits) + 1 .. Len(es)
            <6>1. Len(x.content.edits) <= Len(y.content.edits)
              BY <1>5 DEF Prefix
            <6>. QED BY <2>3, <4>4, <6>1
          <5>2. Comes(x.queue, v, held, ib, 0)
            BY <4>1, <5>1
          <5>3. ASSUME NEW i \in DOMAIN held PROVE ~TellsOf(held[i], x.queue, v)
            <6>1. held[i].version <= Len(y.content.edits) /\ held[i] \in Message
              BY <2>2 DEF Reaches, Version
            <6>2. held[i].version \in Nat
              BY <6>1 DEF Message
            <6>. QED BY <2>3, <4>4, <6>1, <6>2 DEF TellsOf
          <5>. QED BY <5>2, <5>3 DEF Comes
        <4>. QED BY <4>3, <4>4
      <3>2. Current(x.queue, y.content.edits, s, y.held, ib, 0, fg)
        BY <2>8, <3>1 DEF Current, es
      <3>3. Rest(y, s, fg)
        <4>1. ASSUME y.queue \notin fg.queues, NEW i \in DOMAIN y.pending
              PROVE  y.pending[i].edit \notin ToSet(y.content.edits)
          <5>1. i \in Unanswered(x) /\ y.pending[i] = x.pending[i]
            BY <1>5, <2>2 DEF Unanswered
          <5>2. y.pending[i].edit \notin ToSet(es)
            BY <5>1 DEF es
          <5>3. ToSet(y.content.edits) \subseteq ToSet(es)
            BY <1>5, <2>3, <3>1, <4>1, PrefixGoesOn
          <5>. QED BY <5>2, <5>3
        <4>. QED BY <2>2, <4>1 DEF Rest
      <3>. QED BY <1>5, <2>4, <2>5, <2>6, <3>2, <3>3 DEF Settles, Soon
    <2>. QED BY <2>1, <2>7, <2>8 DEF Soon, Catches
  <1>13. ms \/ Catches(y, s, n, ib, c, fg)
    BY <1>9, <1>10, <1>11, <1>12 DEF Quiet, Catches
  <1>14. Quiet(y, s, n, la, ib, c, fg, ms)
    BY <1>7, <1>8, <1>13 DEF Quiet
  <1>. QED BY <1>4, <1>14 DEF y, n

\* An answer a start has made stale says nothing of the queue shown.
LEMMA StaleQuiet ==
    ASSUME NEW d, NEW s, NEW h, NEW la, NEW ib, NEW c, NEW fg, NEW ms, Quiet(d, s, h, la, ib, c, fg, ms),
           DeviceType(d), HttpType(h), ServerType(s), Overtakes(d, s, h, la, ib),
           Reads(h), h.stale, h.at # "applied",
           NEW d2, DeviceType(d2), d2.queue = d.queue, d2.content = d.content, d2.starting = d.starting,
           d2.pending = d.pending, Refetches(d2, d)
    PROVE  Quiet(d2, s, NothingSent, la, ib, c, fg, ms)
  <1>. DEFINE n == NothingSent
  <1>1. ~Reading(h)
    BY DEF Reading
  <1>2. Quiet(d, s, n, la, ib, c, fg, ms)
    BY <1>1, QuietEnds
  <1>3. n.kind = "none" /\ n.at = "idle" /\ HttpType(n)
    BY NothingSentIs
  <1>. HIDE DEF n
  <1>4. d.queue \notin DOMAIN s.queues /\ d.queue # None
    BY IdsAssumption DEF Overtakes, IdsAssumption, Queue
  <1>5. Starts(d2, n)
    BY <1>2 DEF Quiet, Starts
  <1>6. Remembers(d2, s, n, la, fg)
    <2>1. \A e, q : Asks(d2, n, la, e, q) => Asks(d, n, la, e, q)
      BY DEF Asks
    <2>. QED BY <1>2, <2>1 DEF Quiet, Remembers
  <1>7. ASSUME Fetches(d, n, ib, c) PROVE Catches(d2, s, n, ib, c, fg)
    BY <1>7 DEF Fetches, Catches, Refetches
  <1>8. ASSUME Awaits(d, s, n, fg) PROVE Catches(d2, s, n, ib, c, fg)
    BY <1>8 DEF Awaits, Catches
  <1>9. ASSUME Settles(d, s, n, ib, fg) PROVE Catches(d2, s, n, ib, c, fg)
    <2>1. /\ ~Reading(n) /\ (\A status : ~Has(n, status))
          /\ Aim(d, n).queue = d.queue /\ Aim(d2, n).queue = d.queue
      BY <1>3 DEF Reading, Has, Aim
    <2>2. d.queue # s.active
      BY <1>4 DEF ServerType
    <2>3. Alarm(d.queue, Calls(s, n), ib, 0)
      BY <1>9, <2>1, <2>2 DEF Settles, Soon, Current
    <2>4. Restores(d2, s, n, ib, fg) /\ Answers(d2, s, n, fg)
      BY <1>3 DEF Restores, Answers
    <2>5. Settles(d2, s, n, ib, fg)
      BY <2>1, <2>3, <2>4 DEF Settles, Soon
    <2>. QED BY <2>5 DEF Catches
  <1>10. ms \/ Catches(d2, s, n, ib, c, fg)
    BY <1>2, <1>7, <1>8, <1>9 DEF Quiet, Catches
  <1>11. Quiet(d2, s, n, la, ib, c, fg, ms)
    BY <1>2, <1>5, <1>6, <1>10 DEF Quiet
  <1>. QED BY <1>11 DEF n

\* An edit not answered yet is in no queue the server holds while one is read.
LEMMA UnansweredIs ==
    ASSUME NEW d, NEW s, NEW h, NEW la, NotYet(d, s, h, la), Reads(h), NEW i \in Unanswered(d), NEW q
    PROVE  d.pending[i].edit \notin ToSet(EditsIn(s, q))
  <1>1. Unsent(s, h, la, d.pending[i].edit)
    BY DEF NotYet
  <1>2. CASE q \in DOMAIN s.queues
    BY <1>1, <1>2 DEF Unsent, EditsIn
  <1>3. CASE q \notin DOMAIN s.queues
    BY <1>3 DEF EditsIn, ToSet
  <1>. QED BY <1>2, <1>3

\* A queue read is installed.
LEMMA InstalledQuiet ==
    ASSUME QuietInv, Installs(http), NEW e, Alike(e, device), e.refetch = device.refetch, NEW held,
           \/ http.kind = "fetch" /\ held = device.held
           \/ http.kind = "restore" /\ held = <<>>
    PROVE  LET y == CaughtUp(Install(e, http.answer), held)
           IN  DeviceType(y) /\ Quiet(y, server, NothingSent, late, inbox, connected, forgotten, missed)
  <1>. DEFINE x == Install(e, http.answer)
              a == http.answer
              s == server
              h == http
  <1>1. /\ DeviceType(device) /\ ServerType(s) /\ HttpType(h) /\ inbox \in Seq(Message)
        /\ Quiet(device, s, h, late, inbox, connected, forgotten, missed)
        /\ Inv(device, s, h, late, inbox, made, forgotten)
    BY QuietIs
  <1>2. Reads(h) /\ ~h.stale /\ h.at = "installing" /\ Has(h, "ok") /\ ~Has(h, "lost") /\ ~Has(h, "missing")
    BY <1>1 DEF Installs, HttpType, Has, Reads
  <1>3. AnswerType(a) /\ a.queue \in Queue
    BY <1>1, <1>2 DEF HttpType
  <1>4. /\ DeviceType(x) /\ x.queue = a.queue /\ x.content = a.content
        /\ x.starting = e.starting
        /\ \A i \in DOMAIN x.pending : i \in DOMAIN e.pending /\ x.pending[i] = e.pending[i]
    BY <1>3, InstallIs DEF Alike
  <1>5. x.refetch = device.refetch
    BY DEF Install, GiveUp, Alike, DeviceType
  <1>. HIDE DEF x
  <1>6. /\ x.starting \in {device.starting, None} /\ Refetches(x, device)
        /\ DOMAIN x.pending \subseteq DOMAIN device.pending
        /\ \A i \in DOMAIN x.pending : x.pending[i] = device.pending[i]
    BY <1>4, <1>5 DEF Alike, Refetches
  <1>7. held \in Seq(Message) /\ \A i \in DOMAIN held : held[i].edit \in Edit /\ held[i].queue # None
    <2>1. CASE held = <<>>
      BY <2>1
    <2>2. CASE held = device.held
      BY <1>1, <2>2 DEF Inv, Types, DeviceType
    <2>. QED BY <2>1, <2>2
  <1>8. \A i \in Unanswered(x) : x.pending[i].edit \notin ToSet(EditsIn(s, x.queue))
    <2>1. \A i \in Unanswered(x) : i \in Unanswered(device) /\ x.pending[i] = device.pending[i]
      BY <1>6 DEF Unanswered
    <2>2. NotYet(device, s, h, late)
      BY <1>1 DEF Inv
    <2>. QED BY <1>2, <2>1, <2>2, UnansweredIs
  <1>9. ASSUME Settles(device, s, h, inbox, forgotten)
        PROVE  /\ Soon(x.queue, x.content.edits, s, s.telling, held, inbox, 0, forgotten)
               /\ \A i \in DOMAIN held : IsSo(s, forgotten, held[i])
    <2>1. Calls(s, h) = s.telling
      BY <1>2 DEF Calls
    <2>2. CASE http.kind = "fetch" /\ held = device.held
      <3>1. Reading(h)
        BY <1>2, <2>2 DEF Reading
      <3>2. Aim(device, h).queue = x.queue /\ Aim(device, h).edits = x.content.edits
        BY <1>2, <1>4, <3>1 DEF Aim
      <3>3. h.answer.run = s.run
        BY <1>2, <1>9, <3>1 DEF Settles
      <3>4. \A i \in DOMAIN held : IsSo(s, forgotten, held[i])
        BY <1>1, <2>2, <3>3 DEF Inv, InStep
      <3>. QED BY <1>9, <2>1, <2>2, <3>2, <3>4 DEF Settles
    <2>3. CASE http.kind = "restore" /\ held = <<>>
      <3>1. Restores(device, s, h, inbox, forgotten)
        BY <1>9 DEF Settles
      <3>2. CASE h.queue = device.queue
        <4>1. Alarm(x.queue, s.telling, inbox, 0)
          BY <1>2, <1>4, <2>1, <2>3, <3>1, <3>2 DEF Restores
        <4>. QED BY <2>3, <4>1 DEF Soon
      <3>3. CASE h.queue # device.queue
        <4>1. PICK k \in DOMAIN inbox : Soon(x.queue, x.content.edits, s, s.telling, <<>>, inbox, k,
                  forgotten)
          BY <1>2, <1>4, <2>1, <2>3, <3>1, <3>3 DEF Restores
        <4>2. \A i \in DOMAIN inbox : i > k => i > 0
          BY <1>1
        <4>3. Soon(x.queue, x.content.edits, s, s.telling, <<>>, inbox, 0, forgotten)
          BY <4>1, <4>2 DEF Soon, Alarm, Current, Comes
        <4>. QED BY <2>3, <4>3
      <3>. QED BY <3>2, <3>3
    <2>. QED BY <2>2, <2>3
  <1>10. /\ DeviceType(CaughtUp(x, held))
         /\ Quiet(CaughtUp(x, held), s, NothingSent, late, inbox, connected, forgotten, missed)
    BY <1>1, <1>2, <1>4, <1>6, <1>7, <1>8, <1>9, CaughtUpQuiet
  <1>. QED BY <1>10 DEF x

\* What ends with a request does not change what there is to fetch.
LEMMA EndedFetches ==
    ASSUME NEW d, DeviceType(d)
    PROVE  [d EXCEPT !.restoring = None].refetch = d.refetch /\ [d EXCEPT !.held = <<>>].refetch = d.refetch
           /\ [d EXCEPT !.restoring = None].starting = d.starting
           /\ [d EXCEPT !.held = <<>>].starting = d.starting
  BY DEF DeviceType

\* The queue restored, or fetched, shows.
LEMMA QueueInstalledQuiet ==
    ASSUME QuietInv, QueueInv', RestoreInstalled \/ FetchInstalled
    PROVE  QuietInv'
  <1>1. PICK e \in {[device EXCEPT !.restoring = None], [device EXCEPT !.held = <<>>]},
             held \in {device.held, <<>>} :
        /\ \/ http.kind = "fetch" /\ held = device.held
           \/ http.kind = "restore" /\ held = <<>>
        /\ http.at = "installing"
        /\ UNCHANGED <<server, late, connected, inbox, missed, forgotten>>
        /\ Drain(IF http.stale THEN e ELSE CaughtUp(Install(e, http.answer), held))
    BY DEF RestoreInstalled, FetchInstalled, Loaded
  <1>2. /\ DeviceType(device) /\ ServerType(server) /\ HttpType(http)
        /\ Quiet(device, server, http, late, inbox, connected, forgotten, missed)
        /\ Inv(device, server, http, late, inbox, made, forgotten)
    BY QuietIs
  <1>3. Alike(e, device) /\ e.refetch = device.refetch /\ e.starting = device.starting
    BY <1>1, <1>2, EndedIs, EndedFetches
  <1>4. CASE http.stale
    <2>1. Reads(http) /\ http.at # "applied" /\ Refetches(e, device)
      BY <1>1, <1>3 DEF Reads, Refetches
    <2>2. Overtakes(device, server, http, late, inbox)
      BY <1>2 DEF Inv
    <2>3. DeviceType(e) /\ e.queue = device.queue /\ e.content = device.content /\ e.pending = device.pending
      BY <1>3 DEF Alike
    <2>4. Quiet(e, server, NothingSent, late, inbox, connected, forgotten, missed)
      BY <1>2, <1>3, <1>4, <2>1, <2>2, <2>3, StaleQuiet
    <2>. QED BY <1>1, <1>4, <2>3, <2>4, EndsQuiet
  <1>5. CASE ~http.stale
    <2>. DEFINE y == CaughtUp(Install(e, http.answer), held)
    <2>1. Installs(http)
      BY <1>1, <1>5 DEF Installs
    <2>2. DeviceType(y) /\ Quiet(y, server, NothingSent, late, inbox, connected, forgotten, missed)
      BY <1>1, <1>3, <2>1, InstalledQuiet
    <2>3. Drain(y)
      BY <1>1, <1>5
    <2>. HIDE DEF y
    <2>. QED BY <1>1, <2>2, <2>3, EndsQuiet
  <1>. QED BY <1>4, <1>5

\* The account has no queue.
LEMMA ClearQuiet ==
    ASSUME NEW d, NEW s, NEW h, NEW la, NEW ib, NEW c, NEW fg, NEW ms, Quiet(d, s, h, la, ib, c, fg, ms),
           ServerType(s), HttpType(h), h.kind = "fetch", h.at = "answered", ~h.stale, Has(h, "missing"),
           NEW x, DeviceType(x), x.starting = d.starting, x.held = <<>>, x.refetch = d.refetch
    PROVE  DeviceType(Clear(x)) /\ Quiet(Clear(x), s, NothingSent, la, ib, c, fg, ms)
  <1>. DEFINE y == Clear(x)
              n == NothingSent
  <1>1. /\ DeviceType(y) /\ y.content.edits = <<>> /\ DOMAIN y.pending = {}
        /\ y.held = <<>> /\ y.starting = d.starting
    BY ClearIs
  <1>2. y.queue = None /\ y.refetch = d.refetch
    BY DEF Clear, GiveUp, DeviceType
  <1>3. n.kind = "none" /\ n.at = "idle" /\ HttpType(n)
    BY NothingSentIs
  <1>. HIDE DEF y, n
  <1>4. Reading(h) /\ ~Has(h, "ok") /\ ~Has(h, "lost")
    BY DEF Reading, Has
  <1>5. d.starting = None
    BY DEF Quiet, Starts, Reads
  <1>6. Starts(y, n)
    BY <1>1, <1>5 DEF Starts
  <1>7. Remembers(y, s, n, la, fg)
    <2>1. \A e, q : Asks(y, n, la, e, q) => Asks(d, h, la, e, q)
      BY <1>1, <1>3 DEF Asks
    <2>. QED BY <2>1 DEF Quiet, Remembers
  <1>8. ASSUME Fetches(d, h, ib, c) PROVE Catches(y, s, n, ib, c, fg)
    BY <1>2, <1>4, <1>8 DEF Fetches, Catches
  <1>9. ~Awaits(d, s, h, fg)
    BY <1>5 DEF Awaits
  <1>10. ASSUME Settles(d, s, h, ib, fg) PROVE Catches(y, s, n, ib, c, fg)
    <2>1. Calls(s, n) = s.telling /\ Calls(s, h) = s.telling
      BY <1>3 DEF Calls
    <2>2. Aim(d, h).queue = None /\ Aim(y, n).queue = None /\ Aim(y, n).edits = <<>>
      BY <1>1, <1>2, <1>3, <1>4 DEF Aim, Reading
    <2>3. EditsIn(s, None) = <<>>
      <3>1. None \notin DOMAIN s.queues
        BY IdsAssumption DEF ServerType, IsQueues, IdsAssumption
      <3>. QED BY <3>1 DEF EditsIn
    <2>4. Alarm(None, s.telling, ib, 0) \/ None = s.active
      BY <1>10, <2>1, <2>2 DEF Settles, Soon, Current
    <2>5. None = s.active => Current(None, <<>>, s, <<>>, ib, 0, fg)
      <3>1. Prefix(<<>>, <<>>) /\ Len(<<>>) + 1 .. Len(<<>>) = {}
        BY DEF Prefix
      <3>. QED BY <2>3, <3>1 DEF Current
    <2>6. /\ ~Reading(n) /\ (\A status : ~Has(n, status)) /\ Rest(y, s, fg)
          /\ Restores(y, s, n, ib, fg) /\ Answers(y, s, n, fg)
      BY <1>1, <1>3 DEF Reading, Has, Rest, Restores, Answers
    <2>7. Settles(y, s, n, ib, fg)
      BY <1>1, <2>1, <2>2, <2>4, <2>5, <2>6 DEF Settles, Soon
    <2>. QED BY <2>7 DEF Catches
  <1>11. ms \/ Catches(y, s, n, ib, c, fg)
    BY <1>8, <1>9, <1>10 DEF Quiet, Catches
  <1>12. Quiet(y, s, n, la, ib, c, fg, ms)
    BY <1>6, <1>7, <1>11 DEF Quiet
  <1>. QED BY <1>1, <1>12 DEF y, n

\* A fetch with no answer is made again.
LEMMA AgainQuiet ==
    ASSUME NEW d, NEW s, NEW h, NEW la, NEW ib, NEW c, NEW fg, NEW ms, Quiet(d, s, h, la, ib, c, fg, ms),
           NEW x, x.refetch, x.queue = d.queue, x.starting = d.starting, x.pending = d.pending
    PROVE  Quiet(x, s, NothingSent, la, ib, c, fg, ms)
  <1>. DEFINE n == NothingSent
  <1>1. n.kind = "none" /\ n.at = "idle"
    BY NothingSentIs
  <1>. HIDE DEF n
  <1>2. Starts(x, n)
    BY <1>1 DEF Quiet, Starts, Reads
  <1>3. Remembers(x, s, n, la, fg)
    <2>1. \A e, q : Asks(x, n, la, e, q) => Asks(d, h, la, e, q)
      BY <1>1 DEF Asks
    <2>. QED BY <2>1 DEF Quiet, Remembers
  <1>4. Catches(x, s, n, ib, c, fg)
    BY DEF Catches, Fetches
  <1>. QED BY <1>2, <1>3, <1>4 DEF Quiet, n

\* The server has nothing more than the page: what was held is checked against it.
LEMMA SameQuiet ==
    ASSUME QuietInv, http.kind = "fetch", http.at = "answered", ~http.stale, Has(http, "same")
    PROVE  LET y == CaughtUp([device EXCEPT !.held = <<>>, !.run = http.answer.run], device.held)
           IN  DeviceType(y) /\ Quiet(y, server, NothingSent, late, inbox, connected, forgotten, missed)
  <1>. DEFINE x == [device EXCEPT !.held = <<>>, !.run = http.answer.run]
              held == device.held
              s == server
              h == http
  <1>1. /\ DeviceType(device) /\ ServerType(s) /\ HttpType(h) /\ inbox \in Seq(Message)
        /\ Quiet(device, s, h, late, inbox, connected, forgotten, missed)
        /\ Inv(device, s, h, late, inbox, made, forgotten)
    BY QuietIs
  <1>2. ~Installs(h) /\ Reads(h) /\ Reading(h) /\ ~Has(h, "lost") /\ ~Has(h, "ok") /\ ~Has(h, "missing")
    BY DEF Installs, Has, Reads, Reading
  <1>3. http.answer.run = device.run
    BY <1>1, <1>2 DEF Inv, Sames
  <1>4. /\ DOMAIN x = DOMAIN device /\ x.queue = device.queue /\ x.content = device.content
        /\ x.run = device.run /\ x.count = device.count /\ x.held = <<>>
        /\ x.starting = device.starting /\ x.pending = device.pending /\ x.reported = device.reported
        /\ x.restoring = device.restoring /\ x.refetch = device.refetch
    BY <1>1, <1>3 DEF DeviceType
  <1>. HIDE DEF x
  <1>5. DeviceType(x)
    <2>1. <<>> \in Seq(Message)
      OBVIOUS
    <2>. QED BY <1>1, <1>4, <2>1 DEF DeviceType
  <1>6. held \in Seq(Message) /\ \A i \in DOMAIN held : held[i].edit \in Edit /\ held[i].queue # None
    BY <1>1 DEF Inv, Types, DeviceType
  <1>7. \A i \in Unanswered(x) : x.pending[i].edit \notin ToSet(EditsIn(s, x.queue))
    <2>1. \A i \in Unanswered(x) : i \in Unanswered(device) /\ x.pending[i] = device.pending[i]
      BY <1>4 DEF Unanswered
    <2>2. NotYet(device, s, h, late)
      BY <1>1 DEF Inv
    <2>. QED BY <1>2, <2>1, <2>2, UnansweredIs
  <1>8. ASSUME Settles(device, s, h, inbox, forgotten)
        PROVE  /\ Soon(x.queue, x.content.edits, s, s.telling, held, inbox, 0, forgotten)
               /\ \A i \in DOMAIN held : IsSo(s, forgotten, held[i])
    <2>1. Calls(s, h) = s.telling
      BY DEF Calls
    <2>2. Aim(device, h).queue = x.queue /\ Aim(device, h).edits = x.content.edits
      BY <1>2, <1>4 DEF Aim
    <2>3. h.answer.run = s.run
      BY <1>2, <1>8 DEF Settles
    <2>4. \A i \in DOMAIN held : IsSo(s, forgotten, held[i])
      BY <1>1, <2>3 DEF Inv, InStep
    <2>. QED BY <1>8, <2>1, <2>2, <2>4 DEF Settles
  <1>9. /\ x.starting \in {device.starting, None} /\ Refetches(x, device)
        /\ DOMAIN x.pending \subseteq DOMAIN device.pending
        /\ \A i \in DOMAIN x.pending : x.pending[i] = device.pending[i]
    BY <1>4 DEF Refetches
  <1>. HIDE DEF held, s, h
  <1>10. h.at \in {"answered", "installing"} /\ ~h.stale
    BY DEF h
  <1>11. /\ DeviceType(CaughtUp(x, held))
         /\ Quiet(CaughtUp(x, held), s, NothingSent, late, inbox, connected, forgotten, missed)
    BY <1>1, <1>2, <1>5, <1>6, <1>7, <1>8, <1>9, <1>10, CaughtUpQuiet
  <1>. QED BY <1>11 DEF x, held, s

\* The fetch is answered.
LEMMA FetchAnsweredQuiet ==
    ASSUME QuietInv, QueueInv', FetchAnswered
    PROVE  QuietInv'
  <1>. DEFINE ended == [device EXCEPT !.held = <<>>]
              same == [ended EXCEPT !.run = http.answer.run]
              lost == [ended EXCEPT !.refetch = TRUE]
  <1>1. /\ http.kind = "fetch" /\ http.at = "answered"
        /\ UNCHANGED <<server, late, connected, inbox, missed, forgotten>>
        /\ IF http.stale THEN Drain(ended)
           ELSE IF Is({"ok"}) THEN Installing /\ device' = [device EXCEPT !.run = http.answer.run]
           ELSE Drain(IF Is({"lost"}) THEN lost
                      ELSE IF Is({"missing"}) THEN Clear(ended)
                      ELSE CaughtUp(same, device.held))
    BY DEF FetchAnswered, Back
  <1>2. /\ DeviceType(device) /\ ServerType(server) /\ HttpType(http) /\ Reads(http) /\ http.at # "applied"
        /\ Quiet(device, server, http, late, inbox, connected, forgotten, missed)
        /\ Inv(device, server, http, late, inbox, made, forgotten)
    BY <1>1, QuietIs DEF Reads
  <1>3. /\ Alike(ended, device) /\ ended.held = <<>> /\ ended.refetch = device.refetch
        /\ ended.starting = device.starting
    BY <1>2, EndedIs, EndedFetches
  <1>4. same = [device EXCEPT !.held = <<>>, !.run = http.answer.run]
    BY <1>2 DEF DeviceType
  <1>. HIDE DEF ended, same
  <1>5. /\ DeviceType(ended) /\ ended.queue = device.queue /\ ended.content = device.content
        /\ ended.pending = device.pending /\ Refetches(ended, device)
    BY <1>3 DEF Alike, Refetches
  <1>6. CASE http.stale
    <2>1. Overtakes(device, server, http, late, inbox)
      BY <1>2 DEF Inv
    <2>2. Quiet(ended, server, NothingSent, late, inbox, connected, forgotten, missed)
      BY <1>2, <1>3, <1>5, <1>6, <2>1, StaleQuiet
    <2>. QED BY <1>1, <1>5, <1>6, <2>2, EndsQuiet
  <1>7. CASE ~http.stale /\ Is({"ok"})
    <2>1. Has(http, "ok")
      BY <1>1, <1>7 DEF Is, Has
    <2>. QED BY <1>1, <1>7, <2>1, InstallingQuiet
  <1>8. CASE ~http.stale /\ ~Is({"ok"}) /\ Is({"lost"})
    <2>1. DeviceType(lost)
      BY <1>5, FetchLater
    <2>2. lost.refetch /\ lost.queue = device.queue /\ lost.starting = device.starting
              /\ lost.pending = device.pending
      BY <1>3, <1>5 DEF DeviceType
    <2>. HIDE DEF lost
    <2>3. Quiet(lost, server, NothingSent, late, inbox, connected, forgotten, missed)
      BY <1>2, <2>2, AgainQuiet
    <2>. QED BY <1>1, <1>8, <2>1, <2>3, EndsQuiet
  <1>9. CASE ~http.stale /\ ~Is({"ok"}) /\ ~Is({"lost"}) /\ Is({"missing"})
    <2>1. Has(http, "missing")
      BY <1>1, <1>9 DEF Is, Has
    <2>2. DeviceType(Clear(ended)) /\ Quiet(Clear(ended), server, NothingSent, late, inbox, connected,
              forgotten, missed)
      BY <1>1, <1>2, <1>3, <1>5, <1>9, <2>1, ClearQuiet
    <2>. QED BY <1>1, <1>9, <2>2, EndsQuiet
  <1>10. CASE ~http.stale /\ ~Is({"ok"}) /\ ~Is({"lost"}) /\ ~Is({"missing"})
    <2>1. Has(http, "same")
      BY <1>1, <1>2, <1>10 DEF HttpType, Is, Has
    <2>2. /\ DeviceType(CaughtUp(same, device.held))
          /\ Quiet(CaughtUp(same, device.held), server, NothingSent, late, inbox, connected, forgotten,
                 missed)
      BY <1>1, <1>4, <1>10, <2>1, SameQuiet
    <2>. QED BY <1>1, <1>10, <2>2, EndsQuiet
  <1>. QED BY <1>6, <1>7, <1>8, <1>9, <1>10

\* A page just opened is to connect, and to fetch.
LEMMA InitQuiet ==
    ASSUME QueueInit
    PROVE  QuietInv
  <1>1. QueueInv
    BY InitHolds
  <1>2. /\ device = [queue |-> None, content |-> Fresh(FALSE, "viewed"), run |-> 0,
                     pending |-> [i \in {} |-> None], count |-> 0, refetch |-> FALSE, held |-> <<>>,
                     starting |-> None, restoring |-> None, reported |-> {}]
        /\ http = NothingSent /\ connected = FALSE /\ missed = FALSE /\ server.done = <<>>
    BY DEF QueueInit
  <1>3. device.starting = None /\ device.restoring = None /\ ~device.refetch /\ DOMAIN device.pending = {}
    BY <1>2
  <1>4. Drained(device, http)
    <2>1. Unanswered(device) = {}
      BY <1>3 DEF Unanswered
    <2>2. Work(device) = NothingSent
      BY <1>3, <2>1 DEF Work
    <2>. QED BY <1>2, <2>2 DEF Drained
  <1>5. Starts(device, http) /\ Remembers(device, server, http, late, forgotten)
    <2>1. DOMAIN server.done = {}
      BY <1>2
    <2>. QED BY <1>3, <2>1 DEF Starts, Remembers
  <1>6. ~connected /\ missed \in BOOLEAN
    BY <1>2
  <1>7. Catches(device, server, http, inbox, connected, forgotten)
    BY <1>6 DEF Catches, Fetches
  <1>. QED BY <1>1, <1>4, <1>5, <1>6, <1>7 DEF QuietInv, Quiet

\* Every step keeps the device on its way to the server's queue.
LEMMA StepQuiet ==
    ASSUME QuietInv, QueueNext
    PROVE  QuietInv'
  <1>1. QueueInv'
    BY StepKeeps DEF QuietInv
  <1>2. CASE \E e \in OwnEdit : UserEdit(e)
    BY <1>1, <1>2, UserEditQuiet
  <1>3. CASE \E q \in Own : UserStart(q)
    BY <1>1, <1>3, UserStartQuiet
  <1>4. CASE \E q \in Queue : UserRestore(q)
    BY <1>1, <1>4, UserRestoreQuiet
  <1>5. CASE Serve \/ RefuseStart
    BY <1>1, <1>5, ServeEditQuiet, ServeStartQuiet, ServeRestoreQuiet, ServeFetchQuiet, ToldQuiet DEF Serve
  <1>6. CASE Lose
    BY <1>1, <1>6, LoseQuiet
  <1>7. CASE \E r \in late : Arrive(r)
    BY <1>1, <1>7, ArriveQuiet
  <1>8. CASE \E e \in OtherEdit : OtherEdits(e)
    BY <1>1, <1>8, OtherEditsQuiet
  <1>9. CASE \E q \in Others : OtherStarts(q)
    BY <1>1, <1>9, OtherStartsQuiet
  <1>10. CASE \E q \in Queue : OtherRestores(q)
    BY <1>1, <1>10, OtherRestoresQuiet
  <1>11. CASE \E q \in Queue : Announce(q) \/ HangUp(q)
    BY <1>1, <1>11, AnnounceQuiet
  <1>12. CASE Save
    BY <1>1, <1>12, SaveQuiet
  <1>13. CASE Disconnect \/ Reconnect \/ Restart
    BY <1>1, <1>13, ConnectionQuiet
  <1>14. CASE Hear
    BY <1>1, <1>14, HearQuiet
  <1>15. CASE Take
    BY <1>1, <1>15, StartAnsweredQuiet, EditAnsweredQuiet, RestoreAnsweredQuiet, QueueInstalledQuiet,
       FetchAnsweredQuiet DEF Take
  <1>. QED
    BY <1>2, <1>3, <1>4, <1>5, <1>6, <1>7, <1>8, <1>9, <1>10, <1>11, <1>12, <1>13, <1>14, <1>15 DEF QueueNext

\* A device with nothing left to hear, to send or to fetch shows the server's queue.
LEMMA QuietShows ==
    ASSUME QuietInv
    PROVE  QuietIsCurrent
  <1>1. /\ Inv(device, server, http, late, inbox, made, forgotten) /\ DeviceType(device) /\ ServerType(server)
        /\ Quiet(device, server, http, late, inbox, connected, forgotten, missed) /\ Drained(device, http)
    BY QuietIs
  <1>2. SUFFICES ASSUME AllHeard, ~missed
                 PROVE  /\ device.queue = server.active
                        /\ server.active \notin forgotten.queues \cup {None} =>
                              /\ Edits(device.pending) = {}
                              /\ device.content.edits = server.queues[server.active].edits
    BY DEF QuietIsCurrent
  <1>. DEFINE n == NothingSent
              q == device.queue
              es == device.content.edits
              fs == EditsIn(server, q)
  <1>3. connected /\ inbox = <<>> /\ http = n /\ server.telling = {} /\ DOMAIN inbox = {}
    BY <1>2 DEF AllHeard
  <1>4. n.kind = "none" /\ n.at = "idle" /\ HttpType(n)
    BY NothingSentIs
  <1>5. Work(device) = n
    BY <1>1, <1>3, <1>4 DEF Drained
  <1>. HIDE DEF n
  <1>6. device.starting = None /\ ~device.refetch
    BY <1>1, <1>4, <1>5, WorkIs DEF n
  <1>7. Unanswered(device) = {}
    <2>1. SUFFICES ASSUME Unanswered(device) # {} PROVE FALSE
      OBVIOUS
    <2>2. Work(device) = Request("edit", Earliest(device).queue, Earliest(device).edit, NoTag)
      BY <1>6, <2>1 DEF Work
    <2>3. Work(device).kind = "edit"
      BY <2>2 DEF Request
    <2>. QED BY <1>4, <1>5, <2>3
  <1>8. ~Reading(http) /\ (\A status : ~Has(http, status)) /\ Calls(server, http) = {}
    BY <1>3, <1>4 DEF Reading, Has, Calls
  <1>9. Settles(device, server, http, inbox, forgotten)
    <2>1. ~Fetches(device, http, inbox, connected)
      BY <1>3, <1>6, <1>8 DEF Fetches
    <2>2. ~Awaits(device, server, http, forgotten)
      BY <1>6 DEF Awaits
    <2>. QED BY <1>1, <1>2, <2>1, <2>2 DEF Quiet, Catches
  <1>10. device.held = <<>>
    BY <1>1, <1>3, <1>4 DEF Inv, Types, InStep
  <1>11. \A k : ~Alarm(q, {}, inbox, k)
    BY <1>3 DEF Alarm
  <1>12. Current(q, es, server, <<>>, inbox, 0, forgotten) /\ Rest(device, server, forgotten)
    <2>1. Aim(device, http).queue = q /\ Aim(device, http).edits = es
      BY <1>8 DEF Aim
    <2>. QED BY <1>8, <1>9, <1>10, <1>11, <2>1 DEF Settles, Soon
  <1>13. q = server.active
    BY <1>12 DEF Current
  <1>14. ASSUME q \notin forgotten.queues, q # None
         PROVE  Edits(device.pending) = {} /\ es = server.queues[q].edits
    <2>1. es \in Seq(Edit) /\ fs \in Seq(Edit)
      BY <1>1, EditsInTyped DEF DeviceType, Contents
    <2>2. Prefix(es, fs) /\ Len(es) + 1 .. Len(fs) = {}
      <3>1. \A v : ~Comes(q, v, <<>>, inbox, 0)
        BY <1>3 DEF Comes
      <3>. QED BY <1>12, <1>14, <3>1 DEF Current
    <2>3. es = fs
      <3>1. Len(es) \in Nat /\ Len(fs) \in Nat /\ Len(es) <= Len(fs)
        BY <2>1, <2>2 DEF Prefix
      <3>2. Len(es) = Len(fs)
        <4>1. Len(es) < Len(fs) => Len(fs) \in Len(es) + 1 .. Len(fs)
          BY <3>1
        <4>. QED BY <2>2, <3>1, <4>1
      <3>3. \A i \in 1 .. Len(es) : es[i] = fs[i]
        BY <2>2 DEF Prefix
      <3>. HIDE DEF es, fs
      <3>. QED BY <2>1, <3>2, <3>3
    <2>4. q \in DOMAIN server.queues
      BY <1>1, <1>13, <1>14 DEF ServerType
    <2>5. fs = server.queues[q].edits
      BY <2>4 DEF EditsIn
    <2>6. ASSUME NEW i \in DOMAIN device.pending PROVE FALSE
      <3>1. Sent(device.pending[i])
        BY <1>7 DEF Unanswered
      <3>2. /\ device.pending[i].edit \notin ToSet(es)
            /\ Applied(fs, device.pending[i].edit, device.pending[i].version)
        BY <1>12, <1>14, <3>1 DEF Rest
      <3>. QED BY <2>1, <2>3, <3>2 DEF Applied, ToSet
    <2>7. Edits(device.pending) = {}
      BY <2>6 DEF Edits
    <2>. QED BY <2>3, <2>5, <2>7
  <1>. QED BY <1>13, <1>14

(***************************************************************************)
(* A connected device with every message heard and nothing left to send    *)
(* shows the queue the server holds (heard, caughtUp and drain of store.ts;*)
(* the broadcasts of kept.rs and events.rs): the queue the account plays,  *)
(* each of its edits, and none of the device's own on top; unless a start  *)
(* or restore was never announced, or a restore was answered with another  *)
(* queue (missed), and but for the edits of a queue a crash or a save of   *)
(* the account let go of.                                                  *)
(***************************************************************************)
THEOREM QuietDevicesAreCurrent == QueueSpec => []QuietIsCurrent
  <1>1. QueueInit => QuietInv
    BY InitQuiet
  <1>2. QuietInv /\ [QueueNext]_clientVars => QuietInv'
    <2>1. ASSUME QuietInv, UNCHANGED clientVars PROVE QuietInv'
      BY <2>1 DEF QuietInv, QueueInv, clientVars
    <2>. QED BY <2>1, StepQuiet
  <1>3. QuietInv => QuietIsCurrent
    BY QuietShows
  <1>. QED BY <1>1, <1>2, <1>3, PTL DEF QueueSpec

-----------------------------------------------------------------------------
(***************************************************************************)
(* A round of the shuffle undoes itself, for every number of rows, seed    *)
(* and generator: what lets a device find the row of a track without a     *)
(* table, and unshuffle without having kept one (permutation.rs:1-10).     *)
(***************************************************************************)
\* A row's partner is a row, whose partner it is (permutation.rs:38-39).
LEMMA PartnersPair ==
    ASSUME NEW m \in Nat \ {0}, NEW pivot \in 0 .. m - 1, NEW x \in 0 .. m - 1
    PROVE  /\ Partner(pivot, m, x) \in 0 .. m - 1
           /\ Partner(pivot, m, Partner(pivot, m, x)) = x
<1>1. CASE pivot >= x
  BY <1>1 DEF Partner
<1>2. CASE pivot < x
  <2>1. Partner(pivot, m, x) = pivot + (m - x)
    BY <1>2 DEF Partner
  <2>2. pivot + (m - x) \in 0 .. m - 1 /\ pivot < pivot + (m - x)
    BY <1>2
  <2>3. Partner(pivot, m, pivot + (m - x)) = pivot + (m - (pivot + (m - x)))
    BY <2>2 DEF Partner
  <2> QED
    BY <2>1, <2>2, <2>3
<1> QED
  BY <1>1, <1>2

\* Both rows of a pair toss the same coin.
LEMMA HigherIsShared ==
    ASSUME NEW x \in Int, NEW y \in Int
    PROVE  Higher(x, y) = Higher(y, x)
BY DEF Higher

\* A round keeps every row a row and undoes itself, so unpermute, which runs the rounds backwards,
\* gives back the row permute was given (permutation.rs:34-74).
THEOREM RoundUndoesItself ==
    ASSUME NEW seed, NEW i, NEW m \in Nat \ {0}, NEW x \in 0 .. m - 1,
           Pivot(seed, m, i) \in 0 .. m - 1
    PROVE  /\ Round(seed, m, i, x) \in 0 .. m - 1
           /\ Round(seed, m, i, Round(seed, m, i, x)) = x
<1> DEFINE pivot == Pivot(seed, m, i)
           y == Partner(pivot, m, x)
<1>2. y \in 0 .. m - 1 /\ Partner(pivot, m, y) = x
  BY PartnersPair
<1>3. Higher(x, y) = Higher(y, x)
  BY <1>2, HigherIsShared
<1> HIDE DEF y
<1>4. Round(seed, m, i, x) = IF Coin(seed, i, Higher(x, y)) THEN y ELSE x
  BY DEF Round, y
<1>5. Round(seed, m, i, y) = IF Coin(seed, i, Higher(y, x)) THEN x ELSE y
  BY <1>2 DEF Round
<1>6. CASE Coin(seed, i, Higher(x, y))
  BY <1>2, <1>3, <1>4, <1>5, <1>6
<1>7. CASE ~Coin(seed, i, Higher(x, y))
  BY <1>4, <1>7
<1> QED
  BY <1>6, <1>7
=============================================================================
