---------------------------- MODULE PagesProofs ----------------------------
(***************************************************************************)
(* What is proved of Playlists: however its requests are retried, given    *)
(* up, lost, overtaken by other devices' edits or outlive the page's wait, *)
(* an edit is applied once, and one the page says was not applied was not; *)
(* the rows, by their keys, are what the edits applied made of the list;   *)
(* and what the page has as confirmed is the list of that version.         *)
(*                                                                         *)
(* The first invariant follows the edits by their numbers and the versions *)
(* they were sent against, and leaves what they make of a list opaque.     *)
(* What the ops, the longest run and the keys compute is proved after it,  *)
(* and joins the two in PlaylistInv.                                       *)
(***************************************************************************)
EXTENDS Playlists, TLAPS, SequenceTheorems, FiniteSetTheorems, WellFoundedInduction

PageFields == {"version", "items", "shown", "queue", "doing", "attempt", "read", "after", "at",
               "tries"}
RequestFields == {"edit", "attempt", "ops", "base", "planned", "plan"}

\* A value as a set: e is among what s holds.
Holds(s, e) == \E i \in DOMAIN s : s[i] = e

-----------------------------------------------------------------------------
(***************************************************************************)
(* The inductive invariant, over the values of the state: pg is the page,  *)
(* R the requests, v the version, ap the edits applied, an the answers, dr *)
(* the edits dropped, del whether the playlist is deleted, lib what edits  *)
(* are planned with, sw whether answers were swept, edits how many were    *)
(* made.                                                                   *)
(***************************************************************************)
PageOk(pg, v) ==
    /\ DOMAIN pg = PageFields
    /\ pg.doing \in {"idle", "asking", "reloading", "read"}
    /\ pg.attempt \in Nat
    /\ pg.version \in Nat /\ 1 <= pg.version /\ pg.version <= v
    /\ IsList(pg.queue)
    /\ pg.doing # "idle" => pg.queue # <<>>

\* The edit that is applied i-th makes version i + 1.
ServerOk(v, ap, an, edits) ==
    /\ edits \in Nat
    /\ v \in Nat /\ ap \in Seq(0 .. edits) /\ v = Len(ap) + 1
    /\ DOMAIN an \subseteq 1 .. edits
    /\ \A e \in DOMAIN an : an[e] \in Nat /\ 1 <= an[e] /\ an[e] <= v

RequestsOk(R, edits) ==
    \A r \in R : DOMAIN r = RequestFields /\ r.edit \in 1 .. edits /\ r.attempt \in Nat
                    /\ r.base \in Nat

\* Edits wait in the order they were made, and only the first has been sent.
QueueOk(q, R, ap, an, dr, edits) ==
    /\ \A i \in DOMAIN q : q[i].edit \in 1 .. edits /\ q[i].edit \notin dr
    /\ \A i, j \in DOMAIN q : i < j => q[i].edit < q[j].edit
    /\ \A i \in DOMAIN q : i # 1 =>
        /\ \A r \in R : r.edit # q[i].edit
        /\ ~Holds(ap, q[i].edit)
        /\ q[i].edit \notin DOMAIN an

\* However often it is sent, the first is sent against the version confirmed, and applied to it.
HeadOk(pg, R, ap) ==
    pg.queue # <<>> =>
        /\ \A r \in R : r.edit = pg.queue[1].edit =>
                r.base = pg.version /\ r.ops = pg.queue[1].ops
        /\ \A i \in DOMAIN ap : ap[i] = pg.queue[1].edit => i = pg.version

\* The page waits for its latest attempt, at its first edit.
AttemptsOk(pg, R) ==
    \A r \in R :
        /\ r.attempt <= pg.attempt
        /\ r.attempt = pg.attempt =>
                /\ pg.doing # "idle"
                /\ pg.doing = "asking" => r.edit = pg.queue[1].edit

\* An edit is applied to the version all its requests name, so it is applied once.
OnceOk(R, ap) ==
    /\ \A r \in R : \A i \in DOMAIN ap : ap[i] = r.edit => i = r.base
    /\ \A r, s \in R : r.edit = s.edit => r.base = s.base /\ r.ops = s.ops
    /\ \A i, j \in DOMAIN ap : ap[i] = ap[j] /\ ap[i] # NoEdit => i = j

\* The tracks there are to add, and the list the ops must apply to.
Stock == <<library, Listed(rows)>>

\* Nothing will write it any more.
StuckIn(r, v, del, lib) ==
    del \/ ~(Adds(r.ops) \cap Addable \subseteq lib[1]) \/ ~AllInRange(lib[2], r.ops) \/ r.base < v

\* What was dropped cannot be written by a request that is left.
StuckOk(R, dr, v, del, lib, edits) ==
    /\ dr \subseteq 1 .. edits
    /\ \A r \in R : r.edit \in dr => StuckIn(r, v, del, lib)

\* Until answers are swept, what was applied is known, and was not dropped.
ExcusedOk(ap, an, dr, sw) ==
    sw \/ \A i \in DOMAIN ap : ap[i] # NoEdit => ap[i] \in DOMAIN an /\ ap[i] \notin dr

\* A page that reloads has been overtaken, and by an edit that is not its own.
ReloadOk(pg, v, ap, sw) ==
    pg.doing \in {"reloading", "read"} =>
        pg.version < v /\ (sw \/ ~Holds(ap, pg.queue[1].edit))

Safe(pg, R, v, ap, an, dr, del, lib, sw, edits) ==
    /\ PageOk(pg, v)
    /\ ServerOk(v, ap, an, edits)
    /\ RequestsOk(R, edits)
    /\ QueueOk(pg.queue, R, ap, an, dr, edits)
    /\ HeadOk(pg, R, ap)
    /\ AttemptsOk(pg, R)
    /\ OnceOk(R, ap)
    /\ StuckOk(R, dr, v, del, lib, edits)
    /\ ExcusedOk(ap, an, dr, sw)
    /\ ReloadOk(pg, v, ap, sw)

PagesInv ==
    /\ DOMAIN spent = {"edits", "others", "mishaps"}
    /\ Safe(page, requests, version, applied, answers, dropped, deleted, Stock, swept,
            spent.edits)

\* A request names a version there has been, and what is planned of the latest can be applied.
PlannedInv ==
    \A r \in requests :
        /\ r.base <= version
        /\ r.planned /\ r.base = version /\ ~deleted => AllInRange(Listed(rows), r.ops)

-----------------------------------------------------------------------------
(***************************************************************************)
(* Sequences.                                                              *)
(***************************************************************************)
(* A sequence is one of its own elements. *)
LEMMA OwnElements ==
    ASSUME NEW S, NEW s \in Seq(S)
    PROVE  IsList(s)
  <1>1. Len(s) \in Nat /\ s = [i \in 1 .. Len(s) |-> s[i]]
    OBVIOUS
  <1>. DEFINE T == {s[i] : i \in DOMAIN s}
  <1>2. s \in [1 .. Len(s) -> T]
    BY <1>1
  <1>3. s \in Seq(T)
    BY <1>1, <1>2, SeqDef
  <1>. QED BY <1>3 DEF IsList

(* What an edit queued leaves of the queue (EditablePlaylist.#edit). *)
LEMMA Queued ==
    ASSUME NEW q, IsList(q), NEW e
    PROVE  /\ IsList(Append(q, e)) /\ Append(q, e) # <<>>
           /\ DOMAIN q = 1 .. Len(q) /\ Len(q) \in Nat
           /\ DOMAIN Append(q, e) = 1 .. Len(q) + 1
           /\ \A i \in DOMAIN q : Append(q, e)[i] = q[i]
           /\ Append(q, e)[Len(q) + 1] = e
  <1>. DEFINE T == {q[i] : i \in DOMAIN q}
              S == T \cup {e}
  <1>1. q \in Seq(T)
    BY DEF IsList
  <1>2. Len(q) \in Nat /\ DOMAIN q = 1 .. Len(q) /\ q \in [1 .. Len(q) -> T]
    BY <1>1
  <1>3. q \in [1 .. Len(q) -> S]
    BY <1>2
  <1>4. q \in Seq(S)
    BY <1>2, <1>3, SeqDef
  <1>5. e \in S
    OBVIOUS
  <1>. HIDE DEF S
  <1>6. Append(q, e) \in Seq(S) /\ Append(q, e) # <<>>
    BY <1>4, <1>5, AppendProperties
  <1>7. IsList(Append(q, e))
    BY <1>6, OwnElements
  <1>8. /\ DOMAIN Append(q, e) = 1 .. Len(q) + 1
        /\ \A i \in 1 .. Len(q) : Append(q, e)[i] = q[i]
        /\ Append(q, e)[Len(q) + 1] = e
    BY <1>2, <1>4, <1>5
  <1>. QED BY <1>2, <1>6, <1>7, <1>8

(* What the first edit answered leaves of it (EditablePlaylist.#send). *)
LEMMA Answered ==
    ASSUME NEW q, IsList(q), q # <<>>
    PROVE  /\ IsList(Tail(q))
           /\ Len(q) \in Nat /\ Len(q) >= 1 /\ DOMAIN q = 1 .. Len(q) /\ Head(q) = q[1]
           /\ DOMAIN Tail(q) = 1 .. Len(q) - 1
           /\ \A i \in DOMAIN Tail(q) : Tail(q)[i] = q[i + 1]
           /\ Tail(q) # <<>> => 1 \in DOMAIN Tail(q) /\ 2 \in DOMAIN q
  <1>. DEFINE T == {q[i] : i \in DOMAIN q}
  <1>1. q \in Seq(T)
    BY DEF IsList
  <1>. HIDE DEF T
  <1>2. Tail(q) \in Seq(T)
    BY <1>1
  <1>3. IsList(Tail(q))
    BY <1>2, OwnElements
  <1>4. Len(q) \in Nat /\ Len(q) >= 1 /\ DOMAIN q = 1 .. Len(q) /\ Head(q) = q[1]
    BY <1>1
  <1>5. /\ DOMAIN Tail(q) = 1 .. Len(q) - 1
        /\ \A i \in DOMAIN Tail(q) : Tail(q)[i] = q[i + 1]
    BY <1>1, <1>4
  <1>6. Tail(q) # <<>> => 1 \in DOMAIN Tail(q) /\ 2 \in DOMAIN q
    BY <1>1, <1>2, <1>4
  <1>. QED BY <1>3, <1>4, <1>5, <1>6

(* The edit a write applies is the last of those applied (write). *)
LEMMA Applied ==
    ASSUME NEW S, NEW ap \in Seq(S), NEW e \in S
    PROVE  /\ Append(ap, e) \in Seq(S) /\ Len(Append(ap, e)) = Len(ap) + 1 /\ Len(ap) \in Nat
           /\ DOMAIN ap = 1 .. Len(ap)
           /\ DOMAIN Append(ap, e) = 1 .. Len(ap) + 1
           /\ \A i \in DOMAIN ap : Append(ap, e)[i] = ap[i]
           /\ Append(ap, e)[Len(ap) + 1] = e
  OBVIOUS

-----------------------------------------------------------------------------
(***************************************************************************)
(* The page, when the server stands still.                                 *)
(***************************************************************************)
(* Everything pending is dropped, and nothing of it can be applied any     *)
(* more, nor was, but for what is no longer known (EditablePlaylist.       *)
(* #reset).                                                                *)
LEMMA Forgetting ==
    ASSUME NEW R, NEW v, NEW ap, NEW an, NEW del, NEW lib, NEW sw, NEW edits, NEW at,
           Safe(page, R, v, ap, an, dropped, del, lib, sw, edits),
           page.queue # <<>>,
           at.version \in Nat, 1 <= at.version, at.version <= v,
           sw \/ ~Holds(ap, page.queue[1].edit),
           \A r \in R : r.edit = page.queue[1].edit => StuckIn(r, v, del, lib),
           Forgets(at)
    PROVE  Safe(page', R, v, ap, an, dropped', del, lib, sw, edits)
  <1>. DEFINE q == page.queue
              fallen == {q[i].edit : i \in DOMAIN q}
  <1>1. page' = Reset(at) /\ dropped' = dropped \cup fallen
    BY DEF Forgets
  <1>2. PageOk(page, v) /\ RequestsOk(R, edits) /\ AttemptsOk(page, R)
    BY DEF Safe
  <1>3. /\ DOMAIN page' = PageFields
        /\ page'.version = at.version /\ page'.queue = <<>> /\ page'.doing = "idle"
        /\ page'.attempt = page.attempt + 1
    BY <1>1, <1>2 DEF Reset, PageOk, PageFields
  <1>4. IsList(<<>>)
    BY DEF IsList
  <1>5. PageOk(page', v)
    BY <1>2, <1>3, <1>4 DEF PageOk
  <1>6. QueueOk(page'.queue, R, ap, an, dropped', edits)
    BY <1>3 DEF QueueOk
  <1>7. HeadOk(page', R, ap)
    BY <1>3 DEF HeadOk
  <1>8. AttemptsOk(page', R)
    BY <1>2, <1>3 DEF AttemptsOk, PageOk, RequestsOk
  <1>9. StuckOk(R, dropped', v, del, lib, edits)
    <2>1. QueueOk(q, R, ap, an, dropped, edits) /\ StuckOk(R, dropped, v, del, lib, edits)
      BY DEF Safe
    <2>2. dropped' \subseteq 1 .. edits
      BY <1>1, <2>1 DEF QueueOk, StuckOk
    <2>3. ASSUME NEW r \in R, r.edit \in dropped'
          PROVE  StuckIn(r, v, del, lib)
      <3>1. CASE r.edit \in dropped
        BY <2>1, <3>1 DEF StuckOk
      <3>2. CASE r.edit \notin dropped
        <4>1. PICK i \in DOMAIN q : r.edit = q[i].edit
          BY <1>1, <2>3, <3>2
        <4>2. i = 1
          BY <2>1, <4>1 DEF QueueOk
        <4>. QED BY <4>1, <4>2
      <3>. QED BY <3>1, <3>2
    <2>. QED BY <2>2, <2>3 DEF StuckOk
  <1>10. ExcusedOk(ap, an, dropped', sw)
    <2>1. QueueOk(q, R, ap, an, dropped, edits) /\ ExcusedOk(ap, an, dropped, sw)
      BY DEF Safe
    <2>2. ASSUME ~sw, NEW i \in DOMAIN ap, ap[i] # NoEdit
          PROVE  ap[i] \in DOMAIN an /\ ap[i] \notin dropped'
      <3>1. ap[i] \in DOMAIN an /\ ap[i] \notin dropped
        BY <2>1, <2>2 DEF ExcusedOk
      <3>2. ASSUME NEW j \in DOMAIN q
            PROVE  ap[i] # q[j].edit
        <4>1. CASE j = 1
          BY <2>2, <4>1 DEF Holds
        <4>2. CASE j # 1
          BY <2>1, <4>2 DEF QueueOk, Holds
        <4>. QED BY <4>1, <4>2
      <3>. QED BY <1>1, <3>1, <3>2
    <2>. QED BY <2>2 DEF ExcusedOk
  <1>11. ReloadOk(page', v, ap, sw)
    BY <1>3 DEF ReloadOk
  <1>. QED BY <1>5, <1>6, <1>7, <1>8, <1>9, <1>10, <1>11 DEF Safe

(* The first edit is done with (EditablePlaylist.#send).                   *)
LEMMA Confirming ==
    ASSUME NEW R, NEW v, NEW ap, NEW an, NEW dr, NEW del, NEW lib, NEW sw, NEW edits, NEW w,
           Safe(page, R, v, ap, an, dr, del, lib, sw, edits),
           page.queue # <<>>,
           w \in Nat, 1 <= w, w <= v,
           page' = [page EXCEPT !.version = w,
                       !.items = ApplyOps(@, Head(page.queue).ops),
                       !.queue = Tail(@), !.doing = "idle", !.attempt = @ + 1]
    PROVE  Safe(page', R, v, ap, an, dr, del, lib, sw, edits)
  <1>. DEFINE q == page.queue
  <1>1. PageOk(page, v) /\ RequestsOk(R, edits) /\ AttemptsOk(page, R)
        /\ QueueOk(q, R, ap, an, dr, edits)
    BY DEF Safe
  <1>2. /\ DOMAIN page' = PageFields
        /\ page'.version = w /\ page'.queue = Tail(q) /\ page'.doing = "idle"
        /\ page'.attempt = page.attempt + 1
    BY <1>1 DEF PageOk, PageFields
  <1>3. IsList(q)
    BY <1>1 DEF PageOk
  <1>4. /\ IsList(Tail(q))
        /\ Len(q) \in Nat /\ Len(q) >= 1 /\ DOMAIN q = 1 .. Len(q)
        /\ DOMAIN Tail(q) = 1 .. Len(q) - 1
        /\ \A i \in DOMAIN Tail(q) : Tail(q)[i] = q[i + 1]
        /\ Tail(q) # <<>> => 1 \in DOMAIN Tail(q) /\ 2 \in DOMAIN q
    BY <1>3, Answered
  <1>. HIDE DEF q
  <1>5. PageOk(page', v)
    <2>1. page'.attempt \in Nat
      BY <1>1, <1>2 DEF PageOk
    <2>2. IsList(page'.queue)
      BY <1>2, <1>4
    <2>. QED BY <1>2, <2>1, <2>2 DEF PageOk
  <1>6. \A i \in DOMAIN Tail(q) : i + 1 \in DOMAIN q /\ i + 1 # 1 /\ i \in Nat
    BY <1>4
  <1>7. QueueOk(page'.queue, R, ap, an, dr, edits)
    <2>1. \A i \in DOMAIN Tail(q) : Tail(q)[i].edit \in 1 .. edits /\ Tail(q)[i].edit \notin dr
      BY <1>1, <1>4, <1>6 DEF QueueOk
    <2>2. \A i, j \in DOMAIN Tail(q) : i < j => Tail(q)[i].edit < Tail(q)[j].edit
      BY <1>1, <1>4, <1>6 DEF QueueOk
    <2>3. ASSUME NEW i \in DOMAIN Tail(q)
          PROVE  /\ \A r \in R : r.edit # Tail(q)[i].edit
                 /\ ~Holds(ap, Tail(q)[i].edit)
                 /\ Tail(q)[i].edit \notin DOMAIN an
      BY <1>1, <1>4, <1>6 DEF QueueOk
    <2>. QED BY <1>2, <2>1, <2>2, <2>3 DEF QueueOk
  <1>8. HeadOk(page', R, ap)
    <2>1. ASSUME Tail(q) # <<>>
          PROVE  (\A r \in R : r.edit # Tail(q)[1].edit) /\ ~Holds(ap, Tail(q)[1].edit)
      BY <1>1, <1>4, <1>6, <2>1 DEF QueueOk
    <2>. QED BY <1>2, <2>1 DEF HeadOk, Holds
  <1>9. AttemptsOk(page', R)
    BY <1>1, <1>2 DEF AttemptsOk, PageOk, RequestsOk
  <1>10. ReloadOk(page', v, ap, sw)
    BY <1>2 DEF ReloadOk
  <1>. QED BY <1>5, <1>7, <1>8, <1>9, <1>10 DEF Safe

-----------------------------------------------------------------------------
(***************************************************************************)
(* The requests and the server, when the page stands still.                *)
(***************************************************************************)
\* Every request of Q is one of R, but for its plan.
Repeats(Q, R) ==
    \A s \in Q : /\ DOMAIN s = RequestFields
                 /\ \E r \in R : /\ s.edit = r.edit /\ s.attempt = r.attempt
                                 /\ s.ops = r.ops /\ s.base = r.base

(* Requests that come back unchanged or not at all leave everything as it  *)
(* is: an answer given, a plan made or dropped, a request lost.            *)
LEMMA FewerRequests ==
    ASSUME NEW R, NEW v, NEW ap, NEW an, NEW dr, NEW del, NEW lib, NEW sw, NEW edits, NEW Q,
           Safe(page, R, v, ap, an, dr, del, lib, sw, edits),
           Repeats(Q, R)
    PROVE  Safe(page, Q, v, ap, an, dr, del, lib, sw, edits)
  <1>1. RequestsOk(Q, edits)
    BY DEF Safe, RequestsOk, Repeats
  <1>2. QueueOk(page.queue, Q, ap, an, dr, edits)
    BY DEF Safe, QueueOk, Repeats
  <1>3. HeadOk(page, Q, ap)
    BY DEF Safe, HeadOk, Repeats
  <1>4. AttemptsOk(page, Q)
    BY DEF Safe, AttemptsOk, Repeats
  <1>5. OnceOk(Q, ap)
    BY DEF Safe, OnceOk, Repeats
  <1>6. StuckOk(Q, dr, v, del, lib, edits)
    BY DEF Safe, StuckOk, StuckIn, Repeats
  <1>. QED BY <1>1, <1>2, <1>3, <1>4, <1>5, <1>6 DEF Safe

(* An edit is applied: another device's, or one requested and not answered *)
(* yet, to the version its request names (write).                          *)
LEMMA Applying ==
    ASSUME NEW R, NEW v, NEW ap, NEW an, NEW dr, NEW del, NEW lib, NEW sw, NEW edits,
           NEW e, NEW an2, NEW lib2,
           Safe(page, R, v, ap, an, dr, del, lib, sw, edits),
           \A r \in R : r.base <= v,
           \/ e = NoEdit /\ an2 = an
           \/ \E r \in R :
                /\ e = r.edit /\ v = r.base /\ e \notin DOMAIN an
                /\ ~del /\ Adds(r.ops) \cap Addable \subseteq lib[1]
                /\ AllInRange(lib[2], r.ops)
                /\ an2 = [x \in DOMAIN an \cup {e} |-> IF x = e THEN v + 1 ELSE an[x]]
    PROVE  Safe(page, R, v + 1, Append(ap, e), an2, dr, del, lib2, sw, edits)
  <1>. DEFINE q == page.queue
              ap2 == Append(ap, e)
  <1>1. /\ PageOk(page, v) /\ ServerOk(v, ap, an, edits) /\ RequestsOk(R, edits)
        /\ QueueOk(q, R, ap, an, dr, edits) /\ HeadOk(page, R, ap) /\ OnceOk(R, ap)
        /\ StuckOk(R, dr, v, del, lib, edits) /\ ExcusedOk(ap, an, dr, sw)
        /\ ReloadOk(page, v, ap, sw)
    BY DEF Safe
  <1>2. v \in Nat /\ edits \in Nat /\ ap \in Seq(0 .. edits) /\ v = Len(ap) + 1
    BY <1>1 DEF ServerOk
  <1>3. e \in 0 .. edits
    BY <1>1, <1>2 DEF RequestsOk, NoEdit
  <1>4. /\ ap2 \in Seq(0 .. edits) /\ Len(ap2) = Len(ap) + 1 /\ Len(ap) \in Nat
        /\ DOMAIN ap = 1 .. Len(ap) /\ DOMAIN ap2 = 1 .. Len(ap) + 1
        /\ \A i \in DOMAIN ap : ap2[i] = ap[i]
        /\ ap2[Len(ap) + 1] = e
    BY <1>2, <1>3, Applied
  <1>. HIDE DEF q, ap2
  <1>5. \A i \in DOMAIN ap2 : (i \in DOMAIN ap /\ ap2[i] = ap[i]) \/ (i = v /\ ap2[i] = e)
    BY <1>2, <1>4
  <1>6. ASSUME NEW x, Holds(ap2, x)
        PROVE  Holds(ap, x) \/ x = e
    BY <1>5, <1>6 DEF Holds
  <1>7. /\ DOMAIN an \subseteq DOMAIN an2 /\ DOMAIN an2 \subseteq DOMAIN an \cup {e}
        /\ e # NoEdit => e \in DOMAIN an2
    BY <1>1 DEF ServerOk
  <1>8. e # NoEdit => \E r \in R : e = r.edit /\ r.base = v /\ ~StuckIn(r, v, del, lib)
    BY <1>2 DEF StuckIn
  <1>9. PageOk(page, v + 1)
    BY <1>1, <1>2 DEF PageOk
  <1>10. ServerOk(v + 1, ap2, an2, edits)
    <2>1. DOMAIN an2 \subseteq 1 .. edits
      BY <1>1, <1>2, <1>3, <1>7 DEF ServerOk, NoEdit, RequestsOk
    <2>2. \A x \in DOMAIN an2 : an2[x] \in Nat /\ 1 <= an2[x] /\ an2[x] <= v + 1
      BY <1>1, <1>2 DEF ServerOk
    <2>. QED BY <1>2, <1>4, <2>1, <2>2 DEF ServerOk
  <1>11. QueueOk(q, R, ap2, an2, dr, edits)
    <2>1. ASSUME NEW i \in DOMAIN q, i # 1
          PROVE  q[i].edit # e
      <3>1. q[i].edit \in 1 .. edits /\ \A r \in R : r.edit # q[i].edit
        BY <1>1, <2>1 DEF QueueOk
      <3>. QED BY <1>2, <1>8, <3>1 DEF NoEdit
    <2>2. ASSUME NEW i \in DOMAIN q, i # 1
          PROVE  ~Holds(ap2, q[i].edit) /\ q[i].edit \notin DOMAIN an2
      <3>1. ~Holds(ap, q[i].edit) /\ q[i].edit \notin DOMAIN an
        BY <1>1, <2>2 DEF QueueOk
      <3>2. q[i].edit # e
        BY <2>1, <2>2
      <3>3. ~Holds(ap2, q[i].edit)
        BY <1>6, <3>1, <3>2
      <3>. QED BY <1>7, <3>1, <3>2, <3>3
    <2>. QED BY <1>1, <2>2 DEF QueueOk
  <1>12. ASSUME q # <<>>
         PROVE  1 \in DOMAIN q /\ q[1].edit \in 1 .. edits /\ q[1].edit # NoEdit
    <2>1. 1 \in DOMAIN q
      <3>1. IsList(q)
        BY <1>1 DEF PageOk, q
      <3>2. Len(q) \in Nat /\ Len(q) >= 1 /\ DOMAIN q = 1 .. Len(q)
        BY <1>12, <3>1, Answered
      <3>. QED BY <3>2
    <2>2. q[1].edit \in 1 .. edits
      BY <1>1, <2>1 DEF QueueOk
    <2>. QED BY <1>2, <2>1, <2>2 DEF NoEdit
  <1>13. HeadOk(page, R, ap2)
    <2>1. ASSUME q # <<>>, NEW i \in DOMAIN ap2, ap2[i] = q[1].edit
          PROVE  i = page.version
      <3>1. (\A r \in R : r.edit = q[1].edit => r.base = page.version)
            /\ \A j \in DOMAIN ap : ap[j] = q[1].edit => j = page.version
        BY <1>1, <2>1 DEF HeadOk, q
      <3>2. q[1].edit # NoEdit
        BY <1>12, <2>1
      <3>. QED BY <1>5, <1>8, <2>1, <3>1, <3>2
    <2>. QED BY <1>1, <2>1 DEF HeadOk, q
  <1>14. OnceOk(R, ap2)
    <2>1. ASSUME NEW r \in R, NEW i \in DOMAIN ap2, ap2[i] = r.edit
          PROVE  i = r.base
      <3>1. r.edit # NoEdit
        BY <1>1, <1>2 DEF RequestsOk, NoEdit
      <3>. QED BY <1>1, <1>5, <1>8, <2>1, <3>1 DEF OnceOk
    <2>2. ASSUME NEW i \in DOMAIN ap, e # NoEdit
          PROVE  ap[i] # e
      <3>1. i # v
        BY <1>2, <1>4
      <3>. QED BY <1>1, <1>8, <2>2, <3>1 DEF OnceOk
    <2>3. ASSUME NEW i \in DOMAIN ap2, NEW j \in DOMAIN ap2, ap2[i] = ap2[j], ap2[i] # NoEdit
          PROVE  i = j
      BY <1>1, <1>5, <2>2, <2>3 DEF OnceOk
    <2>. QED BY <1>1, <2>1, <2>3 DEF OnceOk
  <1>15. StuckOk(R, dr, v + 1, del, lib2, edits)
    <2>1. \A r \in R : StuckIn(r, v + 1, del, lib2)
      BY <1>1, <1>2 DEF StuckIn, RequestsOk
    <2>. QED BY <1>1, <2>1 DEF StuckOk
  <1>16. ExcusedOk(ap2, an2, dr, sw)
    <2>1. e # NoEdit => e \notin dr
      BY <1>1, <1>8 DEF StuckOk
    <2>. QED BY <1>1, <1>5, <1>7, <2>1 DEF ExcusedOk
  <1>17. ReloadOk(page, v + 1, ap2, sw)
    <2>1. ASSUME page.doing \in {"reloading", "read"}
          PROVE  page.version < v + 1 /\ (sw \/ ~Holds(ap2, q[1].edit))
      <3>1. page.version < v /\ (sw \/ ~Holds(ap, q[1].edit)) /\ page.version \in Nat
        BY <1>1, <2>1 DEF ReloadOk, PageOk, q
      <3>2. q # <<>>
        BY <1>1, <2>1 DEF PageOk, q
      <3>3. \A r \in R : r.edit = q[1].edit => r.base = page.version
        BY <1>1, <3>2 DEF HeadOk, q
      <3>4. e # q[1].edit
        BY <1>2, <1>8, <1>12, <3>1, <3>2, <3>3
      <3>. QED BY <1>2, <1>6, <3>1, <3>4
    <2>. QED BY <2>1 DEF ReloadOk, q
  <1>18. AttemptsOk(page, R)
    BY DEF Safe
  <1>. QED BY <1>1, <1>9, <1>10, <1>11, <1>13, <1>14, <1>15, <1>16, <1>17, <1>18
           DEF Safe, q, ap2

-----------------------------------------------------------------------------
(***************************************************************************)
(* An answer and the page it reaches.                                      *)
(***************************************************************************)
\* Whether the page waits for the answer to request r.
Waits(r) == page.doing = "asking" /\ r.attempt = page.attempt

\* What an answer to request r must say: a version there is, another device's edit since the
\* version confirmed, or that r's edit was not applied and no request left can do it.
Truthful(r, answer, R, v, ap, del, lib, sw) ==
    \/ \E w \in 1 .. v : answer = Ok(w)
    \/ answer = Conflict /\ r.base # v /\ (sw \/ ~Holds(ap, r.edit))
    \/ /\ answer = Refused /\ (sw \/ ~Holds(ap, r.edit))
       /\ \A s \in R : s.edit = r.edit /\ s.ops = r.ops => StuckIn(s, v, del, lib)

(* A page that waits for a request has its edit first in the queue, against *)
(* the version it has confirmed (EditablePlaylist.#send).                  *)
LEMMA WaitsForItsFirst ==
    ASSUME NEW R, NEW v, NEW ap, NEW an, NEW dr, NEW del, NEW lib, NEW sw, NEW edits, NEW r \in R,
           Safe(page, R, v, ap, an, dr, del, lib, sw, edits), Waits(r)
    PROVE  /\ page.queue # <<>> /\ r.edit = page.queue[1].edit
           /\ r.ops = page.queue[1].ops /\ r.base = page.version
  <1>1. PageOk(page, v) /\ AttemptsOk(page, R) /\ HeadOk(page, R, ap)
    BY DEF Safe
  <1>2. page.queue # <<>> /\ r.edit = page.queue[1].edit
    BY <1>1 DEF PageOk, AttemptsOk, Waits
  <1>. QED BY <1>1, <1>2 DEF HeadOk

(* A truthful answer leaves the invariant, whether the page waits for it,  *)
(* has given it up, or waits for another (EditablePlaylist.#send).         *)
LEMMA Hearing ==
    ASSUME NEW R, NEW v, NEW ap, NEW an, NEW del, NEW lib, NEW sw, NEW edits,
           NEW r \in R, NEW answer,
           Safe(page, R, v, ap, an, dropped, del, lib, sw, edits),
           Truthful(r, answer, R, v, ap, del, lib, sw),
           PageHears(r, answer)
    PROVE  Safe(page', R, v, ap, an, dropped', del, lib, sw, edits)
  <1>1. CASE ~Waits(r)
    <2>1. page' = page /\ dropped' = dropped
      BY <1>1 DEF PageHears, Waits
    <2>. QED BY <2>1
  <1>2. CASE Waits(r)
    <2>. DEFINE q == page.queue
    <2>1. q # <<>> /\ r.edit = q[1].edit /\ r.ops = q[1].ops /\ r.base = page.version
      BY <1>2, WaitsForItsFirst
    <2>2. PageOk(page, v) /\ ServerOk(v, ap, an, edits) /\ HeadOk(page, R, ap)
      BY DEF Safe
    <2>3. CASE \E w \in 1 .. v : answer = Ok(w)
      <3>1. PICK w \in 1 .. v : answer = Ok(w)
        BY <2>3
      <3>2. answer.ok /\ answer.version = w
        BY <3>1 DEF Ok
      <3>3. /\ page' = [page EXCEPT !.version = w,
                           !.items = ApplyOps(@, Head(page.queue).ops),
                           !.queue = Tail(@), !.doing = "idle", !.attempt = @ + 1]
            /\ dropped' = dropped
        BY <1>2, <3>2 DEF PageHears, Waits
      <3>4. v \in Nat
        BY <2>2 DEF ServerOk
      <3>5. w \in Nat /\ 1 <= w /\ w <= v
        BY <3>1, <3>4
      <3>6. Safe(page', R, v, ap, an, dropped, del, lib, sw, edits)
        BY <2>1, <3>3, <3>5, Confirming
      <3>. QED BY <3>3, <3>6
    <2>4. CASE answer = Conflict /\ r.base # v /\ (sw \/ ~Holds(ap, r.edit))
      <3>1. ~answer.ok /\ answer.conflict
        BY <2>4 DEF Conflict
      <3>2. page' = [page EXCEPT !.doing = "reloading"] /\ dropped' = dropped
        BY <1>2, <3>1 DEF PageHears, Waits
      <3>3. /\ DOMAIN page' = PageFields /\ page'.doing = "reloading"
            /\ page'.version = page.version /\ page'.queue = page.queue
            /\ page'.attempt = page.attempt
        BY <2>2, <3>2 DEF PageOk, PageFields
      <3>4. PageOk(page', v)
        BY <2>1, <2>2, <3>3 DEF PageOk
      <3>5. QueueOk(page'.queue, R, ap, an, dropped', edits)
        BY <3>2, <3>3 DEF Safe
      <3>6. HeadOk(page', R, ap)
        BY <2>2, <3>3 DEF HeadOk
      <3>7. AttemptsOk(page', R)
        BY <3>3 DEF Safe, AttemptsOk
      <3>8. ReloadOk(page', v, ap, sw)
        BY <2>1, <2>2, <2>4, <3>3 DEF ReloadOk, PageOk, ServerOk
      <3>. QED BY <3>2, <3>4, <3>5, <3>6, <3>7, <3>8 DEF Safe
    <2>5. CASE /\ answer = Refused /\ (sw \/ ~Holds(ap, r.edit))
               /\ \A s \in R : s.edit = r.edit /\ s.ops = r.ops => StuckIn(s, v, del, lib)
      <3>1. ~answer.ok /\ ~answer.conflict
        BY <2>5 DEF Refused
      <3>2. Forgets(page)
        BY <1>2, <3>1 DEF PageHears, Waits
      <3>3. page.version \in Nat /\ 1 <= page.version /\ page.version <= v
        BY <2>2 DEF PageOk
      <3>4. \A s \in R : s.edit = page.queue[1].edit => StuckIn(s, v, del, lib)
        BY <2>1, <2>2, <2>5 DEF HeadOk
      <3>5. sw \/ ~Holds(ap, page.queue[1].edit)
        BY <2>1, <2>5
      <3>. QED BY <2>1, <3>2, <3>3, <3>4, <3>5, Forgetting
    <2>. QED BY <2>3, <2>4, <2>5 DEF Truthful
  <1>. QED BY <1>1, <1>2

(* The request answered is gone (Ends).                                    *)
LEMMA Ending ==
    ASSUME NEW v, NEW ap, NEW an, NEW del, NEW lib, NEW sw, NEW edits, NEW R,
           NEW r \in R, NEW answer,
           Safe(page, R, v, ap, an, dropped, del, lib, sw, edits),
           Truthful(r, answer, R, v, ap, del, lib, sw),
           PageHears(r, answer)
    PROVE  Safe(page', R \ {r}, v, ap, an, dropped', del, lib, sw, edits)
  <1>1. Safe(page', R, v, ap, an, dropped', del, lib, sw, edits)
    BY Hearing, Zenon
  <1>2. RequestsOk(R, edits)
    BY DEF Safe
  <1>3. RequestsOk(R \ {r}, edits)
    BY <1>2 DEF RequestsOk
  <1>. QED BY <1>1, <1>3 DEF Safe, QueueOk, HeadOk, AttemptsOk, OnceOk, StuckOk

-----------------------------------------------------------------------------
(***************************************************************************)
(* The invariant is inductive.                                             *)
(***************************************************************************)
(* The page has an empty queue when it has loaded the playlist.            *)
LEMMA SafeInit == PlaylistInit => PagesInv
  <1>. SUFFICES ASSUME PlaylistInit PROVE PagesInv
    OBVIOUS
  <1>1. /\ DOMAIN spent = {"edits", "others", "mishaps"} /\ spent.edits = 0
        /\ version = 1 /\ applied = <<>> /\ answers = <<>> /\ dropped = {} /\ requests = {}
        /\ DOMAIN page = PageFields /\ page.version = 1 /\ page.queue = <<>>
        /\ page.doing = "idle" /\ page.attempt = 0
    BY DEF PlaylistInit, PageFields
  <1>2. IsList(<<>>)
    BY DEF IsList
  <1>3. PageOk(page, version)
    BY <1>1, <1>2 DEF PageOk
  <1>4. ServerOk(version, applied, answers, spent.edits)
    BY <1>1 DEF ServerOk
  <1>5. QueueOk(page.queue, requests, applied, answers, dropped, spent.edits)
    BY <1>1 DEF QueueOk
  <1>6. HeadOk(page, requests, applied) /\ AttemptsOk(page, requests) /\ RequestsOk(requests, spent.edits)
    BY <1>1 DEF HeadOk, AttemptsOk, RequestsOk
  <1>7. OnceOk(requests, applied) /\ ExcusedOk(applied, answers, dropped, swept)
    BY <1>1 DEF OnceOk, ExcusedOk
  <1>8. StuckOk(requests, dropped, version, deleted, Stock, spent.edits)
    BY <1>1 DEF StuckOk
  <1>9. ReloadOk(page, version, applied, swept)
    BY <1>1 DEF ReloadOk
  <1>. QED BY <1>1, <1>3, <1>4, <1>5, <1>6, <1>7, <1>8, <1>9 DEF PagesInv, Safe

(* What a retry answered already, or a playlist gone or changed, is told   *)
(* is so (Answer::find, at).                                               *)
LEMMA AnswersAreTruthful ==
    ASSUME PagesInv, NEW r \in requests, NEW answer \in AnswersTo(r)
    PROVE  Truthful(r, answer, requests, version, applied, deleted, Stock, swept)
  <1>1. /\ ServerOk(version, applied, answers, spent.edits) /\ RequestsOk(requests, spent.edits)
        /\ ExcusedOk(applied, answers, dropped, swept)
    BY DEF PagesInv, Safe
  <1>2. CASE Known(r)
    <2>1. answer = Ok(answers[r.edit])
      BY <1>2 DEF AnswersTo
    <2>2. answers[r.edit] \in 1 .. version
      BY <1>1, <1>2 DEF ServerOk, Known
    <2>. QED BY <2>1, <2>2 DEF Truthful
  <1>3. CASE ~Known(r)
    <2>1. answer \in At(r)
      BY <1>3 DEF AnswersTo
    <2>2. swept \/ ~Holds(applied, r.edit)
      <3>1. r.edit # NoEdit
        BY <1>1 DEF RequestsOk, ServerOk, NoEdit
      <3>. QED BY <1>1, <1>3, <3>1 DEF ExcusedOk, Known, Holds
    <2>3. CASE deleted
      BY <2>1, <2>2, <2>3 DEF At, Truthful, StuckIn
    <2>4. CASE ~deleted
      BY <2>1, <2>2, <2>4 DEF At, Truthful
    <2>. QED BY <2>3, <2>4
  <1>. QED BY <1>2, <1>3

(* Of the counters, only the page's own edits matter.                      *)
LEMMA Spending ==
    ASSUME DOMAIN spent = {"edits", "others", "mishaps"}
    PROVE  /\ Mishap => DOMAIN spent' = {"edits", "others", "mishaps"} /\ spent'.edits = spent.edits
           /\ Spend("others", MaxOthers) =>
                DOMAIN spent' = {"edits", "others", "mishaps"} /\ spent'.edits = spent.edits
           /\ Spend("edits", MaxEdits) =>
                DOMAIN spent' = {"edits", "others", "mishaps"} /\ spent'.edits = spent.edits + 1
  BY DEF Spend, Mishap

(* An edit of the user's goes to the end of the queue, under a number of   *)
(* its own (EditablePlaylist.#edit).                                       *)
LEMMA MakeKeeps ==
    ASSUME PagesInv, NEW ops, Make(ops)
    PROVE  PagesInv'
  <1>. DEFINE q == page.queue
              e == spent.edits + 1
              new == [edit |-> e, ops |-> ops]
  <1>1. DOMAIN spent' = {"edits", "others", "mishaps"} /\ spent'.edits = e
    BY Spending DEF PagesInv, Make
  <1>2. /\ PageOk(page, version) /\ ServerOk(version, applied, answers, spent.edits)
        /\ RequestsOk(requests, spent.edits)
        /\ QueueOk(q, requests, applied, answers, dropped, spent.edits)
        /\ HeadOk(page, requests, applied) /\ AttemptsOk(page, requests)
        /\ StuckOk(requests, dropped, version, deleted, Stock, spent.edits)
        /\ ReloadOk(page, version, applied, swept)
    BY DEF PagesInv, Safe
  <1>3. /\ DOMAIN page' = PageFields /\ page'.queue = Append(q, new)
        /\ page'.version = page.version /\ page'.doing = page.doing
        /\ page'.attempt = page.attempt
    BY <1>1, <1>2 DEF Make, PageOk, PageFields
  <1>4. /\ version' = version /\ applied' = applied /\ answers' = answers /\ swept' = swept
        /\ requests' = requests /\ dropped' = dropped /\ deleted' = deleted /\ Stock' = Stock
    BY DEF Make, server, history, Stock
  <1>5. spent.edits \in Nat /\ applied \in Seq(0 .. spent.edits)
    BY <1>2 DEF ServerOk
  <1>6. IsList(q)
    BY <1>2 DEF PageOk
  <1>7. /\ IsList(Append(q, new)) /\ Append(q, new) # <<>>
        /\ DOMAIN q = 1 .. Len(q) /\ Len(q) \in Nat
        /\ DOMAIN Append(q, new) = 1 .. Len(q) + 1
        /\ \A i \in DOMAIN q : Append(q, new)[i] = q[i]
        /\ Append(q, new)[Len(q) + 1] = new
    BY <1>6, Queued
  <1>8. new.edit = e /\ new.ops = ops
    OBVIOUS
  <1>. HIDE DEF q, new
  <1>. DEFINE p == Append(q, new)
  <1>9. \A i \in DOMAIN p : \/ i \in DOMAIN q /\ p[i] = q[i]
                            \/ i = Len(q) + 1 /\ p[i] = new
    BY <1>7
  <1>. HIDE DEF p
  <1>10. \A i \in DOMAIN applied : applied[i] # e
    BY <1>5
  <1>11. e \notin DOMAIN answers /\ e \notin dropped /\ \A r \in requests : r.edit # e
    BY <1>2, <1>5 DEF ServerOk, StuckOk, RequestsOk
  <1>12. PageOk(page, version)'
    BY <1>2, <1>3, <1>4, <1>7 DEF PageOk
  <1>13. ServerOk(version, applied, answers, spent.edits)'
    <2>1. applied \in Seq(0 .. e)
      BY <1>5
    <2>2. DOMAIN answers \subseteq 1 .. e
      BY <1>2, <1>5 DEF ServerOk
    <2>. QED BY <1>1, <1>2, <1>4, <1>5, <2>1, <2>2 DEF ServerOk
  <1>14. RequestsOk(requests, spent.edits)'
    BY <1>1, <1>2, <1>4, <1>5 DEF RequestsOk
  <1>15. QueueOk(page.queue, requests, applied, answers, dropped, spent.edits)'
    <2>1. \A i \in DOMAIN p : p[i].edit \in 1 .. e /\ p[i].edit \notin dropped
      <3>1. TAKE i \in DOMAIN p
      <3>2. CASE i \in DOMAIN q /\ p[i] = q[i]
        BY <1>2, <1>5, <3>2 DEF QueueOk
      <3>3. CASE i = Len(q) + 1 /\ p[i] = new
        BY <1>5, <1>8, <1>11, <3>3
      <3>. QED BY <1>9, <3>2, <3>3
    <2>2. ASSUME NEW i \in DOMAIN p, NEW j \in DOMAIN p, i < j
          PROVE  p[i].edit < p[j].edit
      <3>1. i \in DOMAIN q /\ p[i] = q[i] /\ q[i].edit \in 1 .. spent.edits
        BY <1>2, <1>7, <1>9, <2>2 DEF QueueOk, p
      <3>2. CASE j \in DOMAIN q /\ p[j] = q[j]
        BY <1>2, <2>2, <3>1, <3>2 DEF QueueOk
      <3>3. CASE j = Len(q) + 1 /\ p[j] = new
        BY <1>5, <1>8, <3>1, <3>3
      <3>. QED BY <1>9, <3>2, <3>3
    <2>3. ASSUME NEW i \in DOMAIN p, i # 1
          PROVE  /\ \A r \in requests : r.edit # p[i].edit
                 /\ ~Holds(applied, p[i].edit)
                 /\ p[i].edit \notin DOMAIN answers
      <3>1. CASE i \in DOMAIN q /\ p[i] = q[i]
        BY <1>2, <2>3, <3>1 DEF QueueOk
      <3>2. CASE i = Len(q) + 1 /\ p[i] = new
        BY <1>8, <1>10, <1>11, <3>2 DEF Holds
      <3>. QED BY <1>9, <3>1, <3>2
    <2>. QED BY <1>1, <1>3, <1>4, <2>1, <2>2, <2>3 DEF QueueOk, p
  <1>16. (1 \in DOMAIN q /\ p[1] = q[1] /\ q # <<>>) \/ p[1].edit = e
    <2>1. 1 \in DOMAIN p
      BY <1>7 DEF p
    <2>. QED BY <1>6, <1>8, <1>9, <2>1
  <1>17. HeadOk(page, requests, applied)'
    BY <1>2, <1>3, <1>4, <1>10, <1>11, <1>16 DEF HeadOk, q, p
  <1>18. page.doing # "idle" => p[1] = q[1]
    BY <1>2, <1>6, <1>7, Answered DEF PageOk, q, p
  <1>19. AttemptsOk(page, requests)'
    <2>1. ASSUME NEW r \in requests
          PROVE  /\ r.attempt <= page'.attempt
                 /\ r.attempt = page'.attempt =>
                        /\ page'.doing # "idle"
                        /\ page'.doing = "asking" => r.edit = p[1].edit
      BY <1>2, <1>3, <1>18 DEF AttemptsOk, q
    <2>. QED BY <1>3, <1>4, <2>1 DEF AttemptsOk, p
  <1>20. ReloadOk(page, version, applied, swept)'
    BY <1>2, <1>3, <1>4, <1>18 DEF ReloadOk, q, p
  <1>21. StuckOk(requests, dropped, version, deleted, Stock, spent.edits)'
    BY <1>1, <1>2, <1>4, <1>5 DEF StuckOk, StuckIn
  <1>22. OnceOk(requests, applied)' /\ ExcusedOk(applied, answers, dropped, swept)'
    BY <1>4 DEF PagesInv, Safe
  <1>. QED BY <1>1, <1>12, <1>13, <1>14, <1>15, <1>17, <1>19, <1>20, <1>21, <1>22
           DEF PagesInv, Safe

(* The first edit is sent, against the version confirmed                   *)
(* (EditablePlaylist.#send).                                               *)
LEMMA SendKeeps ==
    ASSUME PagesInv, Send
    PROVE  PagesInv'
  <1>. DEFINE q == page.queue
              r0 == Request(Head(q).edit, page.attempt, Head(q).ops, page.version)
  <1>1. /\ PageOk(page, version) /\ ServerOk(version, applied, answers, spent.edits)
        /\ RequestsOk(requests, spent.edits)
        /\ QueueOk(q, requests, applied, answers, dropped, spent.edits)
        /\ HeadOk(page, requests, applied) /\ AttemptsOk(page, requests)
        /\ OnceOk(requests, applied)
        /\ StuckOk(requests, dropped, version, deleted, Stock, spent.edits)
    BY DEF PagesInv, Safe
  <1>2. q # <<>> /\ page.doing = "idle"
    BY DEF Send
  <1>3. 1 \in DOMAIN q /\ Head(q) = q[1]
    <2>1. IsList(q)
      BY <1>1 DEF PageOk
    <2>2. Len(q) \in Nat /\ Len(q) >= 1 /\ DOMAIN q = 1 .. Len(q) /\ Head(q) = q[1]
      BY <1>2, <2>1, Answered
    <2>. QED BY <2>2
  <1>4. /\ DOMAIN r0 = RequestFields /\ r0.edit = q[1].edit /\ r0.attempt = page.attempt
        /\ r0.ops = q[1].ops /\ r0.base = page.version
    BY <1>3 DEF Request, RequestFields
  <1>5. requests' = requests \cup {r0}
    BY DEF Send
  <1>6. /\ DOMAIN page' = PageFields /\ page'.queue = q /\ page'.version = page.version
        /\ page'.doing = "asking" /\ page'.attempt = page.attempt
    BY <1>1 DEF Send, PageOk, PageFields
  <1>7. /\ version' = version /\ applied' = applied /\ answers' = answers /\ swept' = swept
        /\ dropped' = dropped /\ deleted' = deleted /\ Stock' = Stock /\ spent' = spent
    BY DEF Send, server, history, Stock
  <1>. HIDE DEF r0, q
  <1>8. q[1].edit \in 1 .. spent.edits /\ q[1].edit \notin dropped
    BY <1>1, <1>3 DEF QueueOk
  <1>9. PageOk(page, version)'
    BY <1>1, <1>2, <1>6, <1>7 DEF PageOk, q
  <1>10. RequestsOk(requests, spent.edits)'
    BY <1>1, <1>4, <1>5, <1>7, <1>8 DEF RequestsOk, PageOk
  <1>11. QueueOk(page.queue, requests, applied, answers, dropped, spent.edits)'
    <2>1. \A i \in DOMAIN q : i # 1 => r0.edit # q[i].edit
      <3>1. IsList(q)
        BY <1>1 DEF PageOk, q
      <3>2. Len(q) \in Nat /\ DOMAIN q = 1 .. Len(q)
        BY <1>2, <3>1, Answered
      <3>3. ASSUME NEW i \in DOMAIN q, i # 1
            PROVE  q[1].edit < q[i].edit /\ q[i].edit \in 1 .. spent.edits
        BY <1>1, <1>3, <3>2, <3>3 DEF QueueOk
      <3>. QED BY <1>4, <1>8, <3>3
    <2>. QED BY <1>1, <1>5, <1>6, <1>7, <2>1 DEF QueueOk
  <1>12. HeadOk(page, requests, applied)'
    BY <1>1, <1>4, <1>5, <1>6, <1>7 DEF HeadOk, q
  <1>13. AttemptsOk(page, requests)'
    BY <1>1, <1>2, <1>4, <1>5, <1>6 DEF AttemptsOk, PageOk, q
  <1>14. OnceOk(requests, applied)'
    BY <1>1, <1>2, <1>4, <1>5, <1>7 DEF OnceOk, HeadOk, q
  <1>15. StuckOk(requests, dropped, version, deleted, Stock, spent.edits)'
    BY <1>1, <1>4, <1>5, <1>7, <1>8 DEF StuckOk
  <1>16. ReloadOk(page, version, applied, swept)'
    BY <1>6 DEF ReloadOk
  <1>17. ServerOk(version, applied, answers, spent.edits)'
         /\ ExcusedOk(applied, answers, dropped, swept)'
    BY <1>7 DEF PagesInv, Safe
  <1>18. DOMAIN spent' = {"edits", "others", "mishaps"}
    BY <1>7 DEF PagesInv
  <1>. QED BY <1>9, <1>10, <1>11, <1>12, <1>13, <1>14, <1>15, <1>16, <1>17, <1>18
           DEF PagesInv, Safe

(* A page that tries again, or goes on reloading, has what it had queued   *)
(* and confirmed (EditablePlaylist.#send, loadPlaylist).                   *)
LEMMA PageGoesOn ==
    ASSUME NEW R, NEW v, NEW ap, NEW an, NEW dr, NEW del, NEW lib, NEW sw, NEW edits,
           Safe(page, R, v, ap, an, dr, del, lib, sw, edits),
           DOMAIN page' = PageFields,
           page'.version = page.version, page'.queue = page.queue,
           \/ page'.doing = "idle" /\ page'.attempt = page.attempt + 1
           \/ /\ page.doing \in {"reloading", "read"} /\ page'.doing \in {"reloading", "read"}
              /\ page'.attempt = page.attempt
    PROVE  Safe(page', R, v, ap, an, dr, del, lib, sw, edits)
  <1>1. /\ PageOk(page, v) /\ RequestsOk(R, edits) /\ AttemptsOk(page, R) /\ HeadOk(page, R, ap)
        /\ ReloadOk(page, v, ap, sw)
    BY DEF Safe
  <1>2. PageOk(page', v)
    BY <1>1 DEF PageOk
  <1>3. AttemptsOk(page', R)
    BY <1>1 DEF AttemptsOk, PageOk, RequestsOk
  <1>4. HeadOk(page', R, ap) /\ ReloadOk(page', v, ap, sw)
    BY <1>1 DEF HeadOk, ReloadOk
  <1>. QED BY <1>2, <1>3, <1>4 DEF Safe

(* The server's state but for its requests is as it was.                   *)
LEMMA ServerStands ==
    ASSUME PagesInv, UNCHANGED <<server, history>>,
           DOMAIN spent' = {"edits", "others", "mishaps"}, spent'.edits = spent.edits,
           Safe(page', requests', version, applied, answers, dropped', deleted, Stock, swept,
                spent.edits)
    PROVE  PagesInv'
  BY DEF PagesInv, server, history, Stock

(* A request with its plan made or dropped is the same request.            *)
LEMMA Replanned ==
    ASSUME PagesInv, NEW r \in requests, NEW s0,
           DOMAIN s0 = RequestFields,
           s0.edit = r.edit, s0.attempt = r.attempt, s0.ops = r.ops, s0.base = r.base,
           requests' = (requests \ {r}) \cup {s0}
    PROVE  Safe(page, requests', version, applied, answers, dropped, deleted, Stock, swept,
                spent.edits)
  <1>1. Safe(page, requests, version, applied, answers, dropped, deleted, Stock, swept,
             spent.edits)
    BY DEF PagesInv
  <1>2. \A s \in requests : DOMAIN s = RequestFields
    BY <1>1 DEF Safe, RequestsOk
  <1>3. Repeats(requests', requests)
    BY <1>2 DEF Repeats
  <1>. QED BY <1>1, <1>3, FewerRequests

(* A handler that ends with a truthful answer (Read, WriteEnds).           *)
LEMMA EndsKeeps ==
    ASSUME PagesInv, NEW r \in requests, NEW answer,
           Truthful(r, answer, requests, version, applied, deleted, Stock, swept),
           Ends(r, answer), UNCHANGED <<server, history, spent>>
    PROVE  PagesInv'
  <1>1. Safe(page, requests, version, applied, answers, dropped, deleted, Stock, swept,
             spent.edits)
    BY DEF PagesInv
  <1>2. PageHears(r, answer) /\ requests' = requests \ {r}
    BY DEF Ends
  <1>3. Safe(page', requests \ {r}, version, applied, answers, dropped', deleted, Stock, swept,
             spent.edits)
    BY <1>1, <1>2, Ending, Zenon
  <1>. QED BY <1>2, <1>3, ServerStands DEF PagesInv

(* A read answers truthfully, or plans the edit and leaves the request     *)
(* what it was (Read).                                                     *)
LEMMA ReadKeeps ==
    ASSUME PagesInv, NEW r \in requests, Read(r)
    PROVE  PagesInv'
  <1>1. ASSUME NEW answer \in AnswersTo(r) \cup {no \in {Refused} : AnswersTo(r) = {} /\ ~MayPlan(r)},
               Ends(r, answer), UNCHANGED <<server, history, spent>>
        PROVE  PagesInv'
    <2>1. CASE answer \in AnswersTo(r)
      BY <1>1, <2>1, AnswersAreTruthful, EndsKeeps
    <2>2. CASE answer \notin AnswersTo(r)
      <3>1. answer = Refused /\ AnswersTo(r) = {} /\ ~MayPlan(r)
        BY <1>1, <2>2
      <3>2. ~Known(r)
        BY <3>1 DEF AnswersTo
      <3>3. swept \/ ~Holds(applied, r.edit)
        <4>1. r.edit # NoEdit
          BY DEF PagesInv, Safe, RequestsOk, ServerOk, NoEdit
        <4>. QED BY <3>2, <4>1 DEF PagesInv, Safe, ExcusedOk, Known, Holds
      <3>4. \A s \in requests : s.edit = r.edit /\ s.ops = r.ops =>
                StuckIn(s, version, deleted, Stock)
        BY <3>1 DEF MayPlan, Fresh, StuckIn, Stock
      <3>5. Truthful(r, answer, requests, version, applied, deleted, Stock, swept)
        BY <3>1, <3>3, <3>4 DEF Truthful
      <3>. QED BY <1>1, <3>5, EndsKeeps
    <2>. QED BY <2>1, <2>2
  <1>2. ASSUME requests' = (requests \ {r}) \cup {[r EXCEPT !.planned = TRUE, !.plan = Plan(r.ops)]},
               UNCHANGED <<page, undo, dropped>>, UNCHANGED <<server, history, spent>>
        PROVE  PagesInv'
    <2>. DEFINE s0 == [r EXCEPT !.planned = TRUE, !.plan = Plan(r.ops)]
    <2>1. DOMAIN r = RequestFields
      BY DEF PagesInv, Safe, RequestsOk
    <2>2. /\ DOMAIN s0 = RequestFields /\ s0.edit = r.edit /\ s0.attempt = r.attempt
          /\ s0.ops = r.ops /\ s0.base = r.base
      BY <2>1 DEF RequestFields
    <2>3. requests' = (requests \ {r}) \cup {s0}
      BY <1>2
    <2>. HIDE DEF s0
    <2>4. Safe(page, requests', version, applied, answers, dropped, deleted, Stock, swept,
               spent.edits)
      BY <2>2, <2>3, Replanned
    <2>. QED BY <1>2, <2>4, ServerStands DEF PagesInv
  <1>. QED BY <1>1, <1>2 DEF Read

(* A write that finds the edit made, or cannot be made, answers            *)
(* truthfully or plans again (WriteEnds).                                  *)
LEMMA WriteEndsKeeps ==
    ASSUME PagesInv, NEW r \in requests, WriteEnds(r)
    PROVE  PagesInv'
  <1>1. ASSUME NEW answer \in AnswersTo(r), Ends(r, answer), UNCHANGED <<server, history, spent>>
        PROVE  PagesInv'
    BY <1>1, AnswersAreTruthful, EndsKeeps
  <1>2. ASSUME requests' = (requests \ {r}) \cup {[r EXCEPT !.planned = FALSE, !.plan = NoPlan]},
               UNCHANGED <<page, undo, dropped>>, UNCHANGED <<server, history, spent>>
        PROVE  PagesInv'
    <2>. DEFINE s0 == [r EXCEPT !.planned = FALSE, !.plan = NoPlan]
    <2>1. DOMAIN r = RequestFields
      BY DEF PagesInv, Safe, RequestsOk
    <2>2. /\ DOMAIN s0 = RequestFields /\ s0.edit = r.edit /\ s0.attempt = r.attempt
          /\ s0.ops = r.ops /\ s0.base = r.base
      BY <2>1 DEF RequestFields
    <2>3. requests' = (requests \ {r}) \cup {s0}
      BY <1>2
    <2>. HIDE DEF s0
    <2>4. Safe(page, requests', version, applied, answers, dropped, deleted, Stock, swept,
               spent.edits)
      BY <2>2, <2>3, Replanned
    <2>. QED BY <1>2, <2>4, ServerStands DEF PagesInv
  <1>. QED BY <1>1, <1>2 DEF WriteEnds

(* The edit is applied and answered in one transaction, and the page, if   *)
(* it still waits, confirms it (write).                                    *)
LEMMA WriteKeeps ==
    ASSUME PagesInv, PlannedInv, NEW r \in requests, Write(r)
    PROVE  PagesInv'
  <1>. DEFINE an2 == [e \in DOMAIN answers \cup {r.edit} |->
                        IF e = r.edit THEN version + 1 ELSE answers[e]]
              ap2 == Append(applied, r.edit)
  <1>1. Safe(page, requests, version, applied, answers, dropped, deleted, Stock, swept,
             spent.edits)
    BY DEF PagesInv
  <1>2. /\ r.edit \notin DOMAIN answers /\ ~deleted /\ version = r.base
        /\ Adds(r.ops) \cap Addable \subseteq Stock[1] /\ AllInRange(Stock[2], r.ops)
    BY DEF Write, Known, MayWrite, Fresh, PlannedInv, Stock
  <1>3. Safe(page, requests, version + 1, ap2, an2, dropped, deleted, Stock', swept, spent.edits)
    BY <1>1, <1>2, Applying, Zenon DEF PlannedInv
  <1>4. /\ version' = version + 1 /\ applied' = ap2 /\ answers' = an2
        /\ deleted' = deleted /\ swept' = swept /\ spent' = spent
        /\ requests' = requests \ {r} /\ PageHears(r, Ok(version + 1))
    BY DEF Write, ApplyEdit, Ends
  <1>5. version \in Nat
    BY <1>1 DEF Safe, ServerOk
  <1>. HIDE DEF an2, ap2
  <1>6. Truthful(r, Ok(version + 1), requests, version + 1, ap2, deleted, Stock', swept)
    BY <1>5 DEF Truthful
  <1>7. Safe(page', requests \ {r}, version + 1, ap2, an2, dropped', deleted, Stock', swept,
             spent.edits)
    BY <1>3, <1>4, <1>6, Ending, Zenon
  <1>. QED BY <1>4, <1>7 DEF PagesInv

(* The page hears nothing, or that it failed, and will try again           *)
(* (EditablePlaylist.#send).                                               *)
LEMMA TriesAgain ==
    ASSUME PagesInv, UNCHANGED <<server, history, dropped>>,
           requests' \subseteq requests,
           Mishap,
           page' = [page EXCEPT !.doing = "idle", !.attempt = @ + 1] \/ page' = page
    PROVE  PagesInv'
  <1>1. Safe(page, requests, version, applied, answers, dropped, deleted, Stock, swept,
             spent.edits)
    BY DEF PagesInv
  <1>2. DOMAIN page = PageFields /\ \A s \in requests : DOMAIN s = RequestFields
    BY <1>1 DEF Safe, PageOk, RequestsOk
  <1>3. Safe(page', requests, version, applied, answers, dropped, deleted, Stock, swept,
             spent.edits)
    <2>1. CASE page' = page
      BY <1>1, <2>1
    <2>2. CASE page' = [page EXCEPT !.doing = "idle", !.attempt = @ + 1]
      <3>1. /\ DOMAIN page' = PageFields /\ page'.version = page.version
            /\ page'.queue = page.queue /\ page'.doing = "idle"
            /\ page'.attempt = page.attempt + 1
        BY <1>2, <2>2 DEF PageFields
      <3>. QED BY <1>1, <3>1, PageGoesOn
    <2>. QED BY <2>1, <2>2
  <1>4. Safe(page', requests', version, applied, answers, dropped, deleted, Stock, swept,
             spent.edits)
    BY <1>3 DEF Safe, RequestsOk, QueueOk, HeadOk, AttemptsOk, OnceOk, StuckOk
  <1>5. DOMAIN spent' = {"edits", "others", "mishaps"} /\ spent'.edits = spent.edits
    BY Spending DEF PagesInv
  <1>6. dropped' = dropped
    OBVIOUS
  <1>. QED BY <1>4, <1>5, <1>6, ServerStands

(* A page that reloads has been overtaken, so all it drops is past         *)
(* applying (loadPlaylist, EditablePlaylist.#reload).                      *)
LEMMA ReloadForgets ==
    ASSUME PagesInv, NEW at, at.version \in Nat, 1 <= at.version, at.version <= version,
           page.doing \in {"reloading", "read"}, Forgets(at),
           UNCHANGED <<server, requests, history>>,
           DOMAIN spent' = {"edits", "others", "mishaps"}, spent'.edits = spent.edits
    PROVE  PagesInv'
  <1>1. Safe(page, requests, version, applied, answers, dropped, deleted, Stock, swept,
             spent.edits)
    BY DEF PagesInv
  <1>2. /\ page.queue # <<>> /\ page.version < version
        /\ swept \/ ~Holds(applied, page.queue[1].edit)
        /\ \A s \in requests : s.edit = page.queue[1].edit => s.base = page.version
    BY <1>1 DEF Safe, PageOk, ReloadOk, HeadOk
  <1>3. \A s \in requests : s.edit = page.queue[1].edit => StuckIn(s, version, deleted, Stock)
    BY <1>2 DEF StuckIn
  <1>4. Safe(page', requests, version, applied, answers, dropped', deleted, Stock, swept,
             spent.edits)
    BY <1>1, <1>2, <1>3, Forgetting, Zenon
  <1>5. requests' = requests
    OBVIOUS
  <1>. QED BY <1>4, <1>5, ServerStands

(* A page that reloads, and goes on (loadPlaylist).                        *)
LEMMA ReloadGoesOn ==
    ASSUME PagesInv, page.doing \in {"reloading", "read"}, page'.doing \in {"reloading", "read"},
           DOMAIN page' = PageFields, page'.version = page.version, page'.queue = page.queue,
           page'.attempt = page.attempt,
           UNCHANGED <<server, requests, history, dropped, spent>>
    PROVE  PagesInv'
  <1>1. Safe(page, requests, version, applied, answers, dropped, deleted, Stock, swept,
             spent.edits)
    BY DEF PagesInv
  <1>2. Safe(page', requests, version, applied, answers, dropped, deleted, Stock, swept,
             spent.edits)
    BY <1>1, PageGoesOn
  <1>3. requests' = requests /\ dropped' = dropped /\ spent' = spent
    OBVIOUS
  <1>. QED BY <1>2, <1>3, ServerStands DEF PagesInv

(* A load that starts again, or is given up after the last try             *)
(* (loadPlaylist).                                                         *)
LEMMA AgainKeeps ==
    ASSUME PagesInv, page.doing = "reloading", Again,
           UNCHANGED <<server, requests, history, spent>>
    PROVE  PagesInv'
  <1>1. DOMAIN page = PageFields /\ page.version \in Nat /\ 1 <= page.version
        /\ page.version <= version
    BY DEF PagesInv, Safe, PageOk
  <1>2. CASE Forgets(page)
    BY <1>1, <1>2, ReloadForgets DEF PagesInv
  <1>3. CASE /\ page' = [page EXCEPT !.tries = @ + 1, !.read = <<>>, !.after = {}, !.at = 0]
             /\ UNCHANGED <<undo, dropped>>
    <2>1. /\ DOMAIN page' = PageFields /\ page'.version = page.version
          /\ page'.queue = page.queue /\ page'.attempt = page.attempt
          /\ page'.doing = page.doing
      BY <1>1, <1>3 DEF PageFields
    <2>. QED BY <1>3, <2>1, ReloadGoesOn
  <1>. QED BY <1>2, <1>3 DEF Again

(* A load, whatever it reads (loadPlaylist).                               *)
LEMMA ReloadKeeps ==
    ASSUME PagesInv, ReadItems \/ ReadHeader \/ LoadFails
    PROVE  PagesInv'
  <1>1. /\ DOMAIN page = PageFields /\ page.version \in Nat /\ 1 <= page.version
        /\ page.version <= version /\ version \in Nat
        /\ DOMAIN spent = {"edits", "others", "mishaps"}
    BY DEF PagesInv, Safe, PageOk, ServerOk
  <1>2. CASE ReadItems
    <2>1. page.doing = "reloading" /\ UNCHANGED <<server, requests, history, spent>>
      BY <1>2 DEF ReadItems
    <2>2. CASE Again
      BY <2>1, <2>2, AgainKeeps
    <2>3. CASE ~Again
      <3>1. UNCHANGED <<undo, dropped>>
        BY <1>2, <2>3 DEF ReadItems
      <3>2. /\ DOMAIN page' = PageFields /\ page'.version = page.version
            /\ page'.queue = page.queue /\ page'.attempt = page.attempt
            /\ page'.doing \in {"reloading", "read"}
        BY <1>1, <1>2, <2>1, <2>3 DEF ReadItems, PageFields
      <3>. QED BY <2>1, <3>1, <3>2, ReloadGoesOn
    <2>. QED BY <2>2, <2>3
  <1>3. CASE ReadHeader
    <2>1. page.doing = "read" /\ UNCHANGED <<server, requests, history, spent>>
      BY <1>3 DEF ReadHeader
    <2>2. CASE Forgets([version |-> version, items |-> page.read])
      <3>1. [version |-> version, items |-> page.read].version = version /\ 1 <= version
        BY <1>1
      <3>. QED BY <1>1, <2>1, <2>2, <3>1, ReloadForgets
    <2>3. CASE Forgets(page)
      BY <1>1, <2>1, <2>3, ReloadForgets
    <2>4. CASE /\ page' = [page EXCEPT !.tries = @ + 1, !.read = <<>>, !.after = {}, !.at = 0,
                               !.doing = "reloading"]
               /\ UNCHANGED <<undo, dropped>>
      <3>1. /\ DOMAIN page' = PageFields /\ page'.version = page.version
            /\ page'.queue = page.queue /\ page'.attempt = page.attempt
            /\ page'.doing = "reloading"
        BY <1>1, <2>4 DEF PageFields
      <3>. QED BY <2>1, <2>4, <3>1, ReloadGoesOn
    <2>. QED BY <1>3, <2>2, <2>3, <2>4 DEF ReadHeader
  <1>4. CASE LoadFails
    <2>1. DOMAIN spent' = {"edits", "others", "mishaps"} /\ spent'.edits = spent.edits
      BY <1>1, <1>4, Spending DEF LoadFails
    <2>2. /\ page.doing \in {"reloading", "read"} /\ Forgets(page)
          /\ UNCHANGED <<server, requests, history>>
      BY <1>4 DEF LoadFails
    <2>. QED BY <1>1, <2>1, <2>2, ReloadForgets
  <1>. QED BY <1>2, <1>3, <1>4

(* What others do to the playlist, and time to its answers.                *)
LEMMA OthersKeep ==
    ASSUME PagesInv, PlannedInv, OtherEdit \/ Purge \/ Sweep \/ Delete
    PROVE  PagesInv'
  <1>1. Safe(page, requests, version, applied, answers, dropped, deleted, Stock, swept,
             spent.edits)
    BY DEF PagesInv
  <1>2. CASE OtherEdit
    <2>1. Safe(page, requests, version + 1, Append(applied, NoEdit), answers, dropped, deleted,
               Stock', swept, spent.edits)
      BY <1>1, Applying, Zenon DEF PlannedInv
    <2>2. DOMAIN spent' = {"edits", "others", "mishaps"} /\ spent'.edits = spent.edits
      BY <1>2, Spending DEF PagesInv, OtherEdit
    <2>3. /\ version' = version + 1 /\ applied' = Append(applied, NoEdit)
          /\ page' = page /\ requests' = requests /\ answers' = answers /\ dropped' = dropped
          /\ deleted' = deleted /\ swept' = swept
      BY <1>2 DEF OtherEdit, ApplyEdit
    <2>. QED BY <2>1, <2>2, <2>3 DEF PagesInv
  <1>3. CASE Purge \/ Sweep \/ Delete
    <2>1. DOMAIN spent' = {"edits", "others", "mishaps"} /\ spent'.edits = spent.edits
      BY <1>3, Spending DEF PagesInv, Purge, Sweep, Delete
    <2>2. /\ page' = page /\ requests' = requests /\ dropped' = dropped
          /\ version' = version /\ applied' = applied
          /\ deleted => deleted'
          /\ deleted' \/ (Stock'[1] \subseteq Stock[1] /\ Stock'[2] = Stock[2])
          /\ \/ answers' = answers /\ swept' = swept
             \/ answers' = <<>> /\ swept' = TRUE
      BY <1>3 DEF Purge, Sweep, Delete, history, Stock
    <2>3. ServerOk(version', applied', answers', spent'.edits)
      BY <1>1, <2>1, <2>2 DEF Safe, ServerOk
    <2>4. DOMAIN answers' \subseteq DOMAIN answers
      BY <2>2
    <2>5. QueueOk(page'.queue, requests', applied', answers', dropped', spent'.edits)
      BY <1>1, <2>1, <2>2, <2>4 DEF Safe, QueueOk
    <2>6. StuckOk(requests', dropped', version', deleted', Stock', spent'.edits)
      BY <1>1, <2>1, <2>2 DEF Safe, StuckOk, StuckIn
    <2>7. ExcusedOk(applied', answers', dropped', swept') /\ ReloadOk(page', version', applied', swept')
      BY <1>1, <2>2 DEF Safe, ExcusedOk, ReloadOk
    <2>8. /\ PageOk(page', version') /\ RequestsOk(requests', spent'.edits)
          /\ HeadOk(page', requests', applied') /\ AttemptsOk(page', requests')
          /\ OnceOk(requests', applied')
      BY <1>1, <2>1, <2>2 DEF Safe
    <2>. QED BY <2>1, <2>3, <2>5, <2>6, <2>7, <2>8 DEF PagesInv, Safe
  <1>. QED BY <1>2, <1>3

(* Every step of the page, the server and others keeps the invariant.      *)
LEMMA SafeNext == PagesInv /\ PlannedInv /\ [PlaylistNext]_playlistVars => PagesInv'
  <1>. SUFFICES ASSUME PagesInv, PlannedInv, [PlaylistNext]_playlistVars PROVE PagesInv'
    OBVIOUS
  <1>1. CASE UserEdit \/ UserUndo
    BY <1>1, MakeKeeps DEF UserEdit, UserUndo
  <1>2. CASE Send
    BY <1>2, SendKeeps
  <1>3. CASE GiveUp
    BY <1>3, TriesAgain DEF GiveUp
  <1>4. ASSUME NEW r \in requests, Read(r)
        PROVE  PagesInv'
    BY <1>4, ReadKeeps
  <1>5. ASSUME NEW r \in requests, Write(r)
        PROVE  PagesInv'
    BY <1>5, WriteKeeps
  <1>6. ASSUME NEW r \in requests, WriteEnds(r)
        PROVE  PagesInv'
    BY <1>6, WriteEndsKeeps
  <1>7. ASSUME NEW r \in requests, HandlerFails(r)
        PROVE  PagesInv'
    BY <1>7, TriesAgain DEF HandlerFails
  <1>8. CASE ReadItems \/ ReadHeader \/ LoadFails
    BY <1>8, ReloadKeeps
  <1>9. CASE OtherEdit \/ Purge \/ Sweep \/ Delete
    BY <1>9, OthersKeep
  <1>10. CASE UNCHANGED playlistVars
    BY <1>10 DEF playlistVars, server, history, PagesInv, Stock
  <1>. QED BY <1>1, <1>2, <1>3, <1>4, <1>5, <1>6, <1>7, <1>8, <1>9, <1>10 DEF PlaylistNext

(* A request stays as it was, or has its plan made of the list there is;   *)
(* a new version is one that none of them names (Read, write).             *)
LEMMA PlannedNext == PagesInv /\ PlannedInv /\ [PlaylistNext]_playlistVars => PlannedInv'
  <1>. SUFFICES ASSUME PagesInv, PlannedInv, [PlaylistNext]_playlistVars PROVE PlannedInv'
    OBVIOUS
  <1>1. /\ version \in Nat /\ page.version \in Nat /\ page.version <= version
        /\ \A r \in requests : DOMAIN r = RequestFields /\ r.base \in Nat
    BY DEF PagesInv, Safe, PageOk, ServerOk, RequestsOk
  <1>2. CASE requests' \subseteq requests /\ version' = version /\ (deleted' \/ UNCHANGED <<deleted, rows>>)
    BY <1>2 DEF PlannedInv
  <1>3. CASE requests' \subseteq requests /\ version' = version + 1
    <2>1. ASSUME NEW r \in requests'
          PROVE  r.base <= version' /\ r.base # version'
      <3>1. r.base <= version /\ r.base \in Nat
        BY <1>1, <1>3 DEF PlannedInv
      <3>. QED BY <1>1, <1>3, <3>1
    <2>. QED BY <2>1 DEF PlannedInv
  <1>4. CASE Send
    <2>. DEFINE r0 == Request(Head(page.queue).edit, page.attempt, Head(page.queue).ops, page.version)
    <2>1. r0.base = page.version /\ ~r0.planned
      BY DEF Request
    <2>2. requests' = requests \cup {r0} /\ UNCHANGED server
      BY <1>4 DEF Send
    <2>. HIDE DEF r0
    <2>. QED BY <1>1, <2>1, <2>2 DEF PlannedInv, server
  <1>5. ASSUME NEW r \in requests, Read(r)
        PROVE  PlannedInv'
    <2>1. UNCHANGED server
      BY <1>5 DEF Read
    <2>2. CASE requests' = requests \ {r}
      BY <1>2, <2>1, <2>2 DEF server
    <2>3. CASE /\ MayPlan(r)
               /\ requests' = (requests \ {r})
                                \cup {[r EXCEPT !.planned = TRUE, !.plan = Plan(r.ops)]}
      <3>. DEFINE s0 == [r EXCEPT !.planned = TRUE, !.plan = Plan(r.ops)]
      <3>1. s0.base = r.base /\ s0.ops = r.ops
        BY <1>1 DEF RequestFields
      <3>2. requests' = (requests \ {r}) \cup {s0} /\ AllInRange(Listed(rows), r.ops)
        BY <2>3 DEF MayPlan
      <3>. HIDE DEF s0
      <3>. QED BY <2>1, <3>1, <3>2 DEF PlannedInv, server
    <2>. QED BY <1>5, <2>2, <2>3 DEF Read, Ends
  <1>6. ASSUME NEW r \in requests, WriteEnds(r)
        PROVE  PlannedInv'
    <2>1. UNCHANGED server
      BY <1>6 DEF WriteEnds
    <2>2. CASE requests' = requests \ {r}
      BY <1>2, <2>1, <2>2 DEF server
    <2>3. CASE requests' = (requests \ {r}) \cup {[r EXCEPT !.planned = FALSE, !.plan = NoPlan]}
      <3>. DEFINE s0 == [r EXCEPT !.planned = FALSE, !.plan = NoPlan]
      <3>1. s0.base = r.base /\ ~s0.planned
        BY <1>1 DEF RequestFields
      <3>2. requests' = (requests \ {r}) \cup {s0}
        BY <2>3
      <3>. HIDE DEF s0
      <3>. QED BY <2>1, <3>1, <3>2 DEF PlannedInv, server
    <2>. QED BY <1>6, <2>2, <2>3 DEF WriteEnds, Ends
  <1>7. ASSUME NEW r \in requests, Write(r)
        PROVE  PlannedInv'
    BY <1>3, <1>7 DEF Write, ApplyEdit, Ends
  <1>8. CASE UserEdit \/ UserUndo \/ ReadItems \/ ReadHeader \/ LoadFails \/ UNCHANGED playlistVars
    BY <1>2, <1>8 DEF UserEdit, UserUndo, Make, ReadItems, ReadHeader, LoadFails, playlistVars, server
  <1>9. CASE GiveUp \/ \E r \in requests : HandlerFails(r)
    BY <1>2, <1>9 DEF GiveUp, HandlerFails, server
  <1>10. CASE OtherEdit
    BY <1>3, <1>10 DEF OtherEdit, ApplyEdit
  <1>11. CASE Purge \/ Sweep \/ Delete
    BY <1>2, <1>11 DEF Purge, Sweep, Delete
  <1>. QED BY <1>4, <1>5, <1>6, <1>7, <1>8, <1>9, <1>10, <1>11 DEF PlaylistNext

(* The invariant of a page's edits: all of an edit's requests name the     *)
(* version it was made on, so that one of them at most is written, and     *)
(* what the page drops no request can write any more (#send, write).       *)
THEOREM PagesInvariant == PlaylistSpec => [](PagesInv /\ PlannedInv)
  <1>1. PlaylistInit => PagesInv /\ PlannedInv
    BY SafeInit DEF PlaylistInit, PlannedInv
  <1>2. PagesInv /\ PlannedInv /\ [PlaylistNext]_playlistVars => (PagesInv /\ PlannedInv)'
    BY SafeNext, PlannedNext
  <1>. QED BY <1>1, <1>2, PTL DEF PlaylistSpec

(* However often an edit is sent, given up, lost, overtaken or answered    *)
(* late, it is applied once, and what the page says was not applied was    *)
(* not and never will be, but for a retry a day late (Idempotency-Key,     *)
(* CONFLICT_MESSAGE).                                                      *)
THEOREM EditsAreAppliedOnce == PlaylistSpec => []DroppedIsNotApplied
  <1>1. PagesInv => DroppedIsNotApplied
    <2>. SUFFICES ASSUME PagesInv PROVE DroppedIsNotApplied
      OBVIOUS
    <2>1. /\ OnceOk(requests, applied) /\ ExcusedOk(applied, answers, dropped, swept)
          /\ StuckOk(requests, dropped, version, deleted, Stock, spent.edits)
          /\ spent.edits \in Nat
      BY DEF PagesInv, Safe, ServerOk
    <2>2. NoEdit \notin dropped
      BY <2>1 DEF StuckOk, NoEdit
    <2>. QED BY <2>1, <2>2 DEF DroppedIsNotApplied, OnceOk, ExcusedOk
  <1>. QED BY <1>1, PagesInvariant, PTL

-----------------------------------------------------------------------------
(***************************************************************************)
(* A finite set of integers in ascending order.                            *)
(***************************************************************************)
\* How many of S are no greater than p.
Rank(S, p) == Cardinality({q \in S : q <= p})

(* A greater element has a greater rank. *)
LEMMA RanksAscend ==
    ASSUME NEW S \in SUBSET Int, IsFiniteSet(S)
    PROVE  /\ \A p \in S : Rank(S, p) \in 1 .. Cardinality(S)
           /\ \A p, q \in S : p < q <=> Rank(S, p) < Rank(S, q)
  <1>1. ASSUME NEW p \in S
        PROVE  /\ IsFiniteSet({q \in S : q <= p}) /\ Rank(S, p) \in Nat
               /\ Rank(S, p) \in 1 .. Cardinality(S)
    <2>. DEFINE T == {q \in S : q <= p}
    <2>1. IsFiniteSet(T) /\ Cardinality(T) <= Cardinality(S)
      BY FS_Subset
    <2>2. Cardinality(T) \in Nat /\ Cardinality(S) \in Nat
      BY <2>1, FS_CardinalityType
    <2>3. T # {}
      OBVIOUS
    <2>4. Cardinality(T) # 0
      BY <2>1, <2>3, FS_EmptySet
    <2>. QED BY <2>1, <2>2, <2>4 DEF Rank
  <1>2. ASSUME NEW p \in S, NEW q \in S, p < q
        PROVE  Rank(S, p) < Rank(S, q)
    <2>. DEFINE T == {k \in S : k <= p}
                U == {k \in S : k <= q}
    <2>1. IsFiniteSet(U) /\ Cardinality(U) \in Nat /\ Cardinality(T) \in Nat
      BY <1>1 DEF Rank
    <2>2. T \subseteq U /\ q \in U /\ q \notin T
      <3>1. p \in Int /\ q \in Int /\ \A k \in S : k \in Int
        OBVIOUS
      <3>2. q <= q /\ ~(q <= p) /\ \A k \in S : k <= p => k <= q
        BY <1>2, <3>1
      <3>. QED BY <3>2
    <2>3. Cardinality(T) <= Cardinality(U) /\ (Cardinality(U) = Cardinality(T) => U = T)
      BY <2>1, <2>2, FS_Subset
    <2>. QED BY <2>1, <2>2, <2>3 DEF Rank
  <1>3. ASSUME NEW p \in S, NEW q \in S, Rank(S, p) < Rank(S, q)
        PROVE  p < q
    <2>1. Rank(S, p) \in Nat /\ Rank(S, q) \in Nat
      BY <1>1
    <2>2. p # q /\ ~(q < p)
      BY <1>2, <1>3, <2>1
    <2>. QED BY <2>2
  <1>. QED BY <1>1, <1>2, <1>3

(* Ascending has every element at its rank (PlaylistOps.Ascending). *)
LEMMA AscendingIsByRank ==
    ASSUME NEW S \in SUBSET Int, IsFiniteSet(S)
    PROVE  /\ Cardinality(S) \in Nat /\ Ascending(S) \in [1 .. Cardinality(S) -> S]
           /\ \A i \in 1 .. Cardinality(S) : Rank(S, Ascending(S)[i]) = i
           /\ \A p \in S : Ascending(S)[Rank(S, p)] = p
  <1>. DEFINE n == Cardinality(S)
              rank == [p \in S |-> Rank(S, p)]
  <1>1. n \in Nat
    BY FS_CardinalityType
  <1>2. \A p, q \in S : Rank(S, p) = Rank(S, q) => p = q
    <2>1. \A p \in S : Rank(S, p) \in Nat
      BY <1>1, RanksAscend
    <2>2. \A p, q \in S : p < q => Rank(S, p) < Rank(S, q)
      BY RanksAscend
    <2>3. \A p, q \in S : p = q \/ p < q \/ q < p
      OBVIOUS
    <2>. QED BY <2>1, <2>2, <2>3
  <1>3. rank \in [S -> 1 .. n]
    BY RanksAscend
  <1>4. IsFiniteSet(1 .. n) /\ Cardinality(1 .. n) = n
    BY <1>1, FS_Interval
  <1>5. ASSUME NEW i \in 1 .. n, \A p \in S : rank[p] # i
        PROVE  FALSE
    <2>. DEFINE T == (1 .. n) \ {i}
    <2>1. rank \in [S -> T]
      BY <1>3, <1>5
    <2>2. IsFiniteSet(T) /\ Cardinality(T) = n - 1
      BY <1>4, FS_RemoveElement
    <2>3. Cardinality(T) < Cardinality(S)
      BY <1>1, <2>2
    <2>4. \A p, q \in S : rank[p] = rank[q] => p = q
      BY <1>2
    <2>. HIDE DEF rank, T
    <2>5. \E p, q \in S : p # q /\ rank[p] = rank[q]
      BY <2>1, <2>2, <2>3, FS_PigeonHole, Zenon
    <2>. QED BY <2>4, <2>5
  <1>6. \A i \in 1 .. n : \E p \in S : Rank(S, p) = i
    BY <1>5
  <1>7. \A i \in 1 .. n : Ascending(S)[i] \in S /\ Rank(S, Ascending(S)[i]) = i
    BY <1>6 DEF Ascending, Rank
  <1>8. Ascending(S) \in [1 .. n -> S]
    BY <1>7 DEF Ascending
  <1>9. \A p \in S : Ascending(S)[Rank(S, p)] = p
    BY <1>2, <1>7, RanksAscend
  <1>. QED BY <1>1, <1>7, <1>8, <1>9

(* What is after the m-th goes on from it (listItems' cursor). *)
LEMMA AscendingGoesOn ==
    ASSUME NEW S \in SUBSET Int, IsFiniteSet(S), NEW m \in 1 .. Cardinality(S)
    PROVE  LET T == {k \in S : k > Ascending(S)[m]}
           IN  /\ IsFiniteSet(T) /\ T \in SUBSET Int
               /\ Cardinality(S) \in Nat /\ Cardinality(T) = Cardinality(S) - m
               /\ \A i \in 1 .. Cardinality(T) : Ascending(T)[i] = Ascending(S)[m + i]
  <1>. DEFINE last == Ascending(S)[m]
              T == {k \in S : k > last}
              U == {k \in S : k <= last}
  <1>1. /\ Cardinality(S) \in Nat /\ last \in S /\ Rank(S, last) = m
    BY AscendingIsByRank
  <1>2. Cardinality(U) = m
    BY <1>1 DEF Rank
  <1>3. IsFiniteSet(T) /\ IsFiniteSet(U)
    BY FS_Subset
  <1>4. T \in SUBSET Int
    OBVIOUS
  <1>5. S \ U = T /\ S \cap U = U
    <2>1. last \in Int /\ \A k \in S : k \in Int
      BY <1>1
    <2>. HIDE DEF last
    <2>2. \A k \in S : k > last <=> ~(k <= last)
      BY <2>1
    <2>. QED BY <2>2
  <1>6. Cardinality(T) = Cardinality(S) - m
    <2>. HIDE DEF T, U
    <2>. QED BY <1>2, <1>5, FS_Difference
  <1>7. ASSUME NEW p \in T
        PROVE  Rank(S, p) = Rank(T, p) + m
    <2>. DEFINE A == {q \in S : q <= p}
                B == {q \in T : q <= p}
    <2>1. A \ U = B /\ A \cap U = U
      <3>1. last \in Int /\ p \in Int /\ last < p /\ \A k \in S : k \in Int
        BY <1>1
      <3>. HIDE DEF last
      <3>2. \A k \in S : (k > last <=> ~(k <= last)) /\ (k <= last => k <= p)
        BY <3>1
      <3>. QED BY <3>2
    <2>2. IsFiniteSet(A) /\ IsFiniteSet(B)
      BY <1>3, FS_Subset
    <2>3. Cardinality(B) = Cardinality(A) - m
      <3>. HIDE DEF A, B, U
      <3>. QED BY <1>2, <2>1, <2>2, FS_Difference
    <2>4. Cardinality(A) \in Nat /\ Cardinality(B) \in Nat
      BY <2>2, FS_CardinalityType
    <2>. QED BY <2>3, <2>4 DEF Rank
  <1>8. ASSUME NEW i \in 1 .. Cardinality(T)
        PROVE  Ascending(T)[i] = Ascending(S)[m + i]
    <2>. DEFINE p == Ascending(T)[i]
    <2>1. p \in T /\ Rank(T, p) = i
      <3>. HIDE DEF T
      <3>. QED BY <1>3, <1>4, AscendingIsByRank
    <2>2. Rank(S, p) = m + i
      <3>1. i \in Int /\ m \in Int
        BY <1>1, <1>6
      <3>2. Rank(S, p) = Rank(T, p) + m
        BY <1>7, <2>1
      <3>. QED BY <2>1, <3>1, <3>2
    <2>3. Ascending(S)[Rank(S, p)] = p
      BY <2>1, AscendingIsByRank
    <2>. QED BY <2>2, <2>3
  <1>. QED BY <1>1, <1>3, <1>4, <1>6, <1>8

-----------------------------------------------------------------------------
(***************************************************************************)
(* What the page has as confirmed: ls is the history of the list.          *)
(***************************************************************************)
\* The edit e, of ops made of version base, has made the next version if it is answered.
Made(an, ls, e, base, ops) ==
    e \in DOMAIN an => an[e] = base + 1 /\ ls[base + 1] = ApplyOps(ls[base], ops)

ConfirmOk(pg, R, ls, v, an) ==
    /\ IsList(ls) /\ Len(ls) = v
    /\ pg.items = ls[pg.version]
    /\ \A r \in R : 1 <= r.base /\ r.base <= v /\ Made(an, ls, r.edit, r.base, r.ops)
    /\ pg.queue # <<>> => Made(an, ls, pg.queue[1].edit, pg.version, pg.queue[1].ops)

\* A page has read the rows up to the m-th of version at.
HasRead(pg, rw, m) ==
    LET keys == Ascending(DOMAIN rw)
    IN  /\ m \in 1 .. Cardinality(DOMAIN rw)
        /\ pg.read = [i \in 1 .. m |-> rw[keys[i]]]
        /\ pg.after = {keys[m]}

\* While the version is the one it read, what a page has read is what there is.
ReadOk(pg, v, rw, del) ==
    /\ pg.at \in Nat /\ pg.at <= v
    /\ pg.doing \in {"idle", "asking"} => pg.at = 0
    /\ pg.at = 0 => pg.read = <<>> /\ pg.after = {}
    /\ pg.at = v /\ ~del =>
        /\ pg.doing = "reloading" => \E m \in Nat : HasRead(pg, rw, m)
        /\ pg.doing = "read" => pg.read = Listed(rw)

ConfirmedInv ==
    ConfirmOk(page, requests, lists, version, answers) /\ ReadOk(page, version, rows, deleted)

(* The list that is loaded, or was confirmed last, is what the page shows  *)
(* (EditablePlaylist.#reset). *)
LEMMA ForgetsConfirmed ==
    ASSUME NEW R, NEW ls, NEW v, NEW an, NEW rw, NEW del, NEW at,
           PageOk(page, v), v \in Nat, ConfirmOk(page, R, ls, v, an),
           at.version \in Nat, 1 <= at.version, at.version <= v, at.items = ls[at.version],
           Forgets(at)
    PROVE  ConfirmOk(page', R, ls, v, an) /\ ReadOk(page', v, rw, del)
  <1>1. page' = Reset(at)
    BY DEF Forgets
  <1>2. /\ page'.version = at.version /\ page'.queue = <<>> /\ page'.doing = "idle"
        /\ page'.items = at.items /\ page'.at = 0 /\ page'.read = <<>> /\ page'.after = {}
    BY <1>1 DEF Reset, PageOk, PageFields
  <1>3. ConfirmOk(page', R, ls, v, an)
    BY <1>2 DEF ConfirmOk
  <1>4. ReadOk(page', v, rw, del)
    BY <1>2 DEF ReadOk
  <1>. QED BY <1>3, <1>4

(* An answer says which version the edit made, and the page makes of its   *)
(* list what the server made (EditablePlaylist.#send). *)
LEMMA HearsConfirmed ==
    ASSUME NEW R, NEW ls, NEW v, NEW ap, NEW an, NEW del, NEW lib, NEW sw, NEW edits, NEW rw,
           NEW r \in R, NEW answer,
           Safe(page, R, v, ap, an, dropped, del, lib, sw, edits),
           ConfirmOk(page, R, ls, v, an), ReadOk(page, v, rw, del),
           \/ answer \in {Conflict, Refused}
           \/ r.edit \in DOMAIN an /\ answer = Ok(an[r.edit]),
           PageHears(r, answer)
    PROVE  ConfirmOk(page', R, ls, v, an) /\ ReadOk(page', v, rw, del)
  <1>1. PageOk(page, v) /\ ServerOk(v, ap, an, edits)
        /\ QueueOk(page.queue, R, ap, an, dropped, edits)
    BY DEF Safe
  <1>2. CASE ~Waits(r)
    <2>1. page' = page
      BY <1>2 DEF PageHears, Waits
    <2>. QED BY <2>1
  <1>3. CASE Waits(r)
    <2>. DEFINE q == page.queue
    <2>1. q # <<>> /\ r.edit = q[1].edit /\ r.ops = q[1].ops /\ r.base = page.version
      BY <1>3, WaitsForItsFirst
    <2>2. page.at = 0 /\ page.read = <<>> /\ page.after = {} /\ page.doing = "asking"
      BY <1>3 DEF ReadOk, Waits
    <2>3. CASE answer = Conflict
      <3>1. ~answer.ok /\ answer.conflict
        BY <2>3 DEF Conflict
      <3>2. page' = [page EXCEPT !.doing = "reloading"]
        BY <1>3, <3>1 DEF PageHears, Waits
      <3>3. /\ page'.version = page.version /\ page'.queue = page.queue
            /\ page'.items = page.items /\ page'.at = 0 /\ page'.read = <<>>
            /\ page'.after = {} /\ page'.doing = "reloading"
        BY <1>1, <2>2, <3>2 DEF PageOk, PageFields
      <3>4. ConfirmOk(page', R, ls, v, an)
        BY <3>3 DEF ConfirmOk
      <3>5. ReadOk(page', v, rw, del)
        BY <1>1, <3>3 DEF ReadOk, ServerOk
      <3>. QED BY <3>4, <3>5
    <2>4. CASE answer = Refused
      <3>1. ~answer.ok /\ ~answer.conflict
        BY <2>4 DEF Refused
      <3>2. Forgets(page)
        BY <1>3, <3>1 DEF PageHears, Waits
      <3>3. v \in Nat /\ page.version \in Nat /\ 1 <= page.version /\ page.version <= v
            /\ page.items = ls[page.version]
        BY <1>1 DEF PageOk, ServerOk, ConfirmOk
      <3>. QED BY <1>1, <3>2, <3>3, ForgetsConfirmed
    <2>5. CASE r.edit \in DOMAIN an /\ answer = Ok(an[r.edit])
      <3>1. answer.ok /\ answer.version = an[r.edit]
        BY <2>5 DEF Ok
      <3>2. page' = [page EXCEPT !.version = answer.version,
                         !.items = ApplyOps(@, Head(page.queue).ops),
                         !.queue = Tail(@), !.doing = "idle", !.attempt = @ + 1]
        BY <1>3, <3>1 DEF PageHears, Waits
      <3>3. IsList(q)
        BY <1>1 DEF PageOk
      <3>4. /\ Head(q) = q[1] /\ Len(q) \in Nat /\ DOMAIN q = 1 .. Len(q)
            /\ DOMAIN Tail(q) = 1 .. Len(q) - 1
            /\ \A i \in DOMAIN Tail(q) : Tail(q)[i] = q[i + 1]
            /\ Tail(q) # <<>> => 1 \in DOMAIN Tail(q) /\ 2 \in DOMAIN q
        BY <2>1, <3>3, Answered
      <3>5. /\ page'.version = an[r.edit] /\ page'.items = ApplyOps(page.items, q[1].ops)
            /\ page'.queue = Tail(q) /\ page'.doing = "idle" /\ page'.at = 0
            /\ page'.read = <<>> /\ page'.after = {}
        BY <1>1, <2>2, <3>1, <3>2, <3>4 DEF PageOk, PageFields
      <3>. HIDE DEF q
      <3>6. an[r.edit] = page.version + 1
            /\ ls[page.version + 1] = ApplyOps(ls[page.version], r.ops)
        BY <2>1, <2>5 DEF ConfirmOk, Made
      <3>7. page'.items = ls[page'.version]
        BY <2>1, <3>5, <3>6 DEF ConfirmOk
      <3>8. Tail(q) # <<>> => Tail(q)[1].edit \notin DOMAIN an
        BY <1>1, <3>4 DEF QueueOk, q
      <3>9. ConfirmOk(page', R, ls, v, an)
        BY <3>5, <3>7, <3>8 DEF ConfirmOk, Made
      <3>10. ReadOk(page', v, rw, del)
        BY <1>1, <3>5 DEF ReadOk, ServerOk
      <3>. QED BY <3>9, <3>10
    <2>. QED BY <2>3, <2>4, <2>5
  <1>. QED BY <1>2, <1>3

(* An edit applied is the next of the history, and the one its answer      *)
(* names (write). *)
LEMMA AppliesConfirmed ==
    ASSUME NEW R, NEW ls, NEW v, NEW ap, NEW an, NEW dr, NEW del, NEW lib, NEW sw, NEW edits,
           NEW rw, NEW rw2, NEW ops, NEW an2,
           Safe(page, R, v, ap, an, dr, del, lib, sw, edits),
           ConfirmOk(page, R, ls, v, an), ReadOk(page, v, rw, del),
           \/ an2 = an
           \/ \E r \in R : /\ v = r.base /\ ops = r.ops
                          /\ an2 = [x \in DOMAIN an \cup {r.edit} |->
                                      IF x = r.edit THEN v + 1 ELSE an[x]]
    PROVE  /\ ConfirmOk(page, R, Append(ls, ApplyOps(ls[v], ops)), v + 1, an2)
           /\ ReadOk(page, v + 1, rw2, del)
  <1>. DEFINE ls2 == Append(ls, ApplyOps(ls[v], ops))
  <1>1. /\ PageOk(page, v) /\ ServerOk(v, ap, an, edits) /\ RequestsOk(R, edits)
        /\ HeadOk(page, R, ap) /\ OnceOk(R, ap)
    BY DEF Safe
  <1>2. v \in Nat /\ IsList(ls) /\ Len(ls) = v
    BY <1>1 DEF ServerOk, ConfirmOk
  <1>3. /\ IsList(ls2) /\ DOMAIN ls = 1 .. v /\ DOMAIN ls2 = 1 .. v + 1
        /\ \A i \in DOMAIN ls : ls2[i] = ls[i]
        /\ ls2[v + 1] = ApplyOps(ls[v], ops)
    BY <1>2, Queued
  <1>4. Len(ls2) = v + 1
    <2>1. ls2 \in Seq({ls2[i] : i \in DOMAIN ls2})
      BY <1>3 DEF IsList
    <2>. HIDE DEF ls2
    <2>2. Len(ls2) \in Nat /\ DOMAIN ls2 = 1 .. Len(ls2)
      BY <2>1
    <2>. QED BY <1>2, <1>3, <2>2
  <1>. HIDE DEF ls2
  <1>5. ASSUME NEW e, NEW base \in 1 .. v, NEW o, Made(an, ls, e, base, o),
               \A r \in R : r.edit = e => r.base = base /\ r.ops = o
        PROVE  Made(an2, ls2, e, base, o)
    <2>1. ASSUME e \in DOMAIN an, an2[e] = an[e]
          PROVE  Made(an2, ls2, e, base, o)
      <3>1. an[e] \in Nat /\ an[e] <= v
        BY <1>1, <2>1 DEF ServerOk
      <3>2. an[e] = base + 1 /\ ls[base + 1] = ApplyOps(ls[base], o)
        BY <1>5, <2>1 DEF Made
      <3>3. base \in DOMAIN ls /\ base + 1 \in DOMAIN ls
        BY <1>2, <1>3, <3>1, <3>2
      <3>. QED BY <1>3, <2>1, <3>2, <3>3 DEF Made
    <2>2. CASE an2 = an
      BY <2>1, <2>2 DEF Made
    <2>3. ASSUME NEW r \in R, v = r.base, ops = r.ops,
                 an2 = [x \in DOMAIN an \cup {r.edit} |-> IF x = r.edit THEN v + 1 ELSE an[x]]
          PROVE  Made(an2, ls2, e, base, o)
      <3>1. CASE e = r.edit
        <4>1. base = v /\ o = ops
          BY <1>5, <2>3, <3>1
        <4>2. an2[e] = v + 1 /\ v \in DOMAIN ls
          BY <1>3, <2>3, <3>1, <4>1
        <4>. QED BY <1>3, <4>1, <4>2 DEF Made
      <3>2. CASE e # r.edit /\ e \in DOMAIN an
        BY <2>1, <2>3, <3>2
      <3>3. CASE e # r.edit /\ e \notin DOMAIN an
        BY <2>3, <3>3 DEF Made
      <3>. QED BY <3>1, <3>2, <3>3
    <2>. QED BY <2>2, <2>3
  <1>6. \A r \in R : 1 <= r.base /\ r.base <= v + 1 /\ Made(an2, ls2, r.edit, r.base, r.ops)
    <2>1. ASSUME NEW r \in R
          PROVE  1 <= r.base /\ r.base <= v + 1 /\ Made(an2, ls2, r.edit, r.base, r.ops)
      <3>1. r.base \in 1 .. v /\ Made(an, ls, r.edit, r.base, r.ops)
        BY <1>1, <1>2 DEF ConfirmOk, RequestsOk
      <3>2. \A s \in R : s.edit = r.edit => s.base = r.base /\ s.ops = r.ops
        BY <1>1 DEF OnceOk
      <3>. QED BY <1>2, <1>5, <3>1, <3>2
    <2>. QED BY <2>1
  <1>7. page.queue # <<>> => Made(an2, ls2, page.queue[1].edit, page.version, page.queue[1].ops)
    <2>1. ASSUME page.queue # <<>>
          PROVE  Made(an2, ls2, page.queue[1].edit, page.version, page.queue[1].ops)
      <3>1. page.version \in 1 .. v
        BY <1>1, <1>2 DEF PageOk
      <3>2. Made(an, ls, page.queue[1].edit, page.version, page.queue[1].ops)
        BY <2>1 DEF ConfirmOk
      <3>3. \A s \in R : s.edit = page.queue[1].edit =>
                s.base = page.version /\ s.ops = page.queue[1].ops
        BY <1>1, <2>1 DEF HeadOk
      <3>. QED BY <1>5, <3>1, <3>2, <3>3
    <2>. QED BY <2>1
  <1>8. page.items = ls2[page.version]
    <2>1. page.version \in DOMAIN ls
      BY <1>1, <1>2, <1>3 DEF PageOk
    <2>. QED BY <1>3, <2>1 DEF ConfirmOk
  <1>9. ConfirmOk(page, R, ls2, v + 1, an2)
    BY <1>3, <1>4, <1>6, <1>7, <1>8 DEF ConfirmOk
  <1>10. ReadOk(page, v + 1, rw2, del)
    <2>1. page.at # v + 1
      BY <1>2 DEF ReadOk
    <2>. QED BY <1>2, <2>1 DEF ReadOk
  <1>. QED BY <1>9, <1>10 DEF ls2

(* A page of rows goes on where the last ended, and the last page ends the *)
(* list (listItems, loadPlaylist). *)
LEMMA ReadsOn ==
    ASSUME NEW m \in Nat,
           DOMAIN rows \in SUBSET Int, IsFiniteSet(DOMAIN rows),
           m <= Cardinality(DOMAIN rows),
           page.read = [i \in 1 .. m |-> rows[Ascending(DOMAIN rows)[i]]],
           page.after = IF m = 0 THEN {} ELSE {Ascending(DOMAIN rows)[m]}
    PROVE  LET keys == Ascending({k \in DOMAIN rows : \A last \in page.after : k > last})
               more == Len(keys) > PageSize
               some == IF more THEN SubSeq(keys, 1, PageSize) ELSE keys
               now  == page.read \o [i \in DOMAIN some |-> rows[some[i]]]
           IN  /\ more => /\ m + PageSize \in 1 .. Cardinality(DOMAIN rows)
                          /\ now = [i \in 1 .. m + PageSize |-> rows[Ascending(DOMAIN rows)[i]]]
                          /\ some[PageSize] = Ascending(DOMAIN rows)[m + PageSize]
               /\ ~more => now = Listed(rows)
  <1>. DEFINE S == DOMAIN rows
              n == Cardinality(S)
              T == {k \in S : \A last \in page.after : k > last}
              keys == Ascending(T)
              more == Len(keys) > PageSize
              some == IF more THEN SubSeq(keys, 1, PageSize) ELSE keys
              rest == [i \in DOMAIN some |-> rows[some[i]]]
              All == {rows[k] : k \in S}
  <1>1. n \in Nat /\ Ascending(S) \in [1 .. n -> S]
    BY AscendingIsByRank
  <1>2. /\ keys \in [1 .. n - m -> S]
        /\ \A i \in 1 .. n - m : keys[i] = Ascending(S)[m + i]
    <2>1. CASE m = 0
      <3>1. T = S
        BY <2>1
      <3>2. n - m = n /\ \A i \in 1 .. n : m + i = i
        BY <1>1, <2>1
      <3>. HIDE DEF T, S
      <3>. QED BY <1>1, <3>1, <3>2
    <2>2. CASE m # 0
      <3>1. m \in 1 .. n
        BY <1>1, <2>2
      <3>. DEFINE U == {k \in S : k > Ascending(S)[m]}
      <3>2. T = U
        BY <2>2
      <3>3. /\ IsFiniteSet(T) /\ T \in SUBSET Int /\ Cardinality(T) = n - m
            /\ \A i \in 1 .. Cardinality(T) : Ascending(T)[i] = Ascending(S)[m + i]
        <4>1. /\ IsFiniteSet(U) /\ U \in SUBSET Int /\ Cardinality(U) = n - m
              /\ \A i \in 1 .. Cardinality(U) : Ascending(U)[i] = Ascending(S)[m + i]
          BY <3>1, AscendingGoesOn
        <4>. HIDE DEF T, U
        <4>. QED BY <3>2, <4>1
      <3>4. Ascending(T) \in [1 .. Cardinality(T) -> T]
        <4>. HIDE DEF T
        <4>. QED BY <3>3, AscendingIsByRank
      <3>5. T \subseteq S
        OBVIOUS
      <3>. HIDE DEF T
      <3>. QED BY <3>3, <3>4, <3>5
    <2>. QED BY <2>1, <2>2
  <1>. HIDE DEF T, keys
  <1>3. n - m \in Nat
    BY <1>1
  <1>4. keys \in Seq(S) /\ Len(keys) = n - m
    BY <1>2, <1>3
  <1>5. PageSize \in Nat /\ PageSize >= 1
    BY PlaylistAssumption
  <1>6. page.read \in Seq(All) /\ Len(page.read) = m /\ \A i \in 1 .. m : page.read[i] = rows[Ascending(S)[i]]
    <2>1. \A i \in 1 .. m : i \in 1 .. n
      BY <1>1
    <2>2. page.read \in [1 .. m -> All] /\ \A i \in 1 .. m : page.read[i] = rows[Ascending(S)[i]]
      BY <1>1, <2>1
    <2>. HIDE DEF All
    <2>. QED BY <2>2
  <1>7. ASSUME more
        PROVE  /\ m + PageSize \in 1 .. n
               /\ page.read \o rest = [i \in 1 .. m + PageSize |-> rows[Ascending(S)[i]]]
               /\ some[PageSize] = Ascending(S)[m + PageSize]
    <2>1. m + PageSize \in 1 .. n /\ PageSize <= n - m
      BY <1>1, <1>4, <1>5, <1>7
    <2>2. some = SubSeq(keys, 1, PageSize)
      BY <1>7
    <2>3. DOMAIN some = 1 .. PageSize /\ \A i \in 1 .. PageSize : some[i] = keys[i]
      BY <1>4, <1>5, <2>1, <2>2
    <2>4. \A i \in 1 .. PageSize : i \in 1 .. n - m
      BY <1>3, <1>5, <2>1
    <2>. HIDE DEF some
    <2>5. rest \in [1 .. PageSize -> All]
          /\ \A i \in 1 .. PageSize : rest[i] = rows[Ascending(S)[m + i]]
      BY <1>2, <2>3, <2>4
    <2>. HIDE DEF rest, All
    <2>6. rest \in Seq(All) /\ Len(rest) = PageSize
      BY <1>5, <2>5
    <2>7. page.read \o rest = [i \in 1 .. m + PageSize |-> rows[Ascending(S)[i]]]
      <3>1. page.read \o rest \in Seq(All) /\ Len(page.read \o rest) = m + PageSize
        BY <1>6, <2>6
      <3>2. ASSUME NEW i \in 1 .. m + PageSize
            PROVE  (page.read \o rest)[i] = rows[Ascending(S)[i]]
        <4>1. CASE i <= m
          <5>1. i \in 1 .. m
            BY <4>1
          <5>2. (page.read \o rest)[i] = page.read[i]
            BY <1>6, <2>6, <5>1
          <5>. QED BY <1>6, <5>1, <5>2
        <4>2. CASE i > m
          <5>1. PICK j \in 1 .. PageSize : i = m + j
            <6>1. i - m \in 1 .. PageSize /\ i = m + (i - m)
              BY <1>5, <4>2
            <6>. QED BY <6>1
          <5>2. (page.read \o rest)[i] = rest[j]
            BY <1>6, <2>6, <4>2, <5>1
          <5>3. rest[j] = rows[Ascending(S)[m + j]]
            BY <2>5
          <5>. QED BY <5>1, <5>2, <5>3, Zenon
        <4>3. i <= m \/ i > m
          BY <1>5
        <4>. QED BY <4>1, <4>2, <4>3
      <3>. QED BY <3>1, <3>2
    <2>8. some[PageSize] = Ascending(S)[m + PageSize]
      BY <1>2, <1>5, <2>3, <2>4
    <2>. QED BY <2>1, <2>7, <2>8
  <1>8. ASSUME ~more
        PROVE  page.read \o rest = Listed(rows)
    <2>1. some = keys
      BY <1>8
    <2>2. DOMAIN some = 1 .. n - m
      BY <1>2, <2>1
    <2>. HIDE DEF some
    <2>3. rest \in [1 .. n - m -> All]
          /\ \A i \in 1 .. n - m : rest[i] = rows[Ascending(S)[m + i]]
      BY <1>2, <2>1, <2>2
    <2>. HIDE DEF rest, All
    <2>4. rest \in Seq(All) /\ Len(rest) = n - m
      BY <1>3, <2>3
    <2>5. page.read \o rest = [i \in 1 .. n |-> rows[Ascending(S)[i]]]
      <3>1. page.read \o rest \in Seq(All) /\ Len(page.read \o rest) = n
        <4>1. page.read \o rest \in Seq(All) /\ Len(page.read \o rest) = Len(page.read) + Len(rest)
          BY <1>6, <2>4
        <4>2. m + (n - m) = n
          BY <1>1
        <4>. QED BY <1>6, <2>4, <4>1, <4>2
      <3>2. ASSUME NEW i \in 1 .. n
            PROVE  (page.read \o rest)[i] = rows[Ascending(S)[i]]
        <4>1. CASE i <= m
          <5>1. i \in 1 .. m
            BY <4>1
          <5>2. (page.read \o rest)[i] = page.read[i]
            BY <1>6, <2>4, <5>1
          <5>. QED BY <1>6, <5>1, <5>2
        <4>2. CASE i > m
          <5>1. PICK j \in 1 .. n - m : i = m + j
            <6>1. i - m \in 1 .. n - m /\ i = m + (i - m)
              BY <1>1, <4>2
            <6>. QED BY <6>1
          <5>2. (page.read \o rest)[i] = rest[j]
            BY <1>1, <1>6, <2>4, <4>2, <5>1
          <5>3. rest[j] = rows[Ascending(S)[m + j]]
            BY <2>3
          <5>. QED BY <5>1, <5>2, <5>3, Zenon
        <4>3. i <= m \/ i > m
          BY <1>1
        <4>. QED BY <4>1, <4>2, <4>3
      <3>. QED BY <3>1, <3>2
    <2>6. Listed(rows) = [i \in 1 .. n |-> rows[Ascending(S)[i]]]
      BY <1>1 DEF Listed
    <2>. QED BY <2>5, <2>6
  <1>. QED BY <1>7, <1>8 DEF T, keys

-----------------------------------------------------------------------------
(***************************************************************************)
(* What is confirmed is what was stored, when the rows are what the edits  *)
(* made of the list (ListIsWhatEditsMade).                                 *)
(***************************************************************************)
LEMMA ConfirmedInit == PlaylistInit => ConfirmedInv
  <1>. SUFFICES ASSUME PlaylistInit PROVE ConfirmedInv
    OBVIOUS
  <1>1. /\ page.version = 1 /\ page.items = First /\ page.queue = <<>> /\ page.doing = "idle"
        /\ page.at = 0 /\ page.read = <<>> /\ page.after = {}
        /\ version = 1 /\ lists = <<First>> /\ requests = {}
    BY DEF PlaylistInit
  <1>2. <<First>> \in Seq({First})
    OBVIOUS
  <1>3. IsList(lists) /\ Len(lists) = 1 /\ lists[1] = First
    BY <1>1, <1>2, OwnElements
  <1>4. ConfirmOk(page, requests, lists, version, answers)
    BY <1>1, <1>3 DEF ConfirmOk
  <1>5. ReadOk(page, version, rows, deleted)
    BY <1>1 DEF ReadOk
  <1>. QED BY <1>4, <1>5 DEF ConfirmedInv

\* Everything a lemma below takes for granted of a state.
Sound == PagesInv /\ PlannedInv /\ ConfirmedInv

(* What Sound says, part by part.                                          *)
LEMMA SoundParts ==
    ASSUME Sound
    PROVE  /\ Safe(page, requests, version, applied, answers, dropped, deleted, Stock, swept,
                    spent.edits)
           /\ PageOk(page, version) /\ ServerOk(version, applied, answers, spent.edits)
           /\ RequestsOk(requests, spent.edits) /\ AttemptsOk(page, requests)
           /\ QueueOk(page.queue, requests, applied, answers, dropped, spent.edits)
           /\ version \in Nat /\ DOMAIN page = PageFields
           /\ ConfirmOk(page, requests, lists, version, answers)
           /\ ReadOk(page, version, rows, deleted)
           /\ PlannedInv
  BY DEF Sound, PagesInv, Safe, ConfirmedInv, PageOk, ServerOk

(* What is read depends on what the page keeps of it alone.                *)
LEMMA SameRead ==
    ASSUME NEW pg, NEW new, NEW v, NEW rw, NEW del, ReadOk(pg, v, rw, del),
           new.at = pg.at, new.read = pg.read, new.after = pg.after, new.doing = pg.doing
    PROVE  ReadOk(new, v, rw, del)
  <1>1. \A m \in Nat : HasRead(pg, rw, m) => HasRead(new, rw, m)
    BY DEF HasRead
  <1>. QED BY <1>1 DEF ReadOk

(* A request names a version there is (EditablePlaylist.#send).            *)
LEMMA PageEditsConfirmed ==
    ASSUME Sound, (\E ops : Make(ops)) \/ Send
    PROVE  ConfirmedInv'
  <1>1. CASE \E ops : Make(ops)
    <2>1. PICK ops : Make(ops)
      BY <1>1
    <2>. DEFINE q == page.queue
                e == spent.edits + 1
                new == [edit |-> e, ops |-> ops]
    <2>2. spent'.edits = e
      BY <2>1, Spending DEF Make, Sound, PagesInv
    <2>3. /\ page'.queue = Append(q, new) /\ page'.version = page.version
          /\ page'.items = page.items /\ page'.doing = page.doing /\ page'.at = page.at
          /\ page'.read = page.read /\ page'.after = page.after
      BY <2>1, <2>2, SoundParts DEF Make, PageFields
    <2>4. /\ version' = version /\ lists' = lists /\ answers' = answers /\ requests' = requests
          /\ rows' = rows /\ deleted' = deleted
      BY <2>1 DEF Make, server, history
    <2>5. IsList(q)
      BY SoundParts DEF PageOk
    <2>6. /\ DOMAIN q = 1 .. Len(q) /\ Len(q) \in Nat
          /\ DOMAIN Append(q, new) = 1 .. Len(q) + 1
          /\ \A i \in DOMAIN q : Append(q, new)[i] = q[i]
          /\ Append(q, new)[Len(q) + 1] = new
      BY <2>5, Queued
    <2>7. q # <<>> => 1 \in DOMAIN q
      BY <2>5, Answered
    <2>8. q = <<>> => Append(q, new)[1] = new
      BY <2>6
    <2>9. new.edit = e /\ e \notin DOMAIN answers
      BY SoundParts DEF ServerOk
    <2>. HIDE DEF q, new
    <2>10. Made(answers, lists, Append(q, new)[1].edit, page.version, Append(q, new)[1].ops)
      <3>1. CASE q # <<>>
        <4>1. Append(q, new)[1] = q[1]
          BY <2>6, <2>7, <3>1
        <4>2. Made(answers, lists, q[1].edit, page.version, q[1].ops)
          BY <3>1, SoundParts DEF ConfirmOk, q
        <4>. QED BY <4>1, <4>2
      <3>2. CASE q = <<>>
        BY <2>8, <2>9, <3>2 DEF Made
      <3>. QED BY <3>1, <3>2
    <2>11. ConfirmOk(page, requests, lists, version, answers)'
      BY <2>3, <2>4, <2>10, SoundParts DEF ConfirmOk, Made
    <2>12. ReadOk(page, version, rows, deleted)'
      <3>1. ReadOk(page, version, rows, deleted)
        BY SoundParts
      <3>2. ReadOk(page', version, rows, deleted)
        BY <2>3, <3>1, SameRead, Zenon
      <3>. QED BY <2>4, <3>2
    <2>. QED BY <2>11, <2>12 DEF ConfirmedInv
  <1>2. CASE Send
    <2>. DEFINE q == page.queue
                r0 == Request(Head(q).edit, page.attempt, Head(q).ops, page.version)
    <2>1. q # <<>> /\ page.doing = "idle"
      BY <1>2 DEF Send
    <2>2. IsList(q)
      BY SoundParts DEF PageOk
    <2>3. Head(q) = q[1]
      BY <2>1, <2>2, Answered
    <2>4. r0.edit = q[1].edit /\ r0.ops = q[1].ops /\ r0.base = page.version
      BY <2>3 DEF Request
    <2>5. /\ page'.queue = page.queue /\ page'.version = page.version
          /\ page'.items = page.items /\ page'.doing = "asking" /\ page'.at = page.at
          /\ page'.read = page.read /\ page'.after = page.after
      BY <1>2, SoundParts DEF Send, PageFields
    <2>6. requests' = requests \cup {r0}
      BY <1>2 DEF Send
    <2>7. /\ version' = version /\ lists' = lists /\ answers' = answers
          /\ rows' = rows /\ deleted' = deleted
      BY <1>2 DEF Send, server, history
    <2>. HIDE DEF r0
    <2>8. 1 <= r0.base /\ r0.base <= version /\ Made(answers, lists, r0.edit, r0.base, r0.ops)
      BY <2>1, <2>4, SoundParts DEF ConfirmOk, PageOk
    <2>9. ConfirmOk(page, requests, lists, version, answers)'
      BY <2>5, <2>6, <2>7, <2>8, SoundParts DEF ConfirmOk, Made
    <2>10. ReadOk(page, version, rows, deleted)'
      <3>1. /\ page.at = 0 /\ page.read = <<>> /\ page.after = {}
            /\ page.at \in Nat /\ page.at <= version
        BY <2>1, SoundParts DEF ReadOk
      <3>. QED BY <2>5, <2>7, <3>1 DEF ReadOk
    <2>. QED BY <2>9, <2>10 DEF ConfirmedInv
  <1>. QED BY <1>1, <1>2

(* With fewer requests, or replanned, the rest stands.                     *)
LEMMA FewerConfirmed ==
    ASSUME NEW pg, NEW R, NEW ls, NEW v, NEW an, ConfirmOk(pg, R, ls, v, an), NEW Q, Repeats(Q, R)
    PROVE  ConfirmOk(pg, Q, ls, v, an)
  BY DEF ConfirmOk, Repeats

(* A request with its plan made or dropped repeats the one it was (Read,   *)
(* WriteEnds).                                                             *)
LEMMA ReplannedRepeats ==
    ASSUME Sound, NEW r \in requests, NEW s0,
           s0 = [r EXCEPT !.planned = TRUE, !.plan = Plan(r.ops)]
                \/ s0 = [r EXCEPT !.planned = FALSE, !.plan = NoPlan],
           requests' = (requests \ {r}) \cup {s0}
    PROVE  Repeats(requests', requests)
  <1>1. \A s \in requests : DOMAIN s = RequestFields
    BY SoundParts DEF RequestsOk
  <1>2. /\ DOMAIN s0 = RequestFields /\ s0.edit = r.edit /\ s0.attempt = r.attempt
        /\ s0.ops = r.ops /\ s0.base = r.base
    BY <1>1 DEF RequestFields
  <1>. QED BY <1>1, <1>2 DEF Repeats

(* What the handler answers without writing (Read, WriteEnds).             *)
LEMMA EndsConfirmed ==
    ASSUME Sound, NEW r \in requests, NEW answer, answer \in AnswersTo(r) \/ answer = Refused,
           Ends(r, answer), UNCHANGED <<server, history>>
    PROVE  ConfirmedInv'
  <1>1. \/ answer \in {Conflict, Refused}
        \/ r.edit \in DOMAIN answers /\ answer = Ok(answers[r.edit])
    BY DEF AnswersTo, At, Known
  <1>2. PageHears(r, answer) /\ requests' = requests \ {r}
    BY DEF Ends
  <1>3. ConfirmOk(page', requests, lists, version, answers) /\ ReadOk(page', version, rows, deleted)
    BY <1>1, <1>2, SoundParts, HearsConfirmed, Zenon
  <1>4. Repeats(requests', requests)
    BY <1>2, SoundParts DEF Repeats, RequestsOk
  <1>5. ConfirmOk(page', requests', lists, version, answers)
    BY <1>3, <1>4, FewerConfirmed, Zenon
  <1>. QED BY <1>3, <1>5 DEF ConfirmedInv, server, history

(* A handler that writes nothing (Read, WriteEnds).                        *)
LEMMA HandlerConfirmed ==
    ASSUME Sound, NEW r \in requests, Read(r) \/ WriteEnds(r)
    PROVE  ConfirmedInv'
  <1>1. ASSUME NEW answer, answer \in AnswersTo(r) \/ answer = Refused, Ends(r, answer),
               UNCHANGED <<server, history, spent>>
        PROVE  ConfirmedInv'
    BY <1>1, EndsConfirmed
  <1>2. ASSUME NEW s0, s0 = [r EXCEPT !.planned = TRUE, !.plan = Plan(r.ops)]
                       \/ s0 = [r EXCEPT !.planned = FALSE, !.plan = NoPlan],
               requests' = (requests \ {r}) \cup {s0},
               UNCHANGED <<page, undo, dropped>>, UNCHANGED <<server, history, spent>>
        PROVE  ConfirmedInv'
    <2>1. Repeats(requests', requests)
      BY <1>2, ReplannedRepeats
    <2>2. ConfirmOk(page, requests', lists, version, answers)
      BY <2>1, SoundParts, FewerConfirmed, Zenon
    <2>. QED BY <1>2, <2>2, SoundParts DEF ConfirmedInv, server, history
  <1>3. CASE Read(r)
    BY <1>1, <1>2, <1>3 DEF Read
  <1>4. CASE WriteEnds(r)
    BY <1>1, <1>2, <1>4 DEF WriteEnds
  <1>. QED BY <1>3, <1>4

(* The version a write makes is the one the page confirms, if it waits     *)
(* for it (write).                                                         *)
LEMMA WriteConfirmed ==
    ASSUME Sound, NEW r \in requests, Write(r)
    PROVE  ConfirmedInv'
  <1>. DEFINE an2 == [e \in DOMAIN answers \cup {r.edit} |->
                        IF e = r.edit THEN version + 1 ELSE answers[e]]
              ap2 == Append(applied, r.edit)
              ls2 == Append(lists, ApplyOps(lists[version], r.ops))
  <1>1. /\ r.edit \notin DOMAIN answers /\ ~deleted /\ version = r.base
        /\ Adds(r.ops) \cap Addable \subseteq Stock[1] /\ AllInRange(Stock[2], r.ops)
    BY SoundParts DEF Write, Known, MayWrite, Fresh, PlannedInv, Stock
  <1>2. Safe(page, requests, version + 1, ap2, an2, dropped, deleted, Stock', swept, spent.edits)
    BY <1>1, SoundParts, Applying, Zenon DEF PlannedInv
  <1>3. /\ version' = version + 1 /\ lists' = ls2 /\ answers' = an2 /\ deleted' = deleted
        /\ requests' = requests \ {r} /\ PageHears(r, Ok(version + 1))
    BY DEF Write, ApplyEdit, Ends
  <1>4. ConfirmOk(page, requests, ls2, version + 1, an2) /\ ReadOk(page, version + 1, rows', deleted)
    <2>1. /\ Safe(page, requests, version, applied, answers, dropped, deleted, Stock, swept,
                  spent.edits)
          /\ ConfirmOk(page, requests, lists, version, answers)
          /\ ReadOk(page, version, rows, deleted)
      BY SoundParts
    <2>2. \E s \in requests : /\ version = s.base /\ r.ops = s.ops
                             /\ an2 = [x \in DOMAIN answers \cup {s.edit} |->
                                         IF x = s.edit THEN version + 1 ELSE answers[x]]
      BY <1>1, Zenon
    <2>. HIDE DEF an2
    <2>. QED BY <2>1, <2>2, AppliesConfirmed, Zenon DEF ls2
  <1>5. r.edit \in DOMAIN an2 /\ Ok(version + 1) = Ok(an2[r.edit])
    OBVIOUS
  <1>. HIDE DEF an2, ap2, ls2
  <1>6. ConfirmOk(page', requests, ls2, version + 1, an2) /\ ReadOk(page', version + 1, rows', deleted)
    BY <1>2, <1>3, <1>4, <1>5, HearsConfirmed, Zenon
  <1>7. Repeats(requests', requests)
    BY <1>3, SoundParts DEF Repeats, RequestsOk
  <1>8. ConfirmOk(page', requests', ls2, version + 1, an2)
    BY <1>6, <1>7, FewerConfirmed, Zenon
  <1>. QED BY <1>3, <1>6, <1>8 DEF ConfirmedInv

(* A request given up or failed (EditablePlaylist.#send).                  *)
LEMMA FailuresConfirmed ==
    ASSUME Sound, GiveUp \/ \E r \in requests : HandlerFails(r)
    PROVE  ConfirmedInv'
  <1>1. requests' \subseteq requests /\ UNCHANGED <<server, history>>
    BY DEF GiveUp, HandlerFails
  <1>2. \/ page' = page
        \/ page.doing = "asking" /\ page' = [page EXCEPT !.doing = "idle", !.attempt = @ + 1]
    BY DEF GiveUp, HandlerFails
  <1>3. Repeats(requests', requests)
    BY <1>1, SoundParts DEF Repeats, RequestsOk
  <1>4. ConfirmOk(page, requests', lists, version, answers)
    BY <1>3, SoundParts, FewerConfirmed, Zenon
  <1>5. CASE page' = page
    BY <1>1, <1>4, <1>5, SoundParts DEF ConfirmedInv, server, history
  <1>6. CASE page.doing = "asking" /\ page' = [page EXCEPT !.doing = "idle", !.attempt = @ + 1]
    <2>1. /\ page'.queue = page.queue /\ page'.version = page.version
          /\ page'.items = page.items /\ page'.doing = "idle" /\ page'.at = page.at
          /\ page'.read = page.read /\ page'.after = page.after
      BY <1>6, SoundParts DEF PageFields
    <2>2. ConfirmOk(page', requests', lists, version, answers)
      BY <1>4, <2>1 DEF ConfirmOk
    <2>3. ReadOk(page', version, rows, deleted)
      BY <1>6, <2>1, SoundParts DEF ReadOk
    <2>. QED BY <1>1, <2>2, <2>3 DEF ConfirmedInv, server, history
  <1>. QED BY <1>2, <1>5, <1>6

(* A reload: a page of rows, the version they must be of, or a failure     *)
(* (loadPlaylist). *)
LEMMA ReloadConfirmed ==
    ASSUME Sound, ListIsWhatEditsMade, ReadItems \/ ReadHeader \/ LoadFails
    PROVE  ConfirmedInv'
  <1>1. UNCHANGED <<server, requests, history>>
    BY DEF ReadItems, ReadHeader, LoadFails
  <1>2. ASSUME ConfirmOk(page', requests, lists, version, answers), ReadOk(page', version, rows, deleted)
        PROVE  ConfirmedInv'
    BY <1>1, <1>2 DEF ConfirmedInv, server, history
  <1>3. ASSUME NEW at, Forgets(at), at.version \in Nat, 1 <= at.version, at.version <= version,
               at.items = lists[at.version]
        PROVE  ConfirmedInv'
    BY <1>2, <1>3, SoundParts, ForgetsConfirmed
  <1>4. CASE Forgets(page)
    BY <1>3, <1>4, SoundParts DEF PageOk, ConfirmOk
  <1>5. ASSUME page.doing \in {"reloading", "read"},
               page' = [page EXCEPT !.tries = @ + 1, !.read = <<>>, !.after = {}, !.at = 0]
               \/ page' = [page EXCEPT !.tries = @ + 1, !.read = <<>>, !.after = {}, !.at = 0,
                             !.doing = "reloading"]
        PROVE  ConfirmedInv'
    <2>1. /\ page'.queue = page.queue /\ page'.version = page.version
          /\ page'.items = page.items /\ page'.at = 0 /\ page'.read = <<>> /\ page'.after = {}
          /\ page'.doing \in {"reloading", "read"}
      BY <1>5, SoundParts DEF PageFields
    <2>2. ConfirmOk(page', requests, lists, version, answers)
      BY <2>1, SoundParts DEF ConfirmOk
    <2>3. ReadOk(page', version, rows, deleted)
      BY <2>1, SoundParts DEF ReadOk, ServerOk
    <2>. QED BY <1>2, <2>2, <2>3
  <1>6. CASE ReadItems
    <2>1. page.doing = "reloading" /\ ~deleted
      BY <1>6 DEF ReadItems
    <2>2. CASE Again
      BY <1>4, <1>5, <2>1, <2>2 DEF Again
    <2>3. CASE ~Again
      <3>. DEFINE keys == Ascending({k \in DOMAIN rows : \A last \in page.after : k > last})
                  more == Len(keys) > PageSize
                  some == IF more THEN SubSeq(keys, 1, PageSize) ELSE keys
                  now  == page.read \o [i \in DOMAIN some |-> rows[some[i]]]
      <3>1. /\ page.at = 0 \/ page.at = version
            /\ page' = [page EXCEPT !.read = now, !.at = version,
                           !.after = IF more THEN {some[PageSize]} ELSE {},
                           !.doing = IF more THEN @ ELSE "read"]
        BY <1>6, <2>3 DEF ReadItems, Expired
      <3>2. DOMAIN rows \in SUBSET Int /\ IsFiniteSet(DOMAIN rows)
        BY <2>1 DEF ListIsWhatEditsMade
      <3>3. \E m \in Nat :
                /\ m <= Cardinality(DOMAIN rows)
                /\ page.read = [i \in 1 .. m |-> rows[Ascending(DOMAIN rows)[i]]]
                /\ page.after = IF m = 0 THEN {} ELSE {Ascending(DOMAIN rows)[m]}
        <4>1. CASE page.at = 0
          <5>1. page.read = <<>> /\ page.after = {}
            BY <4>1, SoundParts DEF ReadOk
          <5>2. <<>> = [i \in 1 .. 0 |-> rows[Ascending(DOMAIN rows)[i]]]
            OBVIOUS
          <5>3. Cardinality(DOMAIN rows) \in Nat
            BY <3>2, FS_CardinalityType
          <5>4. 0 <= Cardinality(DOMAIN rows) /\ 0 \in Nat
            BY <5>3
          <5>. QED BY <5>1, <5>2, <5>4
        <4>2. CASE page.at = version
          <5>1. PICK m \in Nat : HasRead(page, rows, m)
            BY <2>1, <4>2, SoundParts DEF ReadOk
          <5>2. m <= Cardinality(DOMAIN rows) /\ m # 0
            BY <3>2, <5>1, FS_CardinalityType DEF HasRead
          <5>. QED BY <5>1, <5>2 DEF HasRead
        <4>. QED BY <3>1, <4>1, <4>2
      <3>4. PICK m \in Nat :
                /\ m <= Cardinality(DOMAIN rows)
                /\ page.read = [i \in 1 .. m |-> rows[Ascending(DOMAIN rows)[i]]]
                /\ page.after = IF m = 0 THEN {} ELSE {Ascending(DOMAIN rows)[m]}
        BY <3>3
      <3>5. /\ more => /\ m + PageSize \in 1 .. Cardinality(DOMAIN rows)
                       /\ now = [i \in 1 .. m + PageSize |-> rows[Ascending(DOMAIN rows)[i]]]
                       /\ some[PageSize] = Ascending(DOMAIN rows)[m + PageSize]
            /\ ~more => now = Listed(rows)
        BY <3>2, <3>4, ReadsOn
      <3>. HIDE DEF keys, more, some, now
      <3>6. /\ page'.queue = page.queue /\ page'.version = page.version
            /\ page'.items = page.items /\ page'.at = version /\ page'.read = now
            /\ more => page'.doing = "reloading" /\ page'.after = {some[PageSize]}
            /\ ~more => page'.doing = "read"
        BY <2>1, <3>1, SoundParts DEF PageFields
      <3>7. ConfirmOk(page', requests, lists, version, answers)
        BY <3>6, SoundParts DEF ConfirmOk
      <3>8. ReadOk(page', version, rows, deleted)
        <4>1. version \in Nat /\ version # 0
          BY SoundParts DEF ServerOk
        <4>2. CASE more
          <5>1. HasRead(page', rows, m + PageSize)
            BY <3>5, <3>6, <4>2 DEF HasRead
          <5>2. m + PageSize \in Nat
            BY PlaylistAssumption
          <5>. QED BY <3>6, <4>1, <4>2, <5>1, <5>2 DEF ReadOk
        <4>3. CASE ~more
          BY <3>5, <3>6, <4>1, <4>3 DEF ReadOk
        <4>. QED BY <4>2, <4>3
      <3>. QED BY <1>2, <3>7, <3>8
    <2>. QED BY <2>2, <2>3
  <1>7. CASE ReadHeader
    <2>1. page.doing = "read" /\ ~deleted
      BY <1>7 DEF ReadHeader
    <2>2. CASE page.at = version /\ Forgets([version |-> version, items |-> page.read])
      <3>. DEFINE at == [version |-> version, items |-> page.read]
      <3>1. page.read = Listed(rows) /\ Listed(rows) = lists[version]
        BY <2>1, <2>2, SoundParts DEF ReadOk, ListIsWhatEditsMade
      <3>2. at.version = version /\ at.items = lists[version]
        BY <3>1
      <3>3. version \in Nat /\ 1 <= version
        BY SoundParts DEF ServerOk
      <3>4. Forgets(at)
        BY <2>2
      <3>. HIDE DEF at
      <3>. QED BY <1>3, <3>2, <3>3, <3>4
    <2>3. CASE page.at # version
      BY <1>4, <1>5, <1>7, <2>1, <2>3 DEF ReadHeader
    <2>. QED BY <1>7, <2>2, <2>3 DEF ReadHeader
  <1>8. CASE LoadFails
    BY <1>4, <1>8 DEF LoadFails
  <1>. QED BY <1>6, <1>7, <1>8

(* What others do to the playlist leaves the versions confirmed as they    *)
(* are.                                                                    *)
LEMMA OthersConfirmed ==
    ASSUME Sound, OtherEdit \/ Purge \/ Sweep \/ Delete
    PROVE  ConfirmedInv'
  <1>1. CASE OtherEdit
    <2>1. PICK ops \in OtherOps : ApplyEdit(Plan(ops), ops, NoEdit)
      BY <1>1 DEF OtherEdit
    <2>2. /\ ConfirmOk(page, requests, Append(lists, ApplyOps(lists[version], ops)), version + 1,
                       answers)
          /\ ReadOk(page, version + 1, rows', deleted)
      BY SoundParts, AppliesConfirmed, Zenon
    <2>3. /\ version' = version + 1 /\ lists' = Append(lists, ApplyOps(lists[version], ops))
          /\ page' = page /\ requests' = requests /\ answers' = answers /\ deleted' = deleted
      BY <1>1, <2>1 DEF OtherEdit, ApplyEdit
    <2>. QED BY <2>2, <2>3 DEF ConfirmedInv
  <1>2. CASE Purge \/ Sweep \/ Delete
    <2>1. /\ page' = page /\ requests' = requests /\ version' = version /\ lists' = lists
          /\ answers' = answers \/ DOMAIN answers' = {}
          /\ (rows' = rows /\ deleted' = deleted) \/ deleted' = TRUE
      BY <1>2 DEF Purge, Sweep, Delete, history
    <2>2. ConfirmOk(page, requests, lists, version, answers)'
      BY <2>1, SoundParts DEF ConfirmOk, Made
    <2>3. CASE rows' = rows /\ deleted' = deleted
      <3>1. ReadOk(page', version', rows', deleted')
        BY <2>1, <2>3, SoundParts
      <3>. QED BY <2>2, <3>1 DEF ConfirmedInv
    <2>4. CASE deleted' = TRUE
      <3>1. ReadOk(page', version', rows', deleted')
        BY <2>1, <2>4, SoundParts DEF ReadOk
      <3>. QED BY <2>2, <3>1 DEF ConfirmedInv
    <2>. QED BY <2>1, <2>3, <2>4
  <1>. QED BY <1>1, <1>2

(* Every step keeps what the page has as confirmed, as long as the rows    *)
(* are the list.                                                           *)
LEMMA ConfirmedNext ==
    Sound /\ ListIsWhatEditsMade /\ [PlaylistNext]_playlistVars => ConfirmedInv'
  <1>. SUFFICES ASSUME Sound, ListIsWhatEditsMade, [PlaylistNext]_playlistVars PROVE ConfirmedInv'
    OBVIOUS
  <1>1. CASE UserEdit \/ UserUndo \/ Send
    BY <1>1, PageEditsConfirmed DEF UserEdit, UserUndo
  <1>2. CASE GiveUp \/ \E r \in requests : HandlerFails(r)
    BY <1>2, FailuresConfirmed
  <1>3. CASE \E r \in requests : Read(r) \/ WriteEnds(r)
    BY <1>3, HandlerConfirmed
  <1>4. CASE \E r \in requests : Write(r)
    BY <1>4, WriteConfirmed
  <1>5. CASE ReadItems \/ ReadHeader \/ LoadFails
    BY <1>5, ReloadConfirmed
  <1>6. CASE OtherEdit \/ Purge \/ Sweep \/ Delete
    BY <1>6, OthersConfirmed
  <1>7. CASE UNCHANGED playlistVars
    BY <1>7, SoundParts DEF playlistVars, server, history, ConfirmedInv, ConfirmOk, Made, ReadOk, HasRead
  <1>. QED BY <1>1, <1>2, <1>3, <1>4, <1>5, <1>6, <1>7 DEF PlaylistNext

(* A set of natural numbers has a least one. *)
LEMMA LeastNat ==
    ASSUME NEW T \in SUBSET Nat, T # {}
    PROVE  \E x \in T : \A y \in T : x <= y
  <1>. DEFINE Less == {ss \in Nat \X Nat : ss[1] < ss[2]}
  <1>1. OpToRel(<, Nat) = Less
    BY DEF OpToRel
  <1>2. IsWellFoundedOn(Less, Nat)
    BY <1>1, NatLessThanWellFounded
  <1>. HIDE DEF Less
  <1>3. \E x \in T : \A y \in T : ~ (<<y, x>> \in Less)
    BY <1>2, WFMin
  <1>4. \A x, y \in T : <<y, x>> \notin Less => x <= y
    BY DEF Less
  <1>. QED BY <1>3, <1>4

-----------------------------------------------------------------------------
(***************************************************************************)
(* Lists, whatever they hold.                                              *)
(***************************************************************************)
(* A list is a function of its positions. *)
LEMMA ListShape ==
    ASSUME NEW s, IsList(s)
    PROVE  Len(s) \in Nat /\ DOMAIN s = 1 .. Len(s) /\ s = [i \in 1 .. Len(s) |-> s[i]]
  <1>. DEFINE T == {s[i] : i \in DOMAIN s}
  <1>1. s \in Seq(T)
    BY DEF IsList
  <1>. HIDE DEF T
  <1>. QED BY <1>1

(* A function of the first n numbers is a list. *)
LEMMA ListOf ==
    ASSUME NEW n \in Nat, NEW s, s = [i \in 1 .. n |-> s[i]]
    PROVE  IsList(s) /\ Len(s) = n /\ DOMAIN s = 1 .. n
  <1>. DEFINE T == {s[i] : i \in DOMAIN s}
  <1>1. DOMAIN s = 1 .. n /\ s \in [1 .. n -> T]
    OBVIOUS
  <1>2. s \in Seq(T)
    BY <1>1, SeqDef
  <1>3. Len(s) = n
    <2>. HIDE DEF T
    <2>1. Len(s) \in Nat /\ DOMAIN s = 1 .. Len(s)
      BY <1>2
    <2>. QED BY <1>1, <2>1
  <1>. QED BY <1>1, <1>2, <1>3 DEF IsList

(* The items at some positions, in order (PlaylistOps.Taken). *)
LEMMA TakenShape ==
    ASSUME NEW list, NEW positions \in SUBSET Int, IsFiniteSet(positions)
    PROVE  /\ Cardinality(positions) \in Nat
           /\ Taken(list, positions) =
                [i \in 1 .. Cardinality(positions) |-> list[Ascending(positions)[i]]]
           /\ IsList(Taken(list, positions)) /\ Len(Taken(list, positions)) = Cardinality(positions)
  <1>. DEFINE n == Cardinality(positions)
              t == Taken(list, positions)
  <1>1. n \in Nat /\ DOMAIN Ascending(positions) = 1 .. n
    BY AscendingIsByRank
  <1>. HIDE DEF n
  <1>2. t = [i \in 1 .. n |-> list[Ascending(positions)[i]]]
    BY <1>1 DEF Taken
  <1>3. t = [i \in 1 .. n |-> t[i]]
    BY <1>2
  <1>. HIDE DEF t
  <1>4. IsList(t) /\ Len(t) = n
    BY <1>1, <1>3, ListOf
  <1>. QED BY <1>1, <1>2, <1>4 DEF t, n

(* What a splice makes is a list (PlaylistOps.Spliced). *)
LEMMA SplicedShape ==
    ASSUME NEW list, IsList(list), NEW items, IsList(items), NEW at
    PROVE  /\ IsList(Spliced(list, at, items))
           /\ Len(Spliced(list, at, items)) = Len(list) + Len(items)
  <1>. DEFINE n == Len(list) + Len(items)
              s == Spliced(list, at, items)
  <1>1. n \in Nat
    BY ListShape
  <1>2. s = [i \in 1 .. n |-> s[i]]
    BY DEF Spliced
  <1>. HIDE DEF n, s
  <1>3. IsList(s) /\ Len(s) = n
    BY <1>1, <1>2, ListOf
  <1>. QED BY <1>3 DEF n, s

(* Positions of a list are integers, and finitely many. *)
LEMMA Positions ==
    ASSUME NEW list, IsList(list), NEW T \in SUBSET DOMAIN list
    PROVE  T \in SUBSET Int /\ IsFiniteSet(T) /\ Cardinality(T) \in Nat /\ Cardinality(T) <= Len(list)
  <1>1. Len(list) \in Nat /\ DOMAIN list = 1 .. Len(list)
    BY ListShape
  <1>2. IsFiniteSet(1 .. Len(list)) /\ Cardinality(1 .. Len(list)) = Len(list)
    BY <1>1, FS_Interval
  <1>3. IsFiniteSet(T) /\ Cardinality(T) <= Len(list)
    BY <1>1, <1>2, FS_Subset
  <1>. QED BY <1>1, <1>3, FS_CardinalityType

(* An op makes a list of a list, in range or not (playlist-ops.ts,         *)
(* applyOp).                                                               *)
LEMMA OpMakesList ==
    ASSUME NEW list, IsList(list), NEW op, IsOp(op)
    PROVE  IsList(ApplyOp(list, op))
  <1>1. IsList(op.items) /\ op.op \in {"append", "add", "remove", "move"}
        /\ op.positions \in SUBSET Int /\ IsFiniteSet(op.positions)
    BY DEF IsOp
  <1>2. IsList(Without(list, op.positions)) /\ IsList(Taken(list, op.positions))
    <2>1. DOMAIN list \ op.positions \in SUBSET Int /\ IsFiniteSet(DOMAIN list \ op.positions)
      BY Positions
    <2>. QED BY <1>1, <2>1, TakenShape DEF Without
  <1>. QED BY <1>1, <1>2, SplicedShape DEF ApplyOp

-----------------------------------------------------------------------------
(***************************************************************************)
(* An edit, op by op.                                                      *)
(***************************************************************************)
\* What each op of an edit leaves.
Leaves(list, ops, left) ==
    /\ left[0] = list
    /\ \A n \in 1 .. Len(ops) : left[n] = ApplyOp(left[n - 1], ops[n])

(* ApplyOps applies the ops one by one (apply_ops). *)
LEMMA OneByOne ==
    ASSUME NEW list, NEW ops, IsList(ops)
    PROVE  \E left : Leaves(list, ops, left) /\ ApplyOps(list, ops) = left[Len(ops)]
  <1>. DEFINE L == Len(ops)
              F(g, n) == IF n = 0 THEN list ELSE ApplyOp(g[n - 1], ops[n])
              P(n) == \E g : g = [k \in 0 .. n |-> F(g, k)]
  <1>1. L \in Nat
    BY ListShape
  <1>2. P(0)
    <2>. DEFINE g == [k \in 0 .. 0 |-> list]
    <2>1. g = [k \in 0 .. 0 |-> F(g, k)]
      OBVIOUS
    <2>. QED BY <2>1
  <1>3. ASSUME NEW n \in Nat, P(n) PROVE P(n + 1)
    <2>1. PICK g : g = [k \in 0 .. n |-> F(g, k)]
      BY <1>3
    <2>. DEFINE h == [k \in 0 .. n + 1 |-> IF k = n + 1 THEN ApplyOp(g[n], ops[n + 1]) ELSE g[k]]
    <2>2. ASSUME NEW k \in 0 .. n PROVE h[k] = F(h, k)
      <3>1. h[k] = g[k] /\ g[k] = F(g, k)
        BY <2>1
      <3>2. k # 0 => k - 1 \in 0 .. n /\ h[k - 1] = g[k - 1]
        OBVIOUS
      <3>. QED BY <3>1, <3>2
    <2>3. h[n + 1] = F(h, n + 1)
      OBVIOUS
    <2>4. \A k \in 0 .. n + 1 : h[k] = F(h, k)
      <3>1. \A k \in 0 .. n + 1 : k \in 0 .. n \/ k = n + 1
        OBVIOUS
      <3>. HIDE DEF h, F
      <3>. QED BY <2>2, <2>3, <3>1
    <2>. QED BY <2>4
  <1>4. P(L)
    <2>. HIDE DEF P, L
    <2>. DEFINE T == {n \in Nat : ~P(n)}
    <2>1. SUFFICES ASSUME T # {} PROVE FALSE
      BY <1>1
    <2>2. PICK n \in T : \A k \in T : n <= k
      BY <2>1, LeastNat
    <2>3. n # 0 /\ n - 1 \in Nat /\ n - 1 \notin T
      BY <1>2, <2>2
    <2>4. P((n - 1) + 1)
      BY <1>3, <2>3
    <2>. QED BY <2>2, <2>3, <2>4
  <1>. DEFINE left == CHOOSE g : g = [k \in 0 .. L |-> F(g, k)]
  <1>5. left = [k \in 0 .. L |-> F(left, k)]
    BY <1>4
  <1>6. ApplyOps(list, ops) = left[L]
    BY DEF ApplyOps
  <1>. HIDE DEF left, P
  <1>7. left[0] = list /\ \A n \in 1 .. L : left[n] = ApplyOp(left[n - 1], ops[n])
    BY <1>1, <1>5
  <1>. QED BY <1>6, <1>7 DEF Leaves

(* The first ops of an edit leave what they leave of it (Before). *)
LEMMA FirstOps ==
    ASSUME NEW list, NEW ops, IsList(ops), NEW left, Leaves(list, ops, left), NEW n \in 0 .. Len(ops)
    PROVE  ApplyOps(list, SubSeq(ops, 1, n)) = left[n]
  <1>. DEFINE some == SubSeq(ops, 1, n)
  <1>1. Len(ops) \in Nat /\ n \in Nat
    BY ListShape
  <1>2. IsList(some) /\ Len(some) = n /\ \A k \in 1 .. n : some[k] = ops[k]
    <2>. DEFINE T == {ops[i] : i \in DOMAIN ops}
    <2>1. ops \in Seq(T)
      BY DEF IsList
    <2>. HIDE DEF T
    <2>2. some \in Seq(T) /\ Len(some) = n /\ \A k \in 1 .. n : some[k] = ops[k]
      BY <1>1, <2>1
    <2>. QED BY <2>2, OwnElements
  <1>. HIDE DEF some
  <1>3. PICK g : Leaves(list, some, g) /\ ApplyOps(list, some) = g[n]
    BY <1>2, OneByOne
  <1>. DEFINE T == {k \in Nat : k <= n /\ g[k] # left[k]}
  <1>4. T = {}
    <2>1. SUFFICES ASSUME T # {} PROVE FALSE
      OBVIOUS
    <2>2. PICK k \in T : \A m \in T : k <= m
      BY <2>1, LeastNat
    <2>3. k # 0
      BY <1>3 DEF Leaves
    <2>4. k \in 1 .. n /\ k - 1 \in Nat /\ k - 1 <= n /\ ~(k <= k - 1)
      BY <1>1, <2>3
    <2>5. g[k - 1] = left[k - 1]
      BY <2>2, <2>4
    <2>6. k \in 1 .. Len(some) /\ k \in 1 .. Len(ops)
      BY <1>1, <1>2, <2>4
    <2>7. g[k] = ApplyOp(g[k - 1], some[k]) /\ left[k] = ApplyOp(left[k - 1], ops[k])
      BY <1>3, <2>6 DEF Leaves
    <2>. QED BY <1>2, <2>4, <2>5, <2>7
  <1>5. g[n] = left[n]
    BY <1>1, <1>4
  <1>. QED BY <1>3, <1>5 DEF some

(* The list an op applies to. *)
LEMMA BeforeEach ==
    ASSUME NEW list, NEW ops, IsList(ops), NEW left, Leaves(list, ops, left), NEW k \in 1 .. Len(ops)
    PROVE  Before(list, ops, k) = left[k - 1]
  <1>1. k - 1 \in 0 .. Len(ops)
    BY ListShape
  <1>. QED BY <1>1, FirstOps DEF Before

(* Ops make a list of a list, in range or not. *)
LEMMA OpsMakeLists ==
    ASSUME NEW list, IsList(list), NEW ops, AreOps(ops), NEW left, Leaves(list, ops, left)
    PROVE  \A n \in 0 .. Len(ops) : IsList(left[n])
  <1>1. Len(ops) \in Nat /\ DOMAIN ops = 1 .. Len(ops) /\ \A i \in DOMAIN ops : IsOp(ops[i])
    BY ListShape DEF AreOps
  <1>. DEFINE T == {n \in Nat : n <= Len(ops) /\ ~IsList(left[n])}
  <1>2. SUFFICES ASSUME T # {} PROVE FALSE
    BY <1>1
  <1>3. PICK n \in T : \A m \in T : n <= m
    BY <1>2, LeastNat
  <1>4. n # 0
    BY DEF Leaves
  <1>5. n \in 1 .. Len(ops) /\ n - 1 \in Nat /\ n - 1 <= Len(ops) /\ ~(n <= n - 1)
    BY <1>1, <1>4
  <1>6. IsList(left[n - 1])
    BY <1>3, <1>5
  <1>7. left[n] = ApplyOp(left[n - 1], ops[n])
    BY <1>5 DEF Leaves
  <1>. QED BY <1>1, <1>5, <1>6, <1>7, OpMakesList

(* So does an edit (apply_ops). *)
LEMMA EditMakesList ==
    ASSUME NEW list, IsList(list), NEW ops, AreOps(ops)
    PROVE  IsList(ApplyOps(list, ops)) /\ \A k \in DOMAIN ops : IsList(Before(list, ops, k))
  <1>1. IsList(ops) /\ Len(ops) \in Nat /\ DOMAIN ops = 1 .. Len(ops)
    BY ListShape DEF AreOps
  <1>2. PICK left : Leaves(list, ops, left) /\ ApplyOps(list, ops) = left[Len(ops)]
    BY <1>1, OneByOne
  <1>3. \A n \in 0 .. Len(ops) : IsList(left[n])
    BY <1>2, OpsMakeLists
  <1>4. ASSUME NEW k \in DOMAIN ops PROVE IsList(Before(list, ops, k))
    <2>1. k \in 1 .. Len(ops) /\ k - 1 \in 0 .. Len(ops)
      BY <1>1
    <2>. QED BY <1>1, <1>2, <1>3, <2>1, BeforeEach
  <1>. QED BY <1>1, <1>2, <1>3, <1>4

-----------------------------------------------------------------------------
(***************************************************************************)
(* What an op does with a list depends on its length alone: each place of  *)
(* the result is taken from a place of the list, or of the op's items,     *)
(* counted downwards.                                                      *)
(***************************************************************************)
Pick(list, items, k) == IF k > 0 THEN list[k] ELSE items[-k]

\* Where a splice of m items after at takes the i-th from.
SpliceAt(at, m, i) == IF i <= at THEN i ELSE IF i <= at + m THEN at - i ELSE i - m

(* Every place of a splice is taken from a place of one of both lists. *)
LEMMA SplicePlaces ==
    ASSUME NEW L \in Nat, NEW m \in Nat, NEW at \in 0 .. L
    PROVE  \A i \in 1 .. L + m : /\ SpliceAt(at, m, i) \in Int
                                 /\ \/ SpliceAt(at, m, i) > 0 /\ SpliceAt(at, m, i) \in 1 .. L
                                    \/ ~(SpliceAt(at, m, i) > 0) /\ -SpliceAt(at, m, i) \in 1 .. m
  BY DEF SpliceAt

(* The i-th item of a splice. *)
LEMMA SplicedPick ==
    ASSUME NEW list, IsList(list), NEW items, IsList(items), NEW at \in 0 .. Len(list)
    PROVE  Spliced(list, at, items) =
             [i \in 1 .. Len(list) + Len(items) |-> Pick(list, items, SpliceAt(at, Len(items), i))]
  <1>. DEFINE L == Len(list)
              m == Len(items)
  <1>1. L \in Nat /\ m \in Nat /\ at \in 0 .. L
    BY ListShape
  <1>2. Spliced(list, at, items) =
          [i \in 1 .. L + m |-> IF i <= at THEN list[i]
                                ELSE IF i <= at + m THEN items[i - at] ELSE list[i - m]]
    BY DEF Spliced
  <1>. HIDE DEF L, m
  <1>3. ASSUME NEW i \in 1 .. L + m
        PROVE  Pick(list, items, SpliceAt(at, m, i)) =
                 IF i <= at THEN list[i] ELSE IF i <= at + m THEN items[i - at] ELSE list[i - m]
    <2>1. CASE i <= at
      BY <1>1, <2>1 DEF Pick, SpliceAt
    <2>2. CASE ~(i <= at) /\ i <= at + m
      <3>1. SpliceAt(at, m, i) = at - i /\ ~(at - i > 0) /\ -(at - i) = i - at
        BY <1>1, <2>2 DEF SpliceAt
      <3>. QED BY <2>2, <3>1 DEF Pick
    <2>3. CASE ~(i <= at) /\ ~(i <= at + m)
      <3>1. SpliceAt(at, m, i) = i - m /\ i - m > 0
        BY <1>1, <2>3 DEF SpliceAt
      <3>. QED BY <2>3, <3>1 DEF Pick
    <2>. QED BY <2>1, <2>2, <2>3
  <1>4. Spliced(list, at, items) = [i \in 1 .. L + m |-> Pick(list, items, SpliceAt(at, m, i))]
    BY <1>2, <1>3
  <1>. QED BY <1>4 DEF L, m

\* src has where each of the n places of what op makes of a list of length L is taken from.
Arranges(op, L, n, src) ==
    /\ n \in Nat /\ src \in [1 .. n -> Int]
    /\ \A i \in 1 .. n : \/ src[i] > 0 /\ src[i] \in 1 .. L
                         \/ ~(src[i] > 0) /\ -src[i] \in 1 .. Len(op.items)
    /\ \A list, items :
          IsList(list) /\ Len(list) = L /\ IsList(items) /\ Len(items) = Len(op.items)
            => ApplyOp(list, [op EXCEPT !.items = items])
                 = [i \in 1 .. n |-> Pick(list, items, src[i])]

(* An op in range rearranges (apply_op). *)
LEMMA OpArranges ==
    ASSUME NEW op, IsOp(op), NEW list, IsList(list), InRange(list, op)
    PROVE  \E n, src : Arranges(op, Len(list), n, src)
  <1>. DEFINE L == Len(list)
              m == Len(op.items)
              D == 1 .. L
              S == op.positions
              With(items) == [op EXCEPT !.items = items]
  <1>1. /\ L \in Nat /\ DOMAIN list = D /\ m \in Nat /\ op.at \in Nat
        /\ op.op \in {"append", "add", "remove", "move"} /\ S \in SUBSET Int /\ IsFiniteSet(S)
    BY ListShape DEF IsOp
  <1>2. \A items : /\ With(items).op = op.op /\ With(items).at = op.at
                   /\ With(items).positions = op.positions /\ With(items).items = items
    BY DEF IsOp
  <1>. HIDE DEF L, m, With
  <1>3. CASE op.op \in {"append", "add"}
    <2>. DEFINE at == IF op.op = "append" THEN L ELSE op.at
                src == [i \in 1 .. L + m |-> SpliceAt(at, m, i)]
    <2>1. at \in 0 .. L
      <3>1. op.op = "add" => op.at <= L
        BY DEF InRange, L
      <3>2. CASE op.op = "append"
        BY <1>1, <3>2
      <3>3. CASE op.op = "add"
        BY <1>1, <3>1, <3>3
      <3>. QED BY <1>3, <3>2, <3>3
    <2>. HIDE DEF at
    <2>2. /\ L + m \in Nat /\ src \in [1 .. L + m -> Int]
          /\ \A i \in 1 .. L + m : \/ src[i] > 0 /\ src[i] \in 1 .. L
                                   \/ ~(src[i] > 0) /\ -src[i] \in 1 .. m
      BY <1>1, <2>1, SplicePlaces
    <2>3. ASSUME NEW l, NEW items, IsList(l), Len(l) = L, IsList(items), Len(items) = m
          PROVE  ApplyOp(l, With(items)) = [i \in 1 .. L + m |-> Pick(l, items, src[i])]
      <3>1. ApplyOp(l, With(items)) = Spliced(l, at, items)
        BY <1>2, <1>3, <2>3 DEF ApplyOp, at
      <3>2. Spliced(l, at, items) = [i \in 1 .. L + m |-> Pick(l, items, SpliceAt(at, m, i))]
        BY <2>1, <2>3, SplicedPick
      <3>. QED BY <3>1, <3>2
    <2>. HIDE DEF src
    <2>4. Arranges(op, L, L + m, src)
      BY <2>2, <2>3 DEF Arranges, m, With
    <2>. QED BY <2>4 DEF L
  <1>4. CASE op.op = "remove"
    <2>. DEFINE R == D \ S
                n == Cardinality(R)
                src == Ascending(R)
    <2>1. R \in SUBSET Int /\ IsFiniteSet(R)
      BY <1>1, Positions
    <2>2. n \in Nat /\ src \in [1 .. n -> R]
      BY <2>1, AscendingIsByRank
    <2>3. ASSUME NEW l, NEW items, IsList(l), Len(l) = L, IsList(items)
          PROVE  ApplyOp(l, With(items)) = [i \in 1 .. n |-> Pick(l, items, src[i])]
      <3>1. DOMAIN l = D
        BY <2>3, ListShape
      <3>2. ApplyOp(l, With(items)) = Taken(l, R)
        BY <1>2, <1>4, <3>1 DEF ApplyOp, Without
      <3>3. Taken(l, R) = [i \in 1 .. n |-> l[src[i]]]
        BY <2>1, TakenShape
      <3>4. \A i \in 1 .. n : src[i] \in D /\ src[i] > 0
        <4>. HIDE DEF src, n
        <4>1. \A i \in 1 .. n : src[i] \in D
          BY <2>2
        <4>2. \A d \in D : d > 0
          BY <1>1
        <4>. QED BY <4>1, <4>2
      <3>. HIDE DEF src, n
      <3>5. [i \in 1 .. n |-> l[src[i]]] = [i \in 1 .. n |-> Pick(l, items, src[i])]
        BY <3>4 DEF Pick
      <3>. QED BY <3>2, <3>3, <3>5
    <2>. HIDE DEF src, n
    <2>4. \A i \in 1 .. n : src[i] \in Int /\ src[i] > 0 /\ src[i] \in 1 .. L
      <3>1. \A i \in 1 .. n : src[i] \in D
        BY <2>2
      <3>2. \A d \in D : d \in Int /\ d > 0
        BY <1>1
      <3>. QED BY <3>1, <3>2
    <2>5. src \in [1 .. n -> Int]
      BY <2>2, <2>4
    <2>6. Arranges(op, L, n, src)
      BY <2>2, <2>3, <2>4, <2>5 DEF Arranges, m, With
    <2>. QED BY <2>6 DEF L
  <1>5. CASE op.op = "move"
    <2>. DEFINE R == D \ S
                r == Cardinality(R)
                s == Cardinality(S)
                rest == Ascending(R)
                taken == Ascending(S)
                at == op.at
                src == [i \in 1 .. r + s |-> Pick(rest, taken, SpliceAt(at, s, i))]
    <2>1. R \in SUBSET Int /\ IsFiniteSet(R) /\ S \subseteq D
      BY <1>1, <1>5, Positions DEF InRange
    <2>2. r \in Nat /\ rest \in [1 .. r -> R] /\ s \in Nat /\ taken \in [1 .. s -> S]
      BY <1>1, <2>1, AscendingIsByRank
    <2>3. at \in 0 .. r
      <3>1. IsFiniteSet(D) /\ Cardinality(D) = L
        BY <1>1, FS_Interval
      <3>2. r = L - s
        <4>1. D \cap S = S
          BY <2>1
        <4>2. Cardinality(D \ S) = Cardinality(D) - Cardinality(D \cap S)
          <5>. HIDE DEF D
          <5>. QED BY <1>1, <3>1, FS_Difference
        <4>. QED BY <3>1, <4>1, <4>2
      <3>3. at \in Nat /\ at <= L - s
        BY <1>1, <1>5 DEF InRange, L
      <3>. HIDE DEF r, s, at
      <3>. QED BY <2>2, <3>2, <3>3
    <2>. DEFINE k(i) == SpliceAt(at, s, i)
    <2>4. /\ \A i \in 1 .. r + s : \/ k(i) > 0 /\ k(i) \in 1 .. r
                                   \/ ~(k(i) > 0) /\ -k(i) \in 1 .. s
          /\ \A i \in 1 .. r + s : k(i) \in Int
      <3>. HIDE DEF r, s, at
      <3>. QED BY <2>2, <2>3, SplicePlaces
    <2>5. ASSUME NEW l, NEW items, IsList(l), Len(l) = L, IsList(items)
          PROVE  ApplyOp(l, With(items)) = [i \in 1 .. r + s |-> Pick(l, items, src[i])]
      <3>1. DOMAIN l = D
        BY <2>5, ListShape
      <3>. DEFINE a == Taken(l, R)
                  b == Taken(l, S)
      <3>2. ApplyOp(l, With(items)) = Spliced(a, at, b)
        BY <1>2, <1>5, <3>1 DEF ApplyOp, Without
      <3>3. /\ a = [i \in 1 .. r |-> l[rest[i]]] /\ IsList(a) /\ Len(a) = r
            /\ b = [i \in 1 .. s |-> l[taken[i]]] /\ IsList(b) /\ Len(b) = s
        BY <1>1, <2>1, TakenShape
      <3>. HIDE DEF a, b, r, s, at
      <3>4. Spliced(a, at, b) = [i \in 1 .. r + s |-> Pick(a, b, k(i))]
        <4>1. IsList(a) /\ IsList(b) /\ at \in 0 .. Len(a)
          BY <2>3, <3>3
        <4>2. Spliced(a, at, b) = [i \in 1 .. Len(a) + Len(b) |-> Pick(a, b, SpliceAt(at, Len(b), i))]
          BY <4>1, SplicedPick
        <4>. QED BY <3>3, <4>2
      <3>. HIDE DEF k
      <3>5. ASSUME NEW i \in 1 .. r + s PROVE Pick(a, b, k(i)) = Pick(l, items, src[i])
        <4>1. src[i] = Pick(rest, taken, k(i))
          BY DEF k
        <4>. HIDE DEF src, rest, taken
        <4>2. CASE k(i) > 0
          <5>1. k(i) \in 1 .. r /\ src[i] = rest[k(i)]
            BY <2>4, <4>1, <4>2 DEF Pick
          <5>2. src[i] \in D /\ src[i] > 0
            BY <1>1, <2>2, <5>1
          <5>. QED BY <3>3, <4>2, <5>1, <5>2 DEF Pick
        <4>3. CASE ~(k(i) > 0)
          <5>1. -k(i) \in 1 .. s /\ src[i] = taken[-k(i)]
            BY <2>4, <4>1, <4>3 DEF Pick
          <5>2. src[i] \in D /\ src[i] > 0
            BY <1>1, <2>1, <2>2, <5>1
          <5>. QED BY <3>3, <4>3, <5>1, <5>2 DEF Pick
        <4>. QED BY <4>2, <4>3
      <3>. HIDE DEF src
      <3>. QED BY <3>2, <3>4, <3>5
    <2>. HIDE DEF r, s, at, rest, taken
    <2>6. \A i \in 1 .. r + s : src[i] = Pick(rest, taken, k(i))
      OBVIOUS
    <2>7. ASSUME NEW i \in 1 .. r + s
          PROVE  src[i] \in Int /\ src[i] > 0 /\ src[i] \in 1 .. L
      <3>. HIDE DEF src, k
      <3>1. CASE k(i) > 0
        <4>1. src[i] \in R
          BY <2>2, <2>4, <2>6, <3>1 DEF Pick
        <4>. QED BY <1>1, <4>1
      <3>2. CASE ~(k(i) > 0)
        <4>1. src[i] \in S
          BY <2>2, <2>4, <2>6, <3>2 DEF Pick
        <4>. QED BY <1>1, <2>1, <4>1
      <3>. QED BY <3>1, <3>2
    <2>8. r + s \in Nat /\ src \in [1 .. r + s -> Int]
      BY <2>2, <2>7
    <2>. HIDE DEF src
    <2>9. Arranges(op, L, r + s, src)
      BY <2>5, <2>7, <2>8 DEF Arranges, m, With
    <2>. QED BY <2>9 DEF L
  <1>. QED BY <1>1, <1>3, <1>4, <1>5

-----------------------------------------------------------------------------
(***************************************************************************)
(* The items with their keys (Stored, Unstored).                           *)
(***************************************************************************)
Tracks(l) == [i \in DOMAIN l |-> l[i].track]

\* Each item is one added, or one of the rows rw under its key.
Keyed(l, rw) ==
    /\ IsList(l)
    /\ \A i \in DOMAIN l :
          \/ l[i].key = {}
          \/ \E k \in DOMAIN rw : l[i].key = {k} /\ l[i].track = rw[k]

(* What a list's tracks are a list of. *)
LEMMA TracksShape ==
    ASSUME NEW l, IsList(l)
    PROVE  IsList(Tracks(l)) /\ Len(Tracks(l)) = Len(l) /\ DOMAIN Tracks(l) = DOMAIN l
  <1>1. Len(l) \in Nat /\ DOMAIN l = 1 .. Len(l)
    BY ListShape
  <1>2. Tracks(l) = [i \in 1 .. Len(l) |-> Tracks(l)[i]]
    BY <1>1 DEF Tracks
  <1>3. IsList(Tracks(l)) /\ Len(Tracks(l)) = Len(l)
    BY <1>1, <1>2, ListOf
  <1>. QED BY <1>3 DEF Tracks

(* What an edit adds has no key. *)
LEMMA UnstoredShape ==
    ASSUME NEW items, IsList(items)
    PROVE  /\ IsList(Unstored(items)) /\ Len(Unstored(items)) = Len(items)
           /\ \A i \in 1 .. Len(items) : Unstored(items)[i] = [key |-> {}, track |-> items[i]]
  <1>1. Len(items) \in Nat /\ DOMAIN items = 1 .. Len(items)
    BY ListShape
  <1>2. Unstored(items) = [i \in 1 .. Len(items) |-> Unstored(items)[i]]
    BY <1>1 DEF Unstored
  <1>3. IsList(Unstored(items)) /\ Len(Unstored(items)) = Len(items)
    BY <1>1, <1>2, ListOf
  <1>. QED BY <1>1, <1>3 DEF Unstored

(* An op in range does the same to the items with their keys and to the    *)
(* tracks alone.                                                           *)
LEMMA OpKeepsKeys ==
    ASSUME NEW l, NEW rw, Keyed(l, rw), NEW op, IsOp(op), InRange(Tracks(l), op)
    PROVE  LET after == ApplyOp(l, [op EXCEPT !.items = Unstored(op.items)])
           IN  Keyed(after, rw) /\ Tracks(after) = ApplyOp(Tracks(l), op)
  <1>. DEFINE t == Tracks(l)
              items == op.items
              new == Unstored(items)
              after == ApplyOp(l, [op EXCEPT !.items = new])
              L == Len(l)
              m == Len(items)
  <1>1. IsList(l) /\ L \in Nat /\ DOMAIN l = 1 .. L /\ IsList(t) /\ Len(t) = L /\ DOMAIN t = 1 .. L
    BY ListShape, TracksShape DEF Keyed
  <1>2. IsList(items) /\ m \in Nat /\ DOMAIN items = 1 .. m
    BY ListShape DEF IsOp
  <1>3. IsList(new) /\ Len(new) = m /\ \A i \in 1 .. m : new[i] = [key |-> {}, track |-> items[i]]
    BY <1>2, UnstoredShape
  <1>4. PICK n, src : Arranges(op, L, n, src)
    <2>. HIDE DEF L, t
    <2>. QED BY <1>1, OpArranges DEF t
  <1>5. op = [op EXCEPT !.items = items]
    BY DEF IsOp
  <1>6. after = [i \in 1 .. n |-> Pick(l, new, src[i])]
    <2>. HIDE DEF L, m, new, items
    <2>1. \A a, b : IsList(a) /\ Len(a) = L /\ IsList(b) /\ Len(b) = Len(op.items)
                      => ApplyOp(a, [op EXCEPT !.items = b]) = [i \in 1 .. n |-> Pick(a, b, src[i])]
      BY <1>4 DEF Arranges
    <2>2. Len(new) = Len(op.items)
      BY <1>3 DEF m, items
    <2>. QED BY <1>1, <1>3, <2>1, <2>2
  <1>7. ApplyOp(t, op) = [i \in 1 .. n |-> Pick(t, items, src[i])]
    <2>. HIDE DEF L, m, t
    <2>1. \A a, b : IsList(a) /\ Len(a) = L /\ IsList(b) /\ Len(b) = Len(op.items)
                      => ApplyOp(a, [op EXCEPT !.items = b]) = [i \in 1 .. n |-> Pick(a, b, src[i])]
      BY <1>4 DEF Arranges
    <2>2. ApplyOp(t, [op EXCEPT !.items = items]) = [i \in 1 .. n |-> Pick(t, items, src[i])]
      BY <1>1, <1>2, <2>1
    <2>. QED BY <1>5, <2>2
  <1>8. /\ n \in Nat
        /\ \A i \in 1 .. n : \/ src[i] > 0 /\ src[i] \in 1 .. L
                             \/ ~(src[i] > 0) /\ -src[i] \in 1 .. m
    BY <1>4 DEF Arranges
  <1>9. IsList(after) /\ Len(after) = n /\ DOMAIN after = 1 .. n
    <2>1. after = [i \in 1 .. n |-> after[i]]
      BY <1>6
    <2>. HIDE DEF after
    <2>. QED BY <1>8, <2>1, ListOf
  <1>10. \A i \in 1 .. n : \/ src[i] \in 1 .. L /\ after[i] = l[src[i]]
                           \/ -src[i] \in 1 .. m /\ after[i] = [key |-> {}, track |-> items[-src[i]]]
    <2>. HIDE DEF after, L, m, new, items
    <2>. QED BY <1>3, <1>6, <1>8 DEF Pick
  <1>11. Tracks(after) = ApplyOp(t, op)
    <2>1. Tracks(after) = [i \in 1 .. n |-> after[i].track]
      BY <1>9 DEF Tracks
    <2>. HIDE DEF after, L, m, new, items
    <2>2. ASSUME NEW i \in 1 .. n PROVE after[i].track = Pick(t, items, src[i])
      <3>1. CASE src[i] > 0 /\ src[i] \in 1 .. L
        <4>1. after[i] = l[src[i]]
          BY <1>6, <3>1 DEF Pick
        <4>. QED BY <1>1, <3>1, <4>1 DEF Pick, Tracks
      <3>2. CASE ~(src[i] > 0) /\ -src[i] \in 1 .. m
        <4>1. after[i] = new[-src[i]]
          BY <1>6, <3>2 DEF Pick
        <4>2. Pick(t, items, src[i]) = items[-src[i]]
          BY <3>2 DEF Pick
        <4>. QED BY <1>3, <3>2, <4>1, <4>2
      <3>. QED BY <1>8, <3>1, <3>2
    <2>. HIDE DEF t
    <2>. QED BY <1>7, <2>1, <2>2
  <1>12. ASSUME NEW i \in 1 .. n
         PROVE  \/ after[i].key = {}
                \/ \E k \in DOMAIN rw : after[i].key = {k} /\ after[i].track = rw[k]
    <2>. HIDE DEF after, L, m, items
    <2>1. CASE src[i] \in 1 .. L /\ after[i] = l[src[i]]
      BY <1>1, <2>1 DEF Keyed
    <2>2. CASE after[i] = [key |-> {}, track |-> items[-src[i]]]
      BY <2>2
    <2>. QED BY <1>10, <2>1, <2>2
  <1>13. Keyed(after, rw)
    <2>. HIDE DEF after
    <2>. QED BY <1>9, <1>12 DEF Keyed
  <1>. QED BY <1>11, <1>13

\* The ops as the plan applies them, to the items with their keys.
KeyedOps(ops) == [i \in DOMAIN ops |-> [ops[i] EXCEPT !.items = Unstored(@)]]

(* An edit in range does the same to the items with their keys and to      *)
(* the tracks alone.                                                       *)
LEMMA EditKeepsKeys ==
    ASSUME NEW l, NEW rw, Keyed(l, rw), NEW ops, AreOps(ops), AllInRange(Tracks(l), ops)
    PROVE  LET after == ApplyOps(l, KeyedOps(ops))
           IN  Keyed(after, rw) /\ Tracks(after) = ApplyOps(Tracks(l), ops)
  <1>. DEFINE t == Tracks(l)
              kops == KeyedOps(ops)
              L == Len(ops)
  <1>1. IsList(ops) /\ L \in Nat /\ DOMAIN ops = 1 .. L /\ \A i \in 1 .. L : IsOp(ops[i])
    BY ListShape DEF AreOps
  <1>2. IsList(kops) /\ Len(kops) = L
    <2>1. kops = [i \in 1 .. L |-> kops[i]]
      BY <1>1 DEF KeyedOps
    <2>. HIDE DEF kops, L
    <2>. QED BY <1>1, <2>1, ListOf
  <1>3. \A i \in 1 .. L : kops[i] = [ops[i] EXCEPT !.items = Unstored(ops[i].items)]
    BY <1>1 DEF KeyedOps
  <1>. HIDE DEF kops, L, t
  <1>4. PICK with : Leaves(l, kops, with) /\ ApplyOps(l, kops) = with[L]
    BY <1>2, OneByOne
  <1>5. PICK plain : Leaves(t, ops, plain) /\ ApplyOps(t, ops) = plain[L]
    BY <1>1, OneByOne DEF L
  <1>6. \A k \in 1 .. L : InRange(plain[k - 1], ops[k])
    <2>1. \A k \in 1 .. L : InRange(Before(t, ops, k), ops[k])
      BY <1>1 DEF AllInRange, t
    <2>2. \A k \in 1 .. L : Before(t, ops, k) = plain[k - 1]
      BY <1>1, <1>5, BeforeEach DEF L
    <2>. QED BY <2>1, <2>2
  <1>7. with[0] = l /\ \A k \in 1 .. L : with[k] = ApplyOp(with[k - 1], kops[k])
    BY <1>2, <1>4 DEF Leaves
  <1>8. plain[0] = t /\ \A k \in 1 .. L : plain[k] = ApplyOp(plain[k - 1], ops[k])
    BY <1>5 DEF Leaves, L
  <1>. DEFINE Good(k) == Keyed(with[k], rw) /\ Tracks(with[k]) = plain[k]
              T == {k \in Nat : k <= L /\ ~Good(k)}
  <1>9. T = {}
    <2>1. SUFFICES ASSUME T # {} PROVE FALSE
      OBVIOUS
    <2>2. PICK k \in T : \A h \in T : k <= h
      BY <2>1, LeastNat
    <2>3. k # 0
      BY <1>7, <1>8 DEF t
    <2>4. k \in 1 .. L /\ k - 1 \in Nat /\ k - 1 <= L /\ ~(k <= k - 1)
      BY <1>1, <2>3
    <2>5. Good(k - 1)
      BY <2>2, <2>4
    <2>. DEFINE one == ops[k]
                prev == with[k - 1]
    <2>6. IsOp(one) /\ InRange(Tracks(prev), one)
      BY <1>1, <1>6, <2>4, <2>5
    <2>. HIDE DEF one, prev
    <2>7. /\ Keyed(ApplyOp(prev, [one EXCEPT !.items = Unstored(one.items)]), rw)
          /\ Tracks(ApplyOp(prev, [one EXCEPT !.items = Unstored(one.items)]))
                = ApplyOp(Tracks(prev), one)
      BY <2>5, <2>6, OpKeepsKeys DEF prev
    <2>8. with[k] = ApplyOp(prev, [one EXCEPT !.items = Unstored(one.items)])
      BY <1>3, <1>7, <2>4 DEF prev, one
    <2>9. plain[k] = ApplyOp(Tracks(prev), one)
      BY <1>8, <2>4, <2>5 DEF prev, one
    <2>. QED BY <2>7, <2>8, <2>9
  <1>10. Good(L)
    BY <1>1, <1>9
  <1>. QED BY <1>4, <1>5, <1>10 DEF t, kops

-----------------------------------------------------------------------------
(* The rows, with their keys and without. *)
LEMMA StoredShape ==
    ASSUME DOMAIN rows \subseteq Int, IsFiniteSet(DOMAIN rows)
    PROVE  Keyed(Stored(Keys), rows) /\ Tracks(Stored(Keys)) = Listed(rows)
           /\ DOMAIN Keys = 1 .. Cardinality(DOMAIN rows) /\ Len(Stored(Keys)) = Cardinality(DOMAIN rows)
           /\ IsList(Listed(rows)) /\ Len(Listed(rows)) = Cardinality(DOMAIN rows)
  <1>. DEFINE D == DOMAIN rows
              n == Cardinality(D)
              s == Stored(Keys)
  <1>1. n \in Nat /\ Keys \in [1 .. n -> D]
    BY AscendingIsByRank DEF Keys
  <1>. HIDE DEF n, D
  <1>2. s = [i \in 1 .. n |-> [key |-> {Keys[i]}, track |-> rows[Keys[i]]]]
    BY <1>1 DEF Stored
  <1>3. s = [i \in 1 .. n |-> s[i]]
    BY <1>2
  <1>4. IsList(s) /\ Len(s) = n /\ DOMAIN s = 1 .. n
    <2>. HIDE DEF s
    <2>. QED BY <1>1, <1>3, ListOf
  <1>5. \A i \in 1 .. n : /\ s[i].key = {Keys[i]} /\ s[i].track = rows[Keys[i]] /\ Keys[i] \in D
    BY <1>1, <1>2
  <1>6. Keyed(s, rows)
    <2>. HIDE DEF s
    <2>. QED BY <1>4, <1>5 DEF Keyed, D
  <1>7. Listed(rows) = [i \in 1 .. n |-> rows[Keys[i]]]
    BY <1>1 DEF Listed, Keys, D
  <1>8. Tracks(s) = Listed(rows)
    <2>. HIDE DEF s
    <2>. QED BY <1>4, <1>5, <1>7 DEF Tracks
  <1>9. IsList(Listed(rows)) /\ Len(Listed(rows)) = n
    <2>. HIDE DEF s
    <2>. QED BY <1>4, <1>8, TracksShape
  <1>. QED BY <1>1, <1>4, <1>6, <1>8, <1>9 DEF n, D

(* What an edit in range makes of the rows with their keys (plan). *)
LEMMA PlannedList ==
    ASSUME DOMAIN rows \subseteq Int, IsFiniteSet(DOMAIN rows), NEW ops, AreOps(ops),
           AllInRange(Listed(rows), ops)
    PROVE  LET after == ApplyOps(Stored(Keys), KeyedOps(ops))
           IN  Keyed(after, rows) /\ Tracks(after) = ApplyOps(Listed(rows), ops)
  BY StoredShape, EditKeepsKeys

-----------------------------------------------------------------------------
(***************************************************************************)
(* A longest run of increasing keys (keys.rs, longest_increasing).         *)
(***************************************************************************)
(* A set of integers below a bound has a greatest one. *)
LEMMA Greatest ==
    ASSUME NEW T \in SUBSET Nat, T # {}, NEW b \in Nat, \A x \in T : x <= b
    PROVE  Max(T) \in T /\ \A x \in T : x <= Max(T)
  <1>. DEFINE U == {u \in Nat : \A x \in T : x <= u}
  <1>1. PICK u \in U : \A v \in U : u <= v
    <2>1. b \in U
      OBVIOUS
    <2>. QED BY <2>1, LeastNat
  <1>2. u \in T
    <2>1. SUFFICES ASSUME u \notin T PROVE FALSE
      OBVIOUS
    <2>2. \A x \in T : x <= u /\ x # u /\ x \in Nat
      BY <1>1, <2>1
    <2>3. u # 0 /\ u - 1 \in Nat
      <3>1. PICK x \in T : TRUE
        OBVIOUS
      <3>2. x \in Nat /\ x <= u /\ x # u /\ u \in Nat
        BY <2>2, <3>1
      <3>. QED BY <3>2
    <2>4. \A x \in T : x <= u - 1
      BY <1>1, <2>2
    <2>5. u - 1 \in U
      BY <2>3, <2>4
    <2>. QED BY <1>1, <2>3, <2>5
  <1>3. \A x \in T : u >= x
    BY <1>1
  <1>4. Max(T) \in T /\ \A x \in T : Max(T) >= x
    BY <1>2, <1>3 DEF Max
  <1>. QED BY <1>4

(* A set of natural numbers has a least one. *)
LEMMA Least ==
    ASSUME NEW T \in SUBSET Nat, T # {}
    PROVE  Min(T) \in T /\ \A x \in T : Min(T) <= x
  <1>1. \E x \in T : \A y \in T : x =< y
    BY LeastNat
  <1>. QED BY <1>1 DEF Min

(* A set of the first numbers has as many as it reaches. *)
LEMMA FirstNumbers ==
    ASSUME NEW L \in Nat, NEW T \in SUBSET (1 .. L), \A x \in T : \A y \in 1 .. x : y \in T
    PROVE  Cardinality(T) \in 0 .. L /\ T = 1 .. Cardinality(T)
  <1>1. CASE T = {}
    <2>1. Cardinality(T) = 0
      BY <1>1, FS_EmptySet
    <2>. QED BY <1>1, <2>1
  <1>2. CASE T # {}
    <2>. DEFINE m == Max(T)
    <2>1. m \in T /\ \A x \in T : x <= m
      <3>1. T \in SUBSET Nat /\ \A x \in T : x <= L
        OBVIOUS
      <3>. HIDE DEF m
      <3>. QED BY <1>2, <3>1, Greatest DEF m
    <2>. HIDE DEF m
    <2>2. T = 1 .. m
      <3>1. ASSUME NEW x \in T PROVE x \in 1 .. m
        <4>1. x \in 1 .. L /\ m \in 1 .. L /\ x <= m
          BY <2>1
        <4>. QED BY <4>1
      <3>2. \A y \in 1 .. m : y \in T
        BY <2>1
      <3>. QED BY <3>1, <3>2
    <2>3. Cardinality(1 .. m) = m
      BY <2>1, FS_Interval
    <2>. QED BY <2>1, <2>2, <2>3
  <1>. QED BY <1>1, <1>2

\* R is a run of increasing keys that ends at i.
EndsRun(stored, R, i) ==
    /\ R \subseteq DOMAIN stored /\ i \in R
    /\ \A p \in R : p <= i /\ stored[p] <= stored[i]
    /\ \A p, q \in R : p < q => stored[p] < stored[q]

\* What is known of the runs so far, to the positions in done.
RunsSoFar(stored, s, done) ==
    /\ s = [tails |-> s.tails, runs |-> s.runs]
    /\ Len(s.tails) \in Nat /\ s.tails \in [1 .. Len(s.tails) -> done] /\ s.tails \in Seq(done)
    /\ \A m, o \in 1 .. Len(s.tails) : m < o => stored[s.tails[m]] < stored[s.tails[o]]
    /\ DOMAIN s.runs = DOMAIN stored
    /\ \A i \in done : IsList(s.runs[i]) /\ EndsRun(stored, ToSet(s.runs[i]), i)

(* The items of a list, and one more. *)
LEMMA OneMore ==
    ASSUME NEW list, IsList(list), NEW i
    PROVE  IsList(Append(list, i)) /\ ToSet(Append(list, i)) = ToSet(list) \cup {i}
  <1>. DEFINE T == {list[k] : k \in DOMAIN list}
              U == T \cup {i}
              more == Append(list, i)
              L == Len(list)
  <1>1. list \in Seq(T) /\ L \in Nat /\ DOMAIN list = 1 .. L
    BY ListShape DEF IsList
  <1>2. list \in Seq(U) /\ i \in U
    <2>1. T \subseteq U
      OBVIOUS
    <2>. HIDE DEF T, U
    <2>2. Seq(T) \subseteq Seq(U)
      BY <2>1
    <2>. QED BY <1>1, <2>2 DEF U
  <1>. HIDE DEF T, U, L
  <1>3. /\ more \in Seq(U) /\ Len(more) = L + 1
        /\ \A k \in 1 .. L : more[k] = list[k]
        /\ more[L + 1] = i
    BY <1>1, <1>2 DEF L
  <1>. HIDE DEF more
  <1>4. DOMAIN more = 1 .. L + 1
    BY <1>3
  <1>5. IsList(more)
    BY <1>3, OwnElements
  <1>6. {more[k] : k \in 1 .. L + 1} = {list[k] : k \in 1 .. L} \cup {i}
    <2>1. \A k \in 1 .. L + 1 : k \in 1 .. L \/ k = L + 1
      BY <1>1
    <2>2. \A k \in 1 .. L : k \in 1 .. L + 1
      BY <1>1
    <2>3. L + 1 \in 1 .. L + 1
      BY <1>1
    <2>. QED BY <1>3, <2>1, <2>2, <2>3
  <1>. QED BY <1>1, <1>4, <1>5, <1>6 DEF ToSet, more, L

(* One more position (longest_increasing's loop). *)
LEMMA RunsGoOn ==
    ASSUME NEW stored, DOMAIN stored \subseteq Int, \A i \in DOMAIN stored : stored[i] \in Int,
           NEW done \in SUBSET DOMAIN stored, NEW i \in DOMAIN stored, \A p \in done : p < i,
           NEW s, RunsSoFar(stored, s, done)
    PROVE  RunsSoFar(stored, Extended(stored, s, i), done \cup {i})
  <1>. DEFINE tails == s.tails
              runs == s.runs
              L == Len(tails)
              T == {m \in DOMAIN tails : Extends(stored[tails[m]], stored[i])}
              n == Cardinality(T)
              tails2 == IF n = L THEN Append(tails, i) ELSE [tails EXCEPT ![n + 1] = i]
              run == Append(IF n = 0 THEN <<>> ELSE runs[tails[n]], i)
              runs2 == [runs EXCEPT ![i] = run]
              more == done \cup {i}
  <1>1. Extended(stored, s, i) = [tails |-> tails2, runs |-> runs2]
    BY DEF Extended
  <1>2. /\ L \in Nat /\ tails \in [1 .. L -> done] /\ tails \in Seq(done)
        /\ \A m, o \in 1 .. L : m < o => stored[tails[m]] < stored[tails[o]]
        /\ DOMAIN runs = DOMAIN stored
        /\ \A p \in done : IsList(runs[p]) /\ EndsRun(stored, ToSet(runs[p]), p)
    BY DEF RunsSoFar
  <1>. HIDE DEF tails, runs, L
  <1>3. \A m \in 1 .. L : tails[m] \in done /\ stored[tails[m]] \in Int
    BY <1>2
  <1>4. T = {m \in 1 .. L : stored[tails[m]] < stored[i]}
    BY <1>2 DEF Extends
  <1>5. n \in 0 .. L /\ T = 1 .. n
    <2>1. ASSUME NEW x \in T, NEW y \in 1 .. x PROVE y \in T
      <3>1. x \in 1 .. L /\ y \in 1 .. L /\ (y = x \/ y < x)
        BY <1>2, <1>4
      <3>2. stored[tails[x]] < stored[i] /\ stored[i] \in Int
        BY <1>4
      <3>3. stored[tails[y]] \in Int /\ stored[tails[x]] \in Int
        BY <1>3, <3>1
      <3>4. y < x => stored[tails[y]] < stored[tails[x]]
        BY <1>2, <3>1
      <3>. HIDE DEF T
      <3>5. stored[tails[y]] < stored[i]
        BY <3>1, <3>2, <3>3, <3>4
      <3>. QED BY <1>4, <3>1, <3>5
    <2>2. T \in SUBSET (1 .. L)
      BY <1>4
    <2>. HIDE DEF T
    <2>. QED BY <1>2, <2>1, <2>2, FirstNumbers
  <1>. HIDE DEF n
  <1>6. /\ \A m \in 1 .. n : stored[tails[m]] < stored[i]
        /\ \A m \in 1 .. L : m > n => stored[i] <= stored[tails[m]]
    <2>1. \A m \in 1 .. n : stored[tails[m]] < stored[i]
      <3>. HIDE DEF T
      <3>. QED BY <1>4, <1>5
    <2>2. ASSUME NEW m \in 1 .. L, m > n PROVE stored[i] <= stored[tails[m]]
      <3>1. m \notin T
        <4>. HIDE DEF T
        <4>. QED BY <1>2, <1>5, <2>2
      <3>2. ~(stored[tails[m]] < stored[i])
        <4>. HIDE DEF T
        <4>. QED BY <1>4, <3>1
      <3>3. stored[tails[m]] \in Int /\ stored[i] \in Int
        BY <1>3
      <3>. QED BY <3>2, <3>3
    <2>. QED BY <2>1, <2>2
  <1>. HIDE DEF T
  <1>. DEFINE L2 == IF n = L THEN L + 1 ELSE L
  <1>7. /\ Len(tails2) = L2 /\ L2 \in Nat /\ tails2 \in [1 .. L2 -> more] /\ tails2 \in Seq(more)
        /\ \A m \in 1 .. L2 : tails2[m] = IF m = n + 1 THEN i ELSE tails[m]
        /\ n + 1 \in 1 .. L2
    <2>1. n \in Nat /\ n + 1 \in 1 .. L2 /\ L2 \in Nat
      BY <1>2, <1>5
    <2>2. tails \in Seq(more) /\ i \in more /\ Len(tails) = L /\ DOMAIN tails = 1 .. L
      <3>1. tails \in Seq(more)
        <4>1. done \subseteq more
          OBVIOUS
        <4>. HIDE DEF more
        <4>2. Seq(done) \subseteq Seq(more)
          BY <4>1
        <4>. QED BY <1>2, <4>2
      <3>. QED BY <1>2, <3>1 DEF L
    <2>. HIDE DEF more
    <2>3. CASE n = L
      <3>1. tails2 = Append(tails, i) /\ L2 = L + 1
        BY <2>3
      <3>. HIDE DEF tails2, L2
      <3>2. tails2 \in Seq(more) /\ Len(tails2) = L + 1
            /\ (\A m \in 1 .. L : tails2[m] = tails[m]) /\ tails2[L + 1] = i
        BY <2>2, <3>1
      <3>3. tails2 \in [1 .. L2 -> more]
        <4>1. Len(tails2) = L2
          BY <3>1, <3>2
        <4>2. tails2 \in [1 .. Len(tails2) -> more]
          BY <3>2
        <4>. QED BY <4>1, <4>2
      <3>4. ASSUME NEW m \in 1 .. L2 PROVE tails2[m] = IF m = n + 1 THEN i ELSE tails[m]
        <4>1. m = L + 1 \/ (m \in 1 .. L /\ m # L + 1)
          BY <1>2, <3>1
        <4>. QED BY <2>3, <3>2, <4>1
      <3>. QED BY <2>1, <3>1, <3>2, <3>3, <3>4
    <2>4. CASE n # L
      <3>1. tails2 = [tails EXCEPT ![n + 1] = i] /\ L2 = L
        BY <2>4
      <3>. HIDE DEF tails2, L2
      <3>2. tails \in [1 .. L -> more]
        BY <2>2
      <3>3. tails2 \in [1 .. L2 -> more]
            /\ \A m \in 1 .. L2 : tails2[m] = IF m = n + 1 THEN i ELSE tails[m]
        BY <2>2, <3>1, <3>2
      <3>4. tails2 \in Seq(more) /\ Len(tails2) = L
        <4>1. tails2 \in Seq(more)
          <5>1. tails2 \in [1 .. L -> more] /\ L \in Nat
            BY <1>2, <3>1, <3>3
          <5>. QED BY <5>1, SeqDef
        <4>2. DOMAIN tails2 = 1 .. L /\ L \in Nat
          BY <1>2, <3>1, <3>3
        <4>3. Len(tails2) \in Nat /\ DOMAIN tails2 = 1 .. Len(tails2)
          BY <4>1
        <4>4. Len(tails2) = L
          BY <4>2, <4>3
        <4>. QED BY <4>1, <4>4
      <3>. QED BY <2>1, <3>1, <3>3, <3>4
    <2>. QED BY <2>3, <2>4
  <1>. HIDE DEF tails2, L2
  <1>8. ASSUME NEW m \in 1 .. L2, NEW o \in 1 .. L2, m < o
        PROVE  stored[tails2[m]] < stored[tails2[o]]
    <2>1. n \in Nat /\ \A k \in 1 .. L2 : k # n + 1 => k \in 1 .. L
      BY <1>2, <1>5 DEF L2
    <2>2. stored[i] \in Int
      OBVIOUS
    <2>3. CASE m = n + 1
      <3>1. o # n + 1 /\ o \in 1 .. L /\ o > n /\ n + 1 \in 1 .. L /\ n + 1 < o /\ n + 1 > n
        BY <1>2, <1>8, <2>1, <2>3
      <3>2. tails2[m] = i /\ tails2[o] = tails[o]
        BY <1>7, <2>3, <3>1
      <3>3. stored[i] <= stored[tails[n + 1]] /\ stored[tails[n + 1]] < stored[tails[o]]
        BY <1>2, <1>6, <3>1
      <3>4. stored[tails[n + 1]] \in Int /\ stored[tails[o]] \in Int
        BY <1>3, <3>1
      <3>. QED BY <2>2, <3>2, <3>3, <3>4
    <2>4. CASE o = n + 1
      <3>1. m \in 1 .. n /\ m # n + 1
        BY <1>8, <2>1, <2>4
      <3>2. tails2[o] = i /\ tails2[m] = tails[m]
        BY <1>7, <2>4, <3>1
      <3>. QED BY <1>6, <3>1, <3>2
    <2>5. CASE m # n + 1 /\ o # n + 1
      <3>1. m \in 1 .. L /\ o \in 1 .. L
        BY <2>1, <2>5
      <3>2. tails2[m] = tails[m] /\ tails2[o] = tails[o]
        BY <1>7, <2>5
      <3>. QED BY <1>2, <1>8, <3>1, <3>2
    <2>. QED BY <2>3, <2>4, <2>5
  <1>9. IsList(run) /\ EndsRun(stored, ToSet(run), i)
    <2>. DEFINE was == IF n = 0 THEN <<>> ELSE runs[tails[n]]
                R == ToSet(was)
    <2>1. /\ IsList(was) /\ R \subseteq DOMAIN stored
          /\ \A p \in R : p < i /\ stored[p] < stored[i]
          /\ \A p, q \in R : p < q => stored[p] < stored[q]
      <3>1. CASE n = 0
        <4>1. was = <<>> /\ R = {}
          BY <3>1 DEF ToSet
        <4>2. IsList(was)
          <5>. DEFINE U == {was[k] : k \in DOMAIN was}
          <5>. HIDE DEF was, U
          <5>1. was \in Seq(U)
            BY <4>1
          <5>. QED BY <5>1 DEF U, IsList
        <4>. HIDE DEF was, R
        <4>. QED BY <4>1, <4>2
      <3>2. CASE n # 0
        <4>. DEFINE t == tails[n]
        <4>1. was = runs[t] /\ n \in 1 .. n /\ n \in 1 .. L
          BY <1>2, <1>5, <3>2
        <4>2. t \in done /\ stored[t] < stored[i] /\ t < i
          BY <1>3, <1>6, <4>1
        <4>. HIDE DEF t, was
        <4>3. IsList(was) /\ EndsRun(stored, R, t)
          BY <1>2, <4>1, <4>2
        <4>. HIDE DEF R
        <4>4. R \subseteq DOMAIN stored /\ \A p, q \in R : p < q => stored[p] < stored[q]
          BY <4>3 DEF EndsRun
        <4>5. ASSUME NEW p \in R PROVE p < i /\ stored[p] < stored[i]
          <5>1. p <= t /\ stored[p] <= stored[t]
            BY <4>3 DEF EndsRun
          <5>2. p \in Int /\ t \in Int /\ i \in Int /\ stored[p] \in Int /\ stored[t] \in Int
                /\ stored[i] \in Int
            BY <4>2, <4>4
          <5>. QED BY <4>2, <5>1, <5>2
        <4>. QED BY <4>3, <4>4, <4>5
      <3>. QED BY <3>1, <3>2
    <2>. HIDE DEF was
    <2>2. run = Append(was, i)
      BY DEF was
    <2>3. IsList(run) /\ ToSet(run) = R \cup {i}
      BY <2>1, <2>2, OneMore
    <2>. HIDE DEF R, run
    <2>4. /\ \A p \in R \cup {i} : p <= i /\ stored[p] <= stored[i]
          /\ \A p, q \in R \cup {i} : p < q => stored[p] < stored[q]
      <3>1. i \in Int /\ stored[i] \in Int /\ \A p \in R : p \in Int /\ stored[p] \in Int
        BY <2>1
      <3>2. ASSUME NEW p \in R \cup {i} PROVE p <= i /\ stored[p] <= stored[i]
        BY <2>1, <3>1
      <3>3. ASSUME NEW p \in R \cup {i}, NEW q \in R \cup {i}, p < q PROVE stored[p] < stored[q]
        BY <2>1, <3>1, <3>3
      <3>. QED BY <3>2, <3>3
    <2>. QED BY <2>1, <2>3, <2>4 DEF EndsRun
  <1>. HIDE DEF run
  <1>10. /\ DOMAIN runs2 = DOMAIN stored
         /\ \A p \in more : IsList(runs2[p]) /\ EndsRun(stored, ToSet(runs2[p]), p)
    <2>1. runs2[i] = run /\ \A p \in DOMAIN stored : p # i => runs2[p] = runs[p]
      BY <1>2
    <2>2. DOMAIN runs2 = DOMAIN stored
      BY <1>2
    <2>. HIDE DEF runs2
    <2>3. ASSUME NEW p \in more PROVE IsList(runs2[p]) /\ EndsRun(stored, ToSet(runs2[p]), p)
      <3>1. CASE p = i
        BY <1>9, <2>1, <3>1
      <3>2. CASE p # i
        <4>1. p \in done /\ runs2[p] = runs[p]
          BY <2>1, <3>2
        <4>. QED BY <1>2, <4>1
      <3>. QED BY <3>1, <3>2
    <2>. QED BY <2>2, <2>3
  <1>. HIDE DEF runs2, more
  <1>. QED BY <1>1, <1>7, <1>8, <1>10 DEF RunsSoFar, more

(* Ascending ascends. *)
LEMMA AscendingAscends ==
    ASSUME NEW S \in SUBSET Int, IsFiniteSet(S)
    PROVE  \A i, j \in 1 .. Cardinality(S) : i < j => Ascending(S)[i] < Ascending(S)[j]
  <1>. DEFINE n == Cardinality(S)
  <1>1. ASSUME NEW i \in 1 .. n, NEW j \in 1 .. n, i < j
        PROVE  Ascending(S)[i] < Ascending(S)[j]
    <2>. DEFINE p == Ascending(S)[i]
                q == Ascending(S)[j]
    <2>1. p \in S /\ q \in S /\ Rank(S, p) = i /\ Rank(S, q) = j
      BY AscendingIsByRank
    <2>. HIDE DEF p, q
    <2>2. p < q <=> Rank(S, p) < Rank(S, q)
      BY <2>1, RanksAscend
    <2>. QED BY <1>1, <2>1, <2>2 DEF p, q
  <1>. QED BY <1>1

\* What is seen of the runs, position by position.
SeesRuns(stored, present, seen) ==
    /\ seen[0] = [tails |-> <<>>, runs |-> [i \in DOMAIN stored |-> <<>>]]
    /\ \A n \in 1 .. Len(present) : seen[n] = Extended(stored, seen[n - 1], present[n])

(* LongestRun goes through the positions one by one. *)
LEMMA RunByRun ==
    ASSUME NEW stored, Len(Ascending(DOMAIN stored)) \in Nat
    PROVE  LET present == Ascending(DOMAIN stored)
           IN  \E seen : SeesRuns(stored, present, seen)
                         /\ LongestRun(stored) = LongestOf(seen[Len(present)])
  <1>. DEFINE present == Ascending(DOMAIN stored)
              L == Len(present)
              first == [tails |-> <<>>, runs |-> [i \in DOMAIN stored |-> <<>>]]
              F(g, n) == IF n = 0 THEN first ELSE Extended(stored, g[n - 1], present[n])
              P(n) == \E g : g = [k \in 0 .. n |-> F(g, k)]
  <1>1. L \in Nat
    OBVIOUS
  <1>. HIDE DEF present, first
  <1>2. P(0)
    <2>. DEFINE g == [k \in 0 .. 0 |-> first]
    <2>1. g = [k \in 0 .. 0 |-> F(g, k)]
      OBVIOUS
    <2>. QED BY <2>1
  <1>3. ASSUME NEW n \in Nat, P(n) PROVE P(n + 1)
    <2>1. PICK g : g = [k \in 0 .. n |-> F(g, k)]
      BY <1>3
    <2>. DEFINE h == [k \in 0 .. n + 1 |->
                        IF k = n + 1 THEN Extended(stored, g[n], present[n + 1]) ELSE g[k]]
    <2>2. ASSUME NEW k \in 0 .. n PROVE h[k] = F(h, k)
      <3>1. h[k] = g[k] /\ g[k] = F(g, k)
        BY <2>1
      <3>2. k # 0 => k - 1 \in 0 .. n /\ h[k - 1] = g[k - 1]
        OBVIOUS
      <3>. QED BY <3>1, <3>2
    <2>3. h[n + 1] = F(h, n + 1)
      OBVIOUS
    <2>4. \A k \in 0 .. n + 1 : h[k] = F(h, k)
      <3>1. \A k \in 0 .. n + 1 : k \in 0 .. n \/ k = n + 1
        OBVIOUS
      <3>. HIDE DEF h, F
      <3>. QED BY <2>2, <2>3, <3>1
    <2>. QED BY <2>4
  <1>4. P(L)
    <2>. HIDE DEF P, L
    <2>. DEFINE T == {n \in Nat : ~P(n)}
    <2>1. SUFFICES ASSUME T # {} PROVE FALSE
      BY <1>1
    <2>2. PICK n \in T : \A k \in T : n <= k
      BY <2>1, LeastNat
    <2>3. n # 0 /\ n - 1 \in Nat /\ n - 1 \notin T
      BY <1>2, <2>2
    <2>4. P((n - 1) + 1)
      BY <1>3, <2>3
    <2>. QED BY <2>2, <2>3, <2>4
  <1>. DEFINE seen == CHOOSE g : g = [k \in 0 .. L |-> F(g, k)]
  <1>5. seen = [k \in 0 .. L |-> F(seen, k)]
    BY <1>4
  <1>6. LongestRun(stored) = LongestOf(seen[L])
    BY DEF LongestRun, present, first
  <1>. HIDE DEF seen, P
  <1>7. seen[0] = first /\ \A n \in 1 .. L : seen[n] = Extended(stored, seen[n - 1], present[n])
    BY <1>1, <1>5
  <1>8. SeesRuns(stored, present, seen)
    BY <1>7 DEF SeesRuns, first
  <1>. QED BY <1>6, <1>8 DEF present

(* The keys of a longest run increase (keys.rs, longest_increasing). *)
LEMMA LongestAscends ==
    ASSUME NEW stored, DOMAIN stored \subseteq Int, IsFiniteSet(DOMAIN stored),
           \A i \in DOMAIN stored : stored[i] \in Int
    PROVE  /\ LongestRun(stored) \subseteq DOMAIN stored
           /\ \A p, q \in LongestRun(stored) : p < q => stored[p] < stored[q]
  <1>. DEFINE D == DOMAIN stored
              present == Ascending(D)
              c == Cardinality(D)
              L == Len(present)
              done(n) == {present[j] : j \in 1 .. n}
  <1>1. c \in Nat /\ present \in [1 .. c -> D] /\ \A i, j \in 1 .. c : i < j => present[i] < present[j]
    BY AscendingIsByRank, AscendingAscends
  <1>. HIDE DEF D, c, present
  <1>2. L = c
    <2>1. present = [i \in 1 .. c |-> present[i]]
      BY <1>1
    <2>. QED BY <1>1, <2>1, ListOf
  <1>. HIDE DEF L
  <1>3. PICK seen : SeesRuns(stored, present, seen) /\ LongestRun(stored) = LongestOf(seen[L])
    <2>1. Len(Ascending(DOMAIN stored)) \in Nat
      BY <1>1, <1>2 DEF present, L, D
    <2>. QED BY <2>1, RunByRun DEF present, L, D
  <1>4. /\ seen[0] = [tails |-> <<>>, runs |-> [i \in D |-> <<>>]]
        /\ \A n \in 1 .. c : seen[n] = Extended(stored, seen[n - 1], present[n])
    BY <1>2, <1>3 DEF SeesRuns, D, L
  <1>5. RunsSoFar(stored, seen[0], {})
    <2>1. seen[0].tails = <<>> /\ seen[0].runs = [i \in D |-> <<>>]
          /\ seen[0] = [tails |-> seen[0].tails, runs |-> seen[0].runs]
      BY <1>4
    <2>2. Len(<<>>) = 0 /\ 1 .. 0 = {} /\ <<>> \in [1 .. 0 -> {}] /\ <<>> \in Seq({})
      OBVIOUS
    <2>. QED BY <2>1, <2>2 DEF RunsSoFar, D
  <1>. DEFINE T == {n \in Nat : n <= c /\ ~RunsSoFar(stored, seen[n], done(n))}
  <1>6. T = {}
    <2>1. SUFFICES ASSUME T # {} PROVE FALSE
      OBVIOUS
    <2>. HIDE DEF done
    <2>2. PICK n \in T : \A k \in T : n <= k
      BY <2>1, LeastNat
    <2>3. n # 0
      <3>1. done(0) = {}
        BY DEF done
      <3>. QED BY <1>5, <3>1
    <2>4. n \in 1 .. c /\ n - 1 \in Nat /\ n - 1 <= c /\ ~(n <= n - 1)
      BY <1>1, <2>3
    <2>5. RunsSoFar(stored, seen[n - 1], done(n - 1))
      BY <2>2, <2>4
    <2>6. /\ done(n - 1) \in SUBSET D /\ present[n] \in D
          /\ \A p \in done(n - 1) : p < present[n]
      <3>1. \A j \in 1 .. n - 1 : j \in 1 .. c /\ j < n
        BY <1>1, <2>4
      <3>. QED BY <1>1, <2>4, <3>1 DEF done
    <2>7. done(n) = done(n - 1) \cup {present[n]}
      <3>1. 1 .. n = (1 .. n - 1) \cup {n}
        BY <2>4
      <3>. QED BY <3>1 DEF done
    <2>8. RunsSoFar(stored, Extended(stored, seen[n - 1], present[n]), done(n - 1) \cup {present[n]})
      BY <2>5, <2>6, RunsGoOn DEF D
    <2>. QED BY <1>4, <2>2, <2>4, <2>7, <2>8
  <1>7. RunsSoFar(stored, seen[c], done(c))
    <2>. HIDE DEF done
    <2>. QED BY <1>1, <1>6
  <1>. DEFINE s == seen[c]
  <1>8. LongestRun(stored) = LongestOf(s)
    BY <1>2, <1>3
  <1>. HIDE DEF s
  <1>9. CASE s.tails = <<>>
    BY <1>8, <1>9 DEF LongestOf
  <1>10. CASE s.tails # <<>>
    <2>. DEFINE t == s.tails
    <2>1. t \in Seq(done(c)) /\ t # <<>>
      BY <1>7, <1>10 DEF RunsSoFar, s
    <2>2. Last(t) \in done(c)
      <3>. HIDE DEF t, done
      <3>1. Len(t) \in 1 .. Len(t) /\ DOMAIN t = 1 .. Len(t)
        BY <2>1
      <3>. QED BY <2>1, <3>1 DEF Last
    <2>3. EndsRun(stored, ToSet(s.runs[Last(t)]), Last(t))
      BY <1>7, <2>2 DEF RunsSoFar, s
    <2>4. LongestRun(stored) = ToSet(s.runs[Last(t)])
      BY <1>8, <1>10 DEF LongestOf
    <2>. QED BY <2>3, <2>4 DEF EndsRun
  <1>. QED BY <1>9, <1>10

-----------------------------------------------------------------------------
(* Rows under ascending keys, listed (Listed). *)
LEMMA ListedBy ==
    ASSUME NEW n \in Nat, NEW key \in [1 .. n -> Int], \A i, j \in 1 .. n : i < j => key[i] < key[j],
           NEW rw, DOMAIN rw = {key[i] : i \in 1 .. n}
    PROVE  /\ DOMAIN rw \subseteq Int /\ IsFiniteSet(DOMAIN rw)
           /\ Listed(rw) = [i \in 1 .. n |-> rw[key[i]]]
  <1>. DEFINE D == DOMAIN rw
  <1>1. ASSUME NEW m \in 0 .. n
        PROVE  IsFiniteSet({key[i] : i \in 1 .. m}) /\ Cardinality({key[i] : i \in 1 .. m}) = m
    <2>. DEFINE S == {key[i] : i \in 1 .. m}
                f == [i \in 1 .. m |-> key[i]]
    <2>1. IsFiniteSet(1 .. m) /\ Cardinality(1 .. m) = m
      BY FS_Interval
    <2>2. f \in [1 .. m -> S] /\ \A y \in S : \E x \in 1 .. m : f[x] = y
      OBVIOUS
    <2>3. \A x, y \in 1 .. m : f[x] = f[y] => x = y
      <3>1. ASSUME NEW x \in 1 .. m, NEW y \in 1 .. m, f[x] = f[y] PROVE x = y
        <4>1. x \in 1 .. n /\ y \in 1 .. n /\ key[x] = key[y] /\ key[x] \in Int
          BY <3>1
        <4>2. x < y \/ y < x \/ x = y
          OBVIOUS
        <4>. QED BY <4>1, <4>2
      <3>. QED BY <3>1
    <2>. HIDE DEF f, S
    <2>4. f \in Bijection(1 .. m, S)
      BY <2>2, <2>3 DEF Bijection, Injection, Surjection, IsInjective
    <2>. QED BY <2>1, <2>4, FS_Bijection DEF ExistsBijection, S
  <1>2. D \subseteq Int /\ IsFiniteSet(D) /\ Cardinality(D) = n
    <2>1. n \in 0 .. n
      OBVIOUS
    <2>. QED BY <1>1, <2>1
  <1>3. ASSUME NEW i \in 1 .. n PROVE Ascending(D)[i] = key[i]
    <2>1. key[i] \in D
      OBVIOUS
    <2>2. {q \in D : q <= key[i]} = {key[j] : j \in 1 .. i}
      <3>1. ASSUME NEW j \in 1 .. n PROVE key[j] <= key[i] <=> j <= i
        <4>1. key[j] \in Int /\ key[i] \in Int /\ (j < i \/ i < j \/ i = j)
          OBVIOUS
        <4>2. (j < i => key[j] < key[i]) /\ (i < j => key[i] < key[j])
          OBVIOUS
        <4>3. j <= i <=> ~(i < j)
          OBVIOUS
        <4>. QED BY <4>1, <4>2, <4>3
      <3>2. \A j \in 1 .. i : j \in 1 .. n /\ j <= i
        OBVIOUS
      <3>3. \A j \in 1 .. n : j <= i => j \in 1 .. i
        OBVIOUS
      <3>. QED BY <3>1, <3>2, <3>3
    <2>3. i \in 0 .. n
      OBVIOUS
    <2>4. Rank(D, key[i]) = i
      BY <1>1, <2>2, <2>3 DEF Rank
    <2>. HIDE DEF D
    <2>. QED BY <1>2, <2>1, <2>4, AscendingIsByRank
  <1>4. Listed(rw) = [i \in 1 .. n |-> rw[key[i]]]
    <2>1. DOMAIN Ascending(D) = 1 .. n
      <3>. HIDE DEF D
      <3>. QED BY <1>2, AscendingIsByRank
    <2>. QED BY <1>3, <2>1 DEF Listed
  <1>. QED BY <1>2, <1>4

(* Items under keys spaced evenly are listed as they are (Spaced). *)
LEMMA SpacedListed ==
    ASSUME NEW items, IsList(items)
    PROVE  /\ DOMAIN Spaced(items) \subseteq Int /\ IsFiniteSet(DOMAIN Spaced(items))
           /\ Listed(Spaced(items)) = items
  <1>. DEFINE n == Len(items)
              key == [i \in 1 .. n |-> KeyGap * i]
              rw == Spaced(items)
  <1>1. KeyGap \in Nat \ {0} /\ n \in Nat /\ DOMAIN items = 1 .. n /\ items = [i \in 1 .. n |-> items[i]]
    BY PlaylistAssumption, ListShape
  <1>. HIDE DEF n
  <1>2. key \in [1 .. n -> Int] /\ \A i, j \in 1 .. n : i < j => key[i] < key[j]
    <2>1. \A i \in 1 .. n : KeyGap * i \in Int
      BY <1>1
    <2>2. ASSUME NEW i \in 1 .. n, NEW j \in 1 .. n, i < j PROVE KeyGap * i < KeyGap * j
      BY <1>1, <2>2
    <2>. QED BY <2>1, <2>2
  <1>3. DOMAIN rw = {key[i] : i \in 1 .. n}
    BY <1>1 DEF Spaced
  <1>4. ASSUME NEW i \in 1 .. n PROVE rw[key[i]] = items[i]
    <2>1. (KeyGap * i) \div KeyGap = i
      BY <1>1
    <2>2. rw[KeyGap * i] = items[(KeyGap * i) \div KeyGap]
      BY <1>1 DEF Spaced
    <2>. QED BY <2>1, <2>2
  <1>. HIDE DEF key, rw
  <1>5. /\ DOMAIN rw \subseteq Int /\ IsFiniteSet(DOMAIN rw)
        /\ Listed(rw) = [i \in 1 .. n |-> rw[key[i]]]
    <2>1. n \in Nat
      BY <1>1
    <2>. QED BY ONLY <1>2, <1>3, <2>1, ListedBy
  <1>6. Listed(rw) = items
    BY <1>1, <1>4, <1>5
  <1>. QED BY <1>5, <1>6 DEF rw

-----------------------------------------------------------------------------
(***************************************************************************)
(* The keys of an edited list (keys.rs, assign).                           *)
(***************************************************************************)
(* Neighbours ascend, so all do. *)
LEMMA NeighboursAscend ==
    ASSUME NEW n \in Nat, NEW key \in [1 .. n -> Int],
           \A i \in 1 .. n : i + 1 \in 1 .. n => key[i] < key[i + 1]
    PROVE  \A i, j \in 1 .. n : i < j => key[i] < key[j]
  <1>1. SUFFICES ASSUME NEW i \in 1 .. n, NEW o \in 1 .. n, i < o, ~(key[i] < key[o]) PROVE FALSE
    OBVIOUS
  <1>. DEFINE T == {j \in Nat : j \in 1 .. n /\ i < j /\ ~(key[i] < key[j])}
  <1>2. PICK j \in T : \A k \in T : j <= k
    <2>1. T \in SUBSET Nat /\ o \in T
      BY <1>1
    <2>. HIDE DEF T
    <2>. QED BY <2>1, LeastNat
  <1>3. j - 1 \in 1 .. n /\ i <= j - 1 /\ (j - 1) + 1 = j /\ ~(j <= j - 1) /\ j - 1 \in Nat
    OBVIOUS
  <1>4. key[j - 1] < key[j]
    BY <1>3
  <1>5. key[i] \in Int /\ key[j] \in Int /\ key[j - 1] \in Int
    BY <1>3
  <1>6. i = j - 1 \/ i < j - 1
    BY <1>3
  <1>7. i < j - 1 => key[i] < key[j - 1]
    BY <1>2, <1>3
  <1>. QED BY <1>4, <1>5, <1>6, <1>7

(* What Step leaves room for. *)
LEMMA StepFits ==
    ASSUME NEW low \in Int, NEW high \in Int, NEW below \in Int, NEW above \in Int, above - below > 1
    PROVE  LET step == Step(low, high, above - below - 1)
           IN  step \in Int /\ step * (above - below) <= high - low
  <1>. DEFINE c == above - below
              h == high - low
              step == Step(low, high, c - 1)
  <1>1. c \in Nat \ {0} /\ h \in Int /\ (c - 1) + 1 = c
    OBVIOUS
  <1>2. step = h \div c
    BY <1>1 DEF Step
  <1>. HIDE DEF c, h, step
  <1>3. (h \div c) \in Int /\ (h \div c) * c <= h
    BY <1>1
  <1>. QED BY <1>2, <1>3 DEF c, h, step

(* The keys around those that stay ascend. *)
LEMMA KeysAscend ==
    ASSUME NEW count \in Nat, NEW stored, NEW kept \in SUBSET (1 .. count),
           \A i \in kept : stored[i] \in Int,
           \A i, j \in kept : i < j => stored[i] < stored[j],
           NEW key \in AssignAround(stored, kept, count, KeyGap)
    PROVE  key \in [1 .. count -> Int] /\ \A i, j \in 1 .. count : i < j => key[i] < key[j]
  <1>. DEFINE below == [i \in 1 .. count |-> Max({k \in kept : k < i} \cup {0})]
              above == [i \in 1 .. count |-> Min({k \in kept : k > i} \cup {count + 1})]
              gap == KeyGap
              StepAt(i) == Step(stored[below[i]], stored[above[i]], above[i] - below[i] - 1)
              Between == {i \in DOMAIN below \ kept : below[i] \in kept /\ above[i] \in kept}
  <1>1. gap \in Nat /\ gap > 0
    BY PlaylistAssumption
  <1>0. \A k \in kept : k \in Nat /\ k \in Int /\ k <= count
    OBVIOUS
  <1>2. ASSUME NEW i \in 1 .. count
        PROVE  /\ below[i] \in kept \cup {0} /\ below[i] < i /\ below[i] \in Nat
               /\ \A k \in kept : k < i => k <= below[i]
    <2>. DEFINE T == {k \in kept : k < i} \cup {0}
    <2>0. ASSUME NEW x \in T PROVE x \in Nat /\ x <= count
      <3>1. CASE x = 0
        BY <3>1
      <3>2. CASE x \in kept
        BY <1>0, <3>2
      <3>. QED BY <3>1, <3>2
    <2>1. T \in SUBSET Nat /\ 0 \in T /\ \A x \in T : x <= count
      <3>1. 0 \in T
        OBVIOUS
      <3>. HIDE DEF T
      <3>. QED BY <2>0, <3>1
    <2>2. Max(T) \in T /\ \A x \in T : x <= Max(T)
      <3>. HIDE DEF T
      <3>. QED BY <2>1, Greatest
    <2>3. below[i] = Max(T)
      OBVIOUS
    <2>. HIDE DEF below
    <2>4. below[i] \in T /\ \A x \in T : x <= below[i]
      <3>. HIDE DEF T
      <3>. QED BY <2>2, <2>3
    <2>5. below[i] \in kept \cup {0} /\ below[i] < i
      <3>1. CASE below[i] = 0
        BY <3>1
      <3>2. CASE below[i] \in kept /\ below[i] < i
        BY <3>2
      <3>. QED BY <2>4, <3>1, <3>2
    <2>6. \A k \in kept : k < i => k <= below[i]
      <3>1. \A k \in kept : k < i => k \in T
        OBVIOUS
      <3>. HIDE DEF T
      <3>. QED BY <2>4, <3>1
    <2>. HIDE DEF T
    <2>. QED BY <2>0, <2>4, <2>5, <2>6
  <1>3. ASSUME NEW i \in 1 .. count
        PROVE  /\ above[i] \in kept \cup {count + 1} /\ above[i] > i /\ above[i] \in Nat
               /\ \A k \in kept : k > i => above[i] <= k
    <2>. DEFINE T == {k \in kept : k > i} \cup {count + 1}
    <2>0. ASSUME NEW x \in T PROVE x \in Nat
      <3>1. CASE x = count + 1
        BY <3>1
      <3>2. CASE x \in kept
        BY <1>0, <3>2
      <3>. QED BY <3>1, <3>2
    <2>1. T \in SUBSET Nat /\ count + 1 \in T
      <3>1. count + 1 \in T
        OBVIOUS
      <3>. HIDE DEF T
      <3>. QED BY <2>0, <3>1
    <2>2. Min(T) \in T /\ \A x \in T : Min(T) <= x
      <3>. HIDE DEF T
      <3>. QED BY <2>1, Least
    <2>3. above[i] = Min(T)
      OBVIOUS
    <2>. HIDE DEF above
    <2>4. above[i] \in T /\ \A x \in T : above[i] <= x
      <3>. HIDE DEF T
      <3>. QED BY <2>2, <2>3
    <2>5. above[i] \in kept \cup {count + 1} /\ above[i] > i
      <3>1. CASE above[i] = count + 1
        BY <3>1
      <3>2. CASE above[i] \in kept /\ above[i] > i
        BY <3>2
      <3>. QED BY <2>4, <3>1, <3>2
    <2>6. \A k \in kept : k > i => above[i] <= k
      <3>1. \A k \in kept : k > i => k \in T
        OBVIOUS
      <3>. HIDE DEF T
      <3>. QED BY <2>4, <3>1
    <2>. HIDE DEF T
    <2>. QED BY <2>0, <2>4, <2>5, <2>6
  <1>4. 0 \notin kept /\ count + 1 \notin kept
    OBVIOUS
  <1>5. /\ DOMAIN below = 1 .. count
        /\ DOMAIN key = 1 .. count
        /\ \A i \in Between : ~(StepAt(i) < 1)
        /\ key = [i \in 1 .. count |->
                    CASE i \in kept -> stored[i]
                      [] i \in Between -> stored[below[i]] + StepAt(i) * (i - below[i])
                      [] i \notin kept /\ below[i] \in kept /\ above[i] \notin kept ->
                            stored[below[i]] + gap * (i - below[i])
                      [] i \notin kept /\ below[i] \notin kept /\ above[i] \in kept ->
                            stored[above[i]] - gap * (above[i] - i)
                      [] kept = {} -> gap * i]
    <2>1. DOMAIN below = 1 .. count
      OBVIOUS
    <2>2. key \in KeysAround(stored, kept, below, above, gap)
      BY DEF AssignAround
    <2>. HIDE DEF below, above, gap
    <2>. QED BY <2>1, <2>2 DEF KeysAround
  <1>. HIDE DEF below, above, gap
  <1>6. ASSUME NEW i \in 1 .. count
        PROVE  /\ i \in kept => key[i] = stored[i]
               /\ i \in Between => key[i] = stored[below[i]] + StepAt(i) * (i - below[i])
               /\ i \notin kept /\ below[i] \in kept /\ above[i] \notin kept
                    => key[i] = stored[below[i]] + gap * (i - below[i])
               /\ i \notin kept /\ below[i] \notin kept /\ above[i] \in kept
                    => key[i] = stored[above[i]] - gap * (above[i] - i)
               /\ kept = {} => key[i] = gap * i
    <2>. HIDE DEF StepAt
    <2>1. CASE i \in kept
      BY <1>5, <2>1
    <2>2. CASE i \notin kept /\ below[i] \in kept /\ above[i] \in kept
      BY <1>5, <2>2
    <2>3. CASE i \notin kept /\ below[i] \in kept /\ above[i] \notin kept
      BY <1>5, <2>3
    <2>4. CASE i \notin kept /\ below[i] \notin kept /\ above[i] \in kept
      BY <1>5, <2>4
    <2>5. CASE i \notin kept /\ below[i] \notin kept /\ above[i] \notin kept
      BY <1>5, <2>5
    <2>. QED BY <2>1, <2>2, <2>3, <2>4, <2>5
  <1>7. ASSUME NEW i \in 1 .. count, i \notin kept, below[i] \notin kept, above[i] \notin kept
        PROVE  kept = {}
    <2>1. SUFFICES ASSUME NEW k \in kept PROVE FALSE
      OBVIOUS
    <2>2. k # i /\ k \in 1 .. count
      BY <1>7
    <2>3. below[i] = 0 /\ above[i] = count + 1
      BY <1>2, <1>3, <1>7
    <2>4. k < i \/ k > i
      BY <2>2
    <2>5. (k < i => k <= 0) /\ (k > i => count + 1 <= k)
      BY <1>2, <1>3, <2>3
    <2>. QED BY <2>2, <2>4, <2>5
  <1>8. ASSUME NEW i \in Between
        PROVE  /\ StepAt(i) \in Int /\ StepAt(i) >= 1
               /\ StepAt(i) * (above[i] - below[i]) <= stored[above[i]] - stored[below[i]]
    <2>1. /\ stored[below[i]] \in Int /\ stored[above[i]] \in Int
          /\ below[i] \in Int /\ above[i] \in Int /\ above[i] - below[i] > 1
      <3>1. i \in 1 .. count /\ below[i] \in kept /\ above[i] \in kept
        BY <1>5
      <3>2. below[i] < i /\ above[i] > i /\ below[i] \in Int /\ above[i] \in Int /\ i \in Int
        BY <1>2, <1>3, <3>1
      <3>3. stored[below[i]] \in Int /\ stored[above[i]] \in Int
        BY <3>1
      <3>. QED BY <3>2, <3>3
    <2>2. /\ StepAt(i) \in Int
          /\ StepAt(i) * (above[i] - below[i]) <= stored[above[i]] - stored[below[i]]
      BY <2>1, StepFits
    <2>3. ~(StepAt(i) < 1)
      BY <1>5
    <2>. HIDE DEF StepAt
    <2>. QED BY <2>2, <2>3
  <1>. HIDE DEF StepAt
  <1>9. ASSUME NEW i \in 1 .. count PROVE key[i] \in Int
    <2>0. below[i] \in Int /\ above[i] \in Int /\ gap \in Int
      BY <1>1, <1>2, <1>3
    <2>1. CASE i \in kept
      BY <1>6, <2>1
    <2>2. CASE i \in Between
      BY <1>6, <1>8, <2>0, <2>2
    <2>3. CASE i \notin kept /\ below[i] \in kept /\ above[i] \notin kept
      BY <1>6, <2>0, <2>3
    <2>4. CASE i \notin kept /\ below[i] \notin kept /\ above[i] \in kept
      BY <1>6, <2>0, <2>4
    <2>5. CASE kept = {}
      BY <1>6, <2>0, <2>5
    <2>. QED BY <1>5, <1>7, <2>1, <2>2, <2>3, <2>4, <2>5
  <1>10. key \in [1 .. count -> Int]
    BY <1>5, <1>9
  <1>11. ASSUME NEW i \in 1 .. count, i + 1 \in 1 .. count
         PROVE  key[i] < key[i + 1]
    <2>. DEFINE j == i + 1
    <2>1. j \in 1 .. count /\ i < j /\ j - i = 1 /\ i \in Int /\ j \in Int
      BY <1>11
    <2>2. \A k \in kept : (k < j <=> k < i \/ k = i) /\ (k > i <=> k > j \/ k = j)
      OBVIOUS
    <2>. HIDE DEF j
    <2>0. SUFFICES key[i] < key[j]
      BY DEF j
    <2>3. CASE i \in kept /\ j \in kept
      BY <1>6, <2>1, <2>3
    <2>4. CASE i \in kept /\ j \notin kept
      <3>1. below[j] = i
        <4>1. i <= below[j] /\ below[j] < j /\ below[j] \in Nat
          BY <1>2, <2>1, <2>4
        <4>. QED BY <2>1, <4>1
      <3>2. key[i] = stored[i] /\ stored[i] \in Int
        BY <1>6, <2>4
      <3>3. CASE above[j] \in kept
        <4>1. j \in Between
          BY <1>5, <2>1, <2>4, <3>1, <3>3
        <4>2. key[j] = stored[i] + StepAt(j) * 1
          BY <1>6, <2>1, <3>1, <4>1
        <4>. QED BY <1>8, <3>2, <4>1, <4>2
      <3>4. CASE above[j] \notin kept
        <4>1. key[j] = stored[i] + gap * 1
          BY <1>6, <2>1, <2>4, <3>1, <3>4
        <4>. QED BY <1>1, <3>2, <4>1
      <3>. QED BY <3>3, <3>4
    <2>5. CASE i \notin kept /\ j \in kept
      <3>1. above[i] = j
        <4>1. above[i] <= j /\ above[i] > i /\ above[i] \in Nat
          BY <1>3, <2>1, <2>5
        <4>. QED BY <2>1, <4>1
      <3>2. key[j] = stored[j] /\ stored[j] \in Int
        BY <1>6, <2>1, <2>5
      <3>3. CASE below[i] \in kept
        <4>1. i \in Between
          BY <1>5, <2>5, <3>1, <3>3
        <4>. DEFINE s == StepAt(i)
                    b == below[i]
                    low == stored[b]
                    high == stored[j]
        <4>2. key[i] = low + s * (i - b)
          BY <1>6, <4>1
        <4>3. s \in Int /\ s >= 1 /\ s * (j - b) <= high - low
          BY <1>8, <3>1, <4>1
        <4>6. low \in Int /\ high \in Int /\ b \in Int
          BY <1>2, <3>2, <3>3
        <4>. HIDE DEF s, b, low, high
        <4>4. s * (j - b) = s * (i - b) + s /\ s * (i - b) \in Int
          <5>1. j - b = (i - b) + 1 /\ i - b \in Int
            BY <2>1, <4>6
          <5>. QED BY <4>3, <5>1
        <4>5. low + s * (i - b) < high
          BY <4>3, <4>4, <4>6
        <4>. QED BY <3>2, <4>2, <4>5 DEF high
      <3>4. CASE below[i] \notin kept
        <4>1. key[i] = stored[j] - gap * 1
          BY <1>6, <2>1, <2>5, <3>1, <3>4
        <4>. QED BY <1>1, <3>2, <4>1
      <3>. QED BY <3>3, <3>4
    <2>6. CASE i \notin kept /\ j \notin kept
      <3>1. below[i] = below[j]
        <4>1. \A k \in kept : k < j <=> k < i
          BY <2>2, <2>6
        <4>. HIDE DEF j
        <4>. QED BY <2>1, <4>1 DEF below
      <3>2. above[i] = above[j]
        <4>1. \A k \in kept : k > i <=> k > j
          BY <2>2, <2>6
        <4>. QED BY <2>1, <4>1 DEF above
      <3>. DEFINE b == below[i]
                  a == above[i]
      <3>3. b \in Int /\ a \in Int /\ below[j] = b /\ above[j] = a
        BY <1>2, <1>3, <3>1, <3>2
      <3>4. StepAt(j) = StepAt(i)
        BY <3>1, <3>2 DEF StepAt
      <3>5. i \in Between <=> b \in kept /\ a \in kept
        BY <1>5, <2>6
      <3>6. j \in Between <=> b \in kept /\ a \in kept
        BY <1>5, <2>1, <2>6, <3>3
      <3>. HIDE DEF b, a
      <3>7. CASE b \in kept /\ a \in kept
        <4>. DEFINE s == StepAt(i)
                    low == stored[b]
        <4>1. key[i] = low + s * (i - b) /\ key[j] = low + s * (j - b)
          BY <1>6, <2>1, <3>3, <3>4, <3>5, <3>6, <3>7 DEF b
        <4>2. s \in Int /\ s >= 1 /\ low \in Int
          BY <1>8, <3>5, <3>7
        <4>. HIDE DEF s, low
        <4>3. s * (j - b) = s * (i - b) + s /\ s * (i - b) \in Int
          <5>1. j - b = (i - b) + 1 /\ i - b \in Int
            BY <2>1, <3>3
          <5>. QED BY <4>2, <5>1
        <4>. QED BY <4>1, <4>2, <4>3
      <3>8. CASE b \in kept /\ a \notin kept
        <4>. DEFINE low == stored[b]
        <4>1. key[i] = low + gap * (i - b) /\ key[j] = low + gap * (j - b) /\ low \in Int
          BY <1>6, <2>1, <2>6, <3>3, <3>8 DEF b, a
        <4>. HIDE DEF low
        <4>2. gap * (j - b) = gap * (i - b) + gap /\ gap * (i - b) \in Int
          <5>1. j - b = (i - b) + 1 /\ i - b \in Int
            BY <2>1, <3>3
          <5>. QED BY <1>1, <5>1
        <4>. QED BY <1>1, <4>1, <4>2
      <3>9. CASE b \notin kept /\ a \in kept
        <4>. DEFINE high == stored[a]
        <4>1. key[i] = high - gap * (a - i) /\ key[j] = high - gap * (a - j) /\ high \in Int
          BY <1>6, <2>1, <2>6, <3>3, <3>9 DEF b, a
        <4>. HIDE DEF high
        <4>2. gap * (a - i) = gap * (a - j) + gap /\ gap * (a - j) \in Int
          <5>1. a - i = (a - j) + 1 /\ a - j \in Int
            BY <2>1, <3>3
          <5>. QED BY <1>1, <5>1
        <4>. QED BY <1>1, <4>1, <4>2
      <3>10. CASE b \notin kept /\ a \notin kept
        <4>1. kept = {}
          BY <1>7, <2>6, <3>10 DEF b, a
        <4>2. key[i] = gap * i /\ key[j] = gap * j
          BY <1>6, <2>1, <4>1
        <4>3. gap * j = gap * i + gap /\ gap * i \in Int
          <5>1. j = i + 1
            BY <2>1
          <5>. QED BY <1>1, <2>1, <5>1
        <4>. QED BY <1>1, <4>2, <4>3
      <3>. QED BY <3>7, <3>8, <3>9, <3>10
    <2>. QED BY <2>3, <2>4, <2>5, <2>6
  <1>. QED BY <1>10, <1>11, NeighboursAscend

-----------------------------------------------------------------------------
(***************************************************************************)
(* What the write makes of the rows.                                       *)
(***************************************************************************)
\* The rows a plan leaves.
Written(plan) ==
    [k \in DOMAIN plan.insert \cup (DOMAIN rows \ plan.delete) |->
        IF k \in DOMAIN plan.insert THEN plan.insert[k] ELSE rows[k]]

RowsOk(rw) == DOMAIN rw \subseteq Int /\ IsFiniteSet(DOMAIN rw)

(* Under ascending keys, the rows to delete and insert leave the tracks    *)
(* in order (Plan).                                                        *)
LEMMA PlanUnderKeys ==
    ASSUME NEW after, Keyed(after, rows), NEW keys, keys # {},
           \A key \in keys : /\ key \in [1 .. Len(after) -> Int]
                             /\ \A i, j \in 1 .. Len(after) : i < j => key[i] < key[j]
    PROVE  LET plan == PlanUnder(after, keys)
           IN  /\ DOMAIN plan.insert \cap (DOMAIN rows \ plan.delete) = {}
               /\ RowsOk(Written(plan)) /\ Listed(Written(plan)) = Tracks(after)
  <1>. DEFINE n == Len(after)
              D == DOMAIN rows
              key == CHOOSE k \in keys : TRUE
              moved == {i \in DOMAIN after : after[i].key # {key[i]}}
              stay == UNION {after[i].key : i \in DOMAIN after \ moved}
              ins == [k \in {key[i] : i \in moved} |->
                         after[CHOOSE i \in moved : key[i] = k].track]
              plan == PlanUnder(after, keys)
              new == Written(plan)
  <1>1. n \in Nat /\ DOMAIN after = 1 .. n
    BY ListShape DEF Keyed
  <1>2. key \in [1 .. n -> Int] /\ \A i, j \in 1 .. n : i < j => key[i] < key[j]
    OBVIOUS
  <1>3. plan = [delete |-> D \ stay, insert |-> ins]
    BY DEF PlanUnder
  <1>. HIDE DEF plan, key, n
  <1>4. \A i, j \in 1 .. n : key[i] = key[j] => i = j
    <2>1. ASSUME NEW i \in 1 .. n, NEW j \in 1 .. n, key[i] = key[j] PROVE i = j
      <3>1. (i < j => key[i] < key[j]) /\ (j < i => key[j] < key[i])
        BY <1>2
      <3>2. key[i] \in Int /\ key[j] \in Int
        BY <1>2
      <3>3. ~(i < j) /\ ~(j < i)
        BY <2>1, <3>1, <3>2
      <3>. QED BY <1>1, <3>3
    <2>. QED BY <2>1
  <1>5. \A i \in 1 .. n : i \notin moved <=> after[i].key = {key[i]}
    BY <1>1
  <1>6. moved \subseteq 1 .. n
    BY <1>1
  <1>7. stay = {key[i] : i \in (1 .. n) \ moved}
    BY <1>1, <1>5
  <1>8. ASSUME NEW i \in (1 .. n) \ moved PROVE key[i] \in D /\ after[i].track = rows[key[i]]
    <2>1. after[i].key = {key[i]}
      BY <1>5
    <2>2. PICK k \in D : after[i].key = {k} /\ after[i].track = rows[k]
      BY <1>1, <2>1 DEF Keyed
    <2>. QED BY <2>1, <2>2
  <1>9. stay \subseteq D /\ D \ (D \ stay) = stay
    <2>. HIDE DEF moved, stay
    <2>1. stay \subseteq D
      BY <1>7, <1>8
    <2>. QED BY <2>1
  <1>10. DOMAIN ins = {key[i] : i \in moved} /\ \A i \in moved : ins[key[i]] = after[i].track
    <2>1. DOMAIN ins = {key[i] : i \in moved}
      OBVIOUS
    <2>2. ASSUME NEW i \in moved PROVE ins[key[i]] = after[i].track
      <3>1. ins[key[i]] = after[CHOOSE j \in moved : key[j] = key[i]].track
        OBVIOUS
      <3>. HIDE DEF moved, ins
      <3>2. (CHOOSE j \in moved : key[j] = key[i]) = i
        BY <1>4, <1>6, <2>2
      <3>. QED BY <3>1, <3>2
    <2>. QED BY <2>1, <2>2
  <1>11. plan.delete = D \ stay /\ plan.insert = ins
    BY <1>3
  <1>. HIDE DEF moved, stay, ins
  <1>12. DOMAIN ins \cap stay = {}
    <2>1. SUFFICES ASSUME NEW i \in moved, NEW j \in (1 .. n) \ moved, key[i] = key[j] PROVE FALSE
      BY <1>7, <1>10
    <2>2. i = j
      BY <1>4, <1>6, <2>1
    <2>. QED BY <2>2
  <1>13. DOMAIN plan.insert \cap (DOMAIN rows \ plan.delete) = {}
    BY <1>9, <1>11, <1>12
  <1>14. new = [k \in DOMAIN ins \cup stay |-> IF k \in DOMAIN ins THEN ins[k] ELSE rows[k]]
    BY <1>9, <1>11 DEF Written
  <1>15. DOMAIN new = {key[i] : i \in 1 .. n}
    BY <1>6, <1>7, <1>10, <1>14
  <1>16. ASSUME NEW i \in 1 .. n PROVE new[key[i]] = after[i].track
    <2>1. CASE i \in moved
      BY <1>10, <1>14, <2>1
    <2>2. CASE i \notin moved
      <3>1. key[i] \in stay /\ key[i] \notin DOMAIN ins
        BY <1>7, <1>12, <2>2
      <3>. QED BY <1>8, <1>14, <2>2, <3>1
    <2>. QED BY <2>1, <2>2
  <1>. HIDE DEF new
  <1>17. /\ RowsOk(new)
         /\ Listed(new) = [i \in 1 .. n |-> new[key[i]]]
    BY ONLY <1>1, <1>2, <1>15, ListedBy DEF RowsOk
  <1>18. Listed(new) = Tracks(after)
    BY <1>1, <1>16, <1>17 DEF Tracks
  <1>. QED BY <1>13, <1>17, <1>18 DEF new, plan

(* Renumbered, the rows have the tracks in order (Plan). *)
LEMMA PlanRenumbers ==
    ASSUME NEW after, IsList(after)
    PROVE  LET plan == PlanUnder(after, {})
           IN  /\ DOMAIN plan.insert \cap (DOMAIN rows \ plan.delete) = {}
               /\ RowsOk(Written(plan)) /\ Listed(Written(plan)) = Tracks(after)
  <1>. DEFINE t == Tracks(after)
              plan == PlanUnder(after, {})
              new == Written(plan)
  <1>1. plan.delete = DOMAIN rows /\ plan.insert = Spaced(t)
    BY DEF PlanUnder, Tracks
  <1>2. IsList(t)
    BY TracksShape
  <1>. HIDE DEF plan, t
  <1>3. RowsOk(Spaced(t)) /\ Listed(Spaced(t)) = t
    BY <1>2, SpacedListed DEF RowsOk
  <1>4. new = Spaced(t)
    <2>1. new = [k \in DOMAIN Spaced(t) |-> Spaced(t)[k]]
      BY <1>1 DEF Written
    <2>. HIDE DEF new
    <2>. QED BY <2>1 DEF Spaced
  <1>. QED BY <1>1, <1>3, <1>4 DEF plan, t

(* The plan for an edited list leaves its tracks in order (Plan, keys.rs). *)
LEMMA PlanForWrites ==
    ASSUME RowsOk(rows), NEW after, Keyed(after, rows)
    PROVE  LET plan == PlanFor(after)
           IN  /\ DOMAIN plan.insert \cap (DOMAIN rows \ plan.delete) = {}
               /\ RowsOk(Written(plan)) /\ Listed(Written(plan)) = Tracks(after)
  <1>. DEFINE n == Len(after)
              stored == [i \in {j \in DOMAIN after : after[j].key # {}} |->
                            CHOOSE k \in after[i].key : TRUE]
              keys == Assign(stored, n, KeyGap)
              kept == LongestRun(stored)
  <1>1. IsList(after) /\ n \in Nat /\ DOMAIN after = 1 .. n
    BY ListShape DEF Keyed
  <1>2. PlanFor(after) = PlanUnder(after, keys)
    BY DEF PlanFor
  <1>3. DOMAIN stored \subseteq 1 .. n /\ \A i \in DOMAIN stored : stored[i] \in Int
    <2>1. DOMAIN stored \subseteq 1 .. n
      BY <1>1
    <2>2. ASSUME NEW i \in DOMAIN stored PROVE stored[i] \in Int
      <3>1. i \in DOMAIN after /\ after[i].key # {} /\ stored[i] = CHOOSE k \in after[i].key : TRUE
        OBVIOUS
      <3>. HIDE DEF stored
      <3>2. PICK k \in DOMAIN rows : after[i].key = {k}
        BY <3>1 DEF Keyed
      <3>3. stored[i] \in {k}
        BY <3>1, <3>2
      <3>. QED BY <3>3 DEF RowsOk
    <2>. QED BY <2>1, <2>2
  <1>. HIDE DEF stored, keys, n
  <1>4. DOMAIN stored \subseteq Int /\ IsFiniteSet(DOMAIN stored)
    <2>1. IsFiniteSet(1 .. n)
      BY <1>1, FS_Interval
    <2>2. IsFiniteSet(DOMAIN stored)
      BY <1>3, <2>1, FS_Subset
    <2>3. 1 .. n \subseteq Int
      BY <1>1
    <2>. QED BY <1>3, <2>2, <2>3
  <1>5. kept \subseteq DOMAIN stored /\ \A p, q \in kept : p < q => stored[p] < stored[q]
    BY <1>3, <1>4, LongestAscends
  <1>. HIDE DEF kept
  <1>6. ASSUME NEW key \in keys
        PROVE  key \in [1 .. n -> Int] /\ \A i, j \in 1 .. n : i < j => key[i] < key[j]
    <2>1. kept \in SUBSET (1 .. n) /\ \A i \in kept : stored[i] \in Int
      BY <1>3, <1>5
    <2>2. key \in AssignAround(stored, kept, n, KeyGap)
      BY DEF keys, kept, Assign
    <2>. QED BY <1>1, <1>5, <2>1, <2>2, KeysAscend
  <1>7. CASE keys = {}
    BY <1>1, <1>2, <1>7, PlanRenumbers
  <1>8. CASE keys # {}
    BY <1>2, <1>6, <1>8, PlanUnderKeys DEF n
  <1>. QED BY <1>7, <1>8

(* An edit in range leaves what it makes of the list, and no row to        *)
(* insert meets one that stays.                                            *)
LEMMA PlanWrites ==
    ASSUME RowsOk(rows), NEW ops, AreOps(ops), AllInRange(Listed(rows), ops)
    PROVE  LET plan == Plan(ops)
           IN  /\ DOMAIN plan.insert \cap (DOMAIN rows \ plan.delete) = {}
               /\ RowsOk(Written(plan)) /\ Listed(Written(plan)) = ApplyOps(Listed(rows), ops)
  <1>. DEFINE plan == Plan(ops)
              new == Written(plan)
  <1>1. CASE ops = <<>>
    <2>1. plan.delete = {} /\ plan.insert = <<>>
      BY <1>1 DEF Plan
    <2>2. DOMAIN <<>> = {}
      OBVIOUS
    <2>. HIDE DEF plan
    <2>3. new = [k \in DOMAIN rows |-> rows[k]]
      BY <2>1, <2>2 DEF Written
    <2>4. DOMAIN new = DOMAIN rows /\ \A k \in DOMAIN rows : new[k] = rows[k]
      BY <2>3
    <2>. HIDE DEF new
    <2>5. DOMAIN Keys = 1 .. Cardinality(DOMAIN rows) /\ Keys \in [1 .. Cardinality(DOMAIN rows) -> DOMAIN rows]
      BY AscendingIsByRank DEF RowsOk, Keys
    <2>6. Listed(new) = Listed(rows)
      BY <2>4, <2>5 DEF Listed, Keys
    <2>7. ApplyOps(Listed(rows), ops) = Listed(rows)
      <3>1. IsList(ops) /\ Len(ops) = 0
        BY <1>1 DEF AreOps
      <3>2. PICK left : Leaves(Listed(rows), ops, left) /\ ApplyOps(Listed(rows), ops) = left[Len(ops)]
        BY <3>1, OneByOne
      <3>. QED BY <3>1, <3>2 DEF Leaves
    <2>. QED BY <2>1, <2>2, <2>4, <2>6, <2>7 DEF plan, new, RowsOk
  <1>2. CASE ops # <<>>
    <2>. DEFINE after == ApplyOps(Stored(Keys), KeyedOps(ops))
    <2>1. plan = PlanFor(after)
      BY <1>2 DEF Plan, KeyedOps
    <2>2. Keyed(after, rows) /\ Tracks(after) = ApplyOps(Listed(rows), ops)
      BY PlannedList DEF RowsOk
    <2>. HIDE DEF plan, after
    <2>. QED BY <2>1, <2>2, PlanForWrites DEF plan
  <1>. QED BY <1>1, <1>2

-----------------------------------------------------------------------------
(***************************************************************************)
(* The ops that take an edit back are ops (playlist-ops.ts, invertOps).    *)
(***************************************************************************)
(* No ops are an edit, of no items.                                       *)
LEMMA NoItems == IsList(<<>>) /\ Len(<<>>) = 0 /\ AreOps(<<>>)
  <1>1. <<>> = [i \in 1 .. 0 |-> <<>>[i]]
    OBVIOUS
  <1>2. IsList(<<>>) /\ Len(<<>>) = 0 /\ DOMAIN <<>> = 1 .. 0
    <2>. DEFINE e == <<>>
    <2>1. e = [i \in 1 .. 0 |-> e[i]] /\ 0 \in Nat
      BY <1>1
    <2>. HIDE DEF e
    <2>2. IsList(e) /\ Len(e) = 0 /\ DOMAIN e = 1 .. 0
      BY <2>1, ListOf
    <2>. QED BY <2>2 DEF e
  <1>. QED BY <1>2 DEF AreOps

(* An edit of one op (EditablePlaylist.#edit).                             *)
LEMMA OneOp ==
    ASSUME NEW op, IsOp(op)
    PROVE  AreOps(<<op>>)
  <1>. DEFINE s == <<op>>
  <1>1. s = [i \in 1 .. 1 |-> s[i]] /\ s[1] = op
    OBVIOUS
  <1>. HIDE DEF s
  <1>2. IsList(s) /\ DOMAIN s = 1 .. 1
    BY <1>1, ListOf
  <1>. QED BY <1>1, <1>2 DEF AreOps, s

(* A function of the first n numbers to ops is an edit.                    *)
LEMMA ManyOps ==
    ASSUME NEW n \in Nat, NEW s, s = [i \in 1 .. n |-> s[i]], \A i \in 1 .. n : IsOp(s[i])
    PROVE  AreOps(s) /\ Len(s) = n
  <1>1. IsList(s) /\ Len(s) = n /\ DOMAIN s = 1 .. n
    BY ListOf
  <1>. QED BY <1>1 DEF AreOps

(* Two edits in a row are one.                                             *)
LEMMA MoreOps ==
    ASSUME NEW s, AreOps(s), NEW t, AreOps(t)
    PROVE  AreOps(s \o t)
  <1>. DEFINE A == {s[i] : i \in DOMAIN s}
              B == {t[i] : i \in DOMAIN t}
              Ops == A \cup B
              u == s \o t
  <1>1. s \in Seq(A) /\ t \in Seq(B) /\ \A op \in Ops : IsOp(op)
    BY DEF AreOps, IsList
  <1>2. s \in Seq(Ops) /\ t \in Seq(Ops)
    <2>1. A \subseteq Ops /\ B \subseteq Ops
      OBVIOUS
    <2>. HIDE DEF A, B, Ops
    <2>2. Seq(A) \subseteq Seq(Ops) /\ Seq(B) \subseteq Seq(Ops)
      BY <2>1
    <2>. QED BY <1>1, <2>2
  <1>. HIDE DEF A, B, Ops
  <1>3. u \in Seq(Ops)
    BY <1>2
  <1>. HIDE DEF u
  <1>4. \A i \in DOMAIN u : u[i] \in Ops
    BY <1>3
  <1>5. IsList(u)
    BY <1>3, OwnElements
  <1>. QED BY <1>1, <1>4, <1>5 DEF AreOps, u

(* Some of an edit's ops are an edit.                                      *)
LEMMA TakenOps ==
    ASSUME NEW s, AreOps(s), NEW T \in SUBSET DOMAIN s
    PROVE  AreOps(Taken(s, T))
  <1>. DEFINE n == Cardinality(T)
              t == Taken(s, T)
  <1>1. T \in SUBSET Int /\ IsFiniteSet(T)
    BY Positions DEF AreOps
  <1>2. n \in Nat /\ t = [i \in 1 .. n |-> s[Ascending(T)[i]]]
    BY <1>1, TakenShape
  <1>3. \A i \in 1 .. n : Ascending(T)[i] \in T
    BY <1>1, AscendingIsByRank
  <1>. HIDE DEF n, t
  <1>4. t = [i \in 1 .. n |-> t[i]] /\ \A i \in 1 .. n : IsOp(t[i])
    BY <1>2, <1>3 DEF AreOps
  <1>. QED BY <1>2, <1>4, ManyOps DEF t

(* An edit's ops last first are an edit.                                   *)
LEMMA ReversedOps ==
    ASSUME NEW s, AreOps(s)
    PROVE  AreOps(Reverse(s))
  <1>. DEFINE n == Len(s)
              t == Reverse(s)
  <1>1. n \in Nat /\ DOMAIN s = 1 .. n /\ \A i \in 1 .. n : IsOp(s[i])
    BY ListShape DEF AreOps
  <1>. HIDE DEF n
  <1>2. t = [i \in 1 .. n |-> s[(n - i) + 1]]
    BY DEF Reverse, n
  <1>3. \A i \in 1 .. n : (n - i) + 1 \in 1 .. n
    BY <1>1
  <1>. HIDE DEF t
  <1>4. t = [i \in 1 .. n |-> t[i]] /\ \A i \in 1 .. n : IsOp(t[i])
    BY <1>1, <1>2, <1>3
  <1>. QED BY <1>1, <1>4, ManyOps DEF t

(* What the constructors of ops make are ops.                              *)
LEMMA OpsMade ==
    /\ \A items : IsList(items) => IsOp(AddLast(items)) /\ \A at \in Nat : IsOp(Add(at, items))
    /\ \A positions \in SUBSET (Nat \ {0}), at \in Nat :
          IsFiniteSet(positions) => IsOp(Drop(positions)) /\ IsOp(Move(positions, at))
  <1>1. IsFiniteSet({}) /\ IsList(<<>>)
    BY FS_EmptySet, NoItems
  <1>. QED BY <1>1 DEF IsOp, Add, AddLast, Drop, Move

(* Runs of positions (Runs). *)
LEMMA RunsShape ==
    ASSUME NEW positions \in SUBSET (Nat \ {0}), IsFiniteSet(positions)
    PROVE  \E n \in Nat :
             /\ DOMAIN Runs(positions) = 1 .. n
             /\ \A i \in 1 .. n : /\ Runs(positions)[i] \in SUBSET positions
                                  /\ Runs(positions)[i] # {}
  <1>. DEFINE F == {p \in positions : p - 1 \notin positions}
              firsts == Ascending(F)
              n == Cardinality(F)
  <1>1. F \in SUBSET Int /\ IsFiniteSet(F)
    <2>1. F \subseteq positions /\ positions \subseteq Int
      OBVIOUS
    <2>. HIDE DEF F
    <2>. QED BY <2>1, FS_Subset
  <1>2. n \in Nat /\ firsts \in [1 .. n -> F]
    <2>. HIDE DEF F
    <2>. QED BY <1>1, AscendingIsByRank
  <1>3. Runs(positions) = [i \in DOMAIN firsts |->
            {p \in positions : p >= firsts[i] /\ firsts[i] .. p \subseteq positions}]
    BY DEF Runs
  <1>4. \A i \in 1 .. n : firsts[i] \in positions
    BY <1>2
  <1>. HIDE DEF firsts, n, F
  <1>5. ASSUME NEW i \in 1 .. n
        PROVE  Runs(positions)[i] \in SUBSET positions /\ Runs(positions)[i] # {}
    <2>. DEFINE f == firsts[i]
    <2>1. f \in positions /\ f \in Nat
      BY <1>4
    <2>. HIDE DEF f
    <2>2. f .. f = {f} /\ f >= f
      BY <2>1
    <2>3. f \in {p \in positions : p >= f /\ f .. p \subseteq positions}
      BY <2>1, <2>2
    <2>4. Runs(positions)[i] = {p \in positions : p >= f /\ f .. p \subseteq positions}
      BY <1>2, <1>3 DEF f
    <2>. QED BY <2>3, <2>4
  <1>6. DOMAIN Runs(positions) = 1 .. n
    BY <1>2, <1>3
  <1>. QED BY <1>2, <1>5, <1>6

(* The ops that take an op back. *)
LEMMA InvertedOp ==
    ASSUME NEW before, IsList(before), NEW op, IsOp(op)
    PROVE  AreOps(InvertOp(before, op))
  <1>. DEFINE S == op.positions
              m == Len(op.items)
              L == Len(before)
              runs == Runs(S)
  <1>1. /\ L \in Nat /\ m \in Nat /\ op.at \in Nat /\ S \in SUBSET (Nat \ {0}) /\ IsFiniteSet(S)
        /\ op.op \in {"append", "add", "remove", "move"}
    BY ListShape DEF IsOp
  <1>. HIDE DEF L, m
  <1>2. \A a, b \in Nat : IsOp(Drop(a + 1 .. b)) /\ \A at \in Nat : IsOp(Move(a + 1 .. b, at))
    <2>1. ASSUME NEW a \in Nat, NEW b \in Nat
          PROVE  a + 1 .. b \in SUBSET (Nat \ {0}) /\ IsFiniteSet(a + 1 .. b)
      <3>1. IsFiniteSet(a + 1 .. b)
        BY FS_Interval
      <3>. QED BY <3>1
    <2>. QED BY <2>1, OpsMade
  <1>3. PICK n \in Nat : /\ DOMAIN runs = 1 .. n
                         /\ \A i \in 1 .. n : runs[i] \in SUBSET S /\ runs[i] # {}
    <2>. HIDE DEF S
    <2>. QED BY <1>1, RunsShape
  <1>. HIDE DEF runs, S
  <1>4. ASSUME NEW i \in 1 .. n
        PROVE  Min(runs[i]) - 1 \in Nat /\ runs[i] \in SUBSET Int /\ IsFiniteSet(runs[i])
    <2>1. runs[i] \in SUBSET Nat /\ runs[i] # {} /\ runs[i] \in SUBSET S
      BY <1>1, <1>3
    <2>2. Min(runs[i]) \in runs[i]
      BY <2>1, Least
    <2>3. Min(runs[i]) \in Nat \ {0}
      BY <1>1, <2>1, <2>2
    <2>4. IsFiniteSet(runs[i])
      BY <1>1, <2>1, FS_Subset
    <2>. QED BY <2>1, <2>3, <2>4
  <1>5. CASE op.op = "append"
    <2>1. InvertOp(before, op) = << Drop(L + 1 .. L + m) >>
      BY <1>5 DEF InvertOp, L, m
    <2>2. L + m \in Nat
      BY <1>1
    <2>. QED BY <1>1, <1>2, <2>1, <2>2, OneOp
  <1>6. CASE op.op = "add"
    <2>1. InvertOp(before, op) = << Drop(op.at + 1 .. op.at + m) >>
      BY <1>6 DEF InvertOp, m
    <2>2. op.at + m \in Nat
      BY <1>1
    <2>. QED BY <1>1, <1>2, <2>1, <2>2, OneOp
  <1>7. CASE op.op = "remove"
    <2>. DEFINE back == InvertOp(before, op)
    <2>1. back = [i \in 1 .. n |-> Add(Min(runs[i]) - 1, Taken(before, runs[i]))]
      BY <1>3, <1>7 DEF InvertOp, runs, S
    <2>. HIDE DEF back
    <2>2. ASSUME NEW i \in 1 .. n PROVE IsOp(back[i])
      <3>1. IsList(Taken(before, runs[i]))
        BY <1>4, TakenShape
      <3>2. back[i] = Add(Min(runs[i]) - 1, Taken(before, runs[i]))
        BY <2>1
      <3>. QED BY <1>4, <3>1, <3>2, OpsMade
    <2>3. back = [i \in 1 .. n |-> back[i]]
      BY <2>1
    <2>. QED BY <2>2, <2>3, ManyOps DEF back
  <1>8. CASE op.op = "move"
    <2>. DEFINE moves == MovesBack(runs, op.at)
                from(i) == op.at + Cardinality(UNION {runs[j] : j \in 1 .. i - 1})
    <2>1. moves = [i \in 1 .. n |-> Move(from(i) + 1 .. from(i) + Cardinality(runs[i]), Min(runs[i]) - 1)]
      BY <1>3 DEF MovesBack
    <2>2. ASSUME NEW i \in 1 .. n PROVE from(i) \in Nat /\ from(i) + Cardinality(runs[i]) \in Nat
      <3>1. \A j \in 1 .. i - 1 : j \in 1 .. n
        OBVIOUS
      <3>2. UNION {runs[j] : j \in 1 .. i - 1} \subseteq S
        BY <1>3, <3>1
      <3>3. Cardinality(UNION {runs[j] : j \in 1 .. i - 1}) \in Nat
        BY <1>1, <3>2, FS_Subset, FS_CardinalityType
      <3>4. Cardinality(runs[i]) \in Nat
        BY <1>4, FS_CardinalityType
      <3>. QED BY <1>1, <3>3, <3>4
    <2>. HIDE DEF from, moves
    <2>3. ASSUME NEW i \in 1 .. n PROVE IsOp(moves[i])
      BY <1>2, <1>4, <2>1, <2>2
    <2>4. moves = [i \in 1 .. n |-> moves[i]]
      BY <2>1
    <2>5. AreOps(moves)
      BY <2>3, <2>4, ManyOps
    <2>. DEFINE left == {i \in DOMAIN moves : GoesLeft(moves[i])}
                right == {i \in DOMAIN moves : GoesRight(moves[i])}
    <2>6. InvertOp(before, op) = Taken(moves, left) \o Reverse(Taken(moves, right))
      BY <1>8 DEF InvertOp, InOrder, moves, runs, S
    <2>7. AreOps(Taken(moves, left)) /\ AreOps(Taken(moves, right))
      <3>1. left \in SUBSET DOMAIN moves /\ right \in SUBSET DOMAIN moves
        OBVIOUS
      <3>. HIDE DEF left, right
      <3>. QED BY <2>5, <3>1, TakenOps
    <2>. HIDE DEF left, right
    <2>. QED BY <2>6, <2>7, ReversedOps, MoreOps
  <1>. QED BY <1>1, <1>5, <1>6, <1>7, <1>8

\* What takes back the first ops of an edit.
TakesBack(list, ops, back) ==
    /\ back[0] = <<>>
    /\ \A n \in 1 .. Len(ops) : back[n] = InvertOp(Before(list, ops, n), ops[n]) \o back[n - 1]

(* InvertOps takes the ops back one by one. *)
LEMMA BackByOne ==
    ASSUME NEW list, NEW ops, IsList(ops)
    PROVE  \E back : TakesBack(list, ops, back) /\ InvertOps(list, ops) = back[Len(ops)]
  <1>. DEFINE L == Len(ops)
              More(rest, n) == InvertOp(Before(list, ops, n), ops[n]) \o rest
              F(g, n) == IF n = 0 THEN <<>> ELSE More(g[n - 1], n)
              P(n) == \E g : g = [k \in 0 .. n |-> F(g, k)]
  <1>1. L \in Nat
    BY ListShape
  <1>. HIDE DEF More
  <1>2. P(0)
    <2>. DEFINE g == [k \in 0 .. 0 |-> <<>>]
    <2>1. g = [k \in 0 .. 0 |-> F(g, k)]
      OBVIOUS
    <2>. QED BY <2>1
  <1>3. ASSUME NEW n \in Nat, P(n) PROVE P(n + 1)
    <2>1. PICK g : g = [k \in 0 .. n |-> F(g, k)]
      BY <1>3
    <2>. DEFINE h == [k \in 0 .. n + 1 |->
                        IF k = n + 1 THEN More(g[n], n + 1) ELSE g[k]]
    <2>2. ASSUME NEW k \in 0 .. n PROVE h[k] = F(h, k)
      <3>1. h[k] = g[k] /\ g[k] = F(g, k)
        BY <2>1
      <3>2. k # 0 => k - 1 \in 0 .. n /\ h[k - 1] = g[k - 1]
        OBVIOUS
      <3>. QED BY <3>1, <3>2
    <2>3. h[n + 1] = F(h, n + 1)
      OBVIOUS
    <2>4. \A k \in 0 .. n + 1 : h[k] = F(h, k)
      <3>1. \A k \in 0 .. n + 1 : k \in 0 .. n \/ k = n + 1
        OBVIOUS
      <3>. HIDE DEF h, F
      <3>. QED BY <2>2, <2>3, <3>1
    <2>. QED BY <2>4
  <1>4. P(L)
    <2>. HIDE DEF P, L
    <2>. DEFINE T == {n \in Nat : ~P(n)}
    <2>1. SUFFICES ASSUME T # {} PROVE FALSE
      BY <1>1
    <2>2. PICK n \in T : \A k \in T : n <= k
      BY <2>1, LeastNat
    <2>3. n # 0 /\ n - 1 \in Nat /\ n - 1 \notin T
      BY <1>2, <2>2
    <2>4. P((n - 1) + 1)
      BY <1>3, <2>3
    <2>. QED BY <2>2, <2>3, <2>4
  <1>. DEFINE back == CHOOSE g : g = [k \in 0 .. L |-> F(g, k)]
  <1>5. back = [k \in 0 .. L |-> F(back, k)]
    BY <1>4
  <1>6. InvertOps(list, ops) = back[L]
    BY DEF InvertOps, More
  <1>. HIDE DEF back, P
  <1>7. back[0] = <<>> /\ \A n \in 1 .. L : back[n] = More(back[n - 1], n)
    BY <1>1, <1>5
  <1>8. TakesBack(list, ops, back)
    BY <1>7 DEF TakesBack, More
  <1>. QED BY <1>6, <1>8

(* What takes an edit back is an edit. *)
LEMMA InvertedOps ==
    ASSUME NEW list, IsList(list), NEW ops, AreOps(ops)
    PROVE  AreOps(InvertOps(list, ops))
  <1>. DEFINE L == Len(ops)
  <1>1. IsList(ops) /\ L \in Nat /\ DOMAIN ops = 1 .. L
        /\ \A k \in 1 .. L : IsOp(ops[k]) /\ IsList(Before(list, ops, k))
    BY ListShape, EditMakesList DEF AreOps
  <1>2. PICK back : TakesBack(list, ops, back) /\ InvertOps(list, ops) = back[L]
    BY <1>1, BackByOne
  <1>3. back[0] = <<>> /\ \A n \in 1 .. L : back[n] = InvertOp(Before(list, ops, n), ops[n]) \o back[n - 1]
    BY <1>2 DEF TakesBack
  <1>. HIDE DEF L
  <1>. DEFINE T == {n \in Nat : n <= L /\ ~AreOps(back[n])}
  <1>4. T = {}
    <2>1. SUFFICES ASSUME T # {} PROVE FALSE
      OBVIOUS
    <2>2. PICK n \in T : \A k \in T : n <= k
      BY <2>1, LeastNat
    <2>3. n # 0
      BY <1>3, NoItems
    <2>4. n \in 1 .. L /\ n - 1 \in Nat /\ n - 1 <= L /\ ~(n <= n - 1)
      BY <1>1, <2>3
    <2>5. AreOps(back[n - 1])
      BY <2>2, <2>4
    <2>6. AreOps(InvertOp(Before(list, ops, n), ops[n]))
      BY <1>1, <2>4, InvertedOp
    <2>. QED BY <1>3, <2>2, <2>4, <2>5, <2>6, MoreOps
  <1>5. AreOps(back[L])
    BY <1>1, <1>4
  <1>. QED BY <1>2, <1>5

-----------------------------------------------------------------------------
(***************************************************************************)
(* Everything that is applied is ops, to a list.                           *)
(***************************************************************************)
PageOps ==
    /\ IsList(page.items) /\ IsList(page.shown)
    /\ \A i \in DOMAIN page.queue : AreOps(page.queue[i].ops)
    /\ AreOps(undo.ops)

OpsInv == PageOps /\ \A r \in requests : AreOps(r.ops)

(* The rows are the list of the latest version, and a plan of that version *)
(* is what its edit makes of them.                                         *)
StoredInv ==
    ~deleted =>
        /\ RowsOk(rows) /\ Listed(rows) = lists[version]
        /\ \A r \in requests : r.planned /\ r.base = version => r.plan = Plan(r.ops)

(* The page keeps no ops it drops, and shows a list (#reset). *)
LEMMA ForgetsOps ==
    ASSUME DOMAIN page = PageFields, NEW at, IsList(at.items), Forgets(at)
    PROVE  PageOps'
  <1>1. /\ page'.items = at.items /\ page'.shown = at.items /\ page'.queue = <<>>
        /\ undo'.ops = <<>>
    BY DEF Forgets, Reset, PageFields, NoUndo
  <1>. QED BY <1>1, NoItems DEF PageOps

(* The page has what it had, but for how it waits (#send, loadPlaylist). *)
LEMMA SameOps ==
    ASSUME PageOps, page'.items = page.items, page'.shown = page.shown,
           page'.queue = page.queue, undo' = undo
    PROVE  PageOps'
  BY DEF PageOps

(* An edit is queued with its ops, and undone with theirs (#edit). *)
LEMMA MakeOps ==
    ASSUME PageOps, DOMAIN page = PageFields, IsList(page.queue), NEW ops, AreOps(ops), Make(ops)
    PROVE  PageOps'
  <1>. DEFINE q == page.queue
              new == [edit |-> spent'.edits, ops |-> ops]
  <1>1. /\ page'.items = page.items /\ page'.shown = ApplyOps(page.shown, ops)
        /\ page'.queue = Append(q, new)
        /\ undo'.ops = InvertOps(page.shown, ops)
    BY DEF Make, PageFields
  <1>2. new.ops = ops
    OBVIOUS
  <1>. HIDE DEF new
  <1>3. IsList(page'.shown) /\ AreOps(undo'.ops)
    BY <1>1, EditMakesList, InvertedOps DEF PageOps
  <1>4. \A i \in DOMAIN Append(q, new) : Append(q, new)[i] = new \/ (i \in DOMAIN q /\ Append(q, new)[i] = q[i])
    BY Queued
  <1>. QED BY <1>1, <1>2, <1>3, <1>4 DEF PageOps

(* What the page confirms it applies to a list (#send). *)
LEMMA HearsOps ==
    ASSUME PageOps, DOMAIN page = PageFields, IsList(page.queue), NEW r, NEW answer,
           r.attempt = page.attempt /\ page.doing = "asking" => page.queue # <<>>,
           PageHears(r, answer), answer.ok \in BOOLEAN, answer.conflict \in BOOLEAN
    PROVE  PageOps'
  <1>. DEFINE q == page.queue
  <1>1. CASE ~Waits(r)
    <2>1. page' = page /\ undo' = undo
      BY <1>1 DEF PageHears, Waits
    <2>. QED BY <2>1, SameOps
  <1>2. CASE Waits(r) /\ answer.ok
    <2>1. /\ page' = [page EXCEPT !.version = answer.version,
                         !.items = ApplyOps(@, Head(page.queue).ops),
                         !.queue = Tail(@), !.doing = "idle", !.attempt = @ + 1]
          /\ undo' = undo
      BY <1>2 DEF PageHears, Waits
    <2>2. /\ page'.items = ApplyOps(page.items, Head(q).ops) /\ page'.queue = Tail(q)
          /\ page'.shown = page.shown
      BY <2>1 DEF PageFields
    <2>3. q # <<>>
      BY <1>2 DEF Waits
    <2>4. /\ Head(q) = q[1] /\ 1 \in DOMAIN q
          /\ \A i \in DOMAIN Tail(q) : i + 1 \in DOMAIN q /\ Tail(q)[i] = q[i + 1]
      <3>1. /\ Len(q) \in Nat /\ Len(q) >= 1 /\ DOMAIN q = 1 .. Len(q) /\ Head(q) = q[1]
            /\ DOMAIN Tail(q) = 1 .. Len(q) - 1
            /\ \A i \in DOMAIN Tail(q) : Tail(q)[i] = q[i + 1]
        BY <2>3, Answered
      <3>. QED BY <3>1
    <2>5. IsList(page'.items)
      BY <2>2, <2>4, EditMakesList DEF PageOps
    <2>. QED BY <2>1, <2>2, <2>4, <2>5 DEF PageOps
  <1>3. CASE Waits(r) /\ ~answer.ok /\ answer.conflict
    <2>1. page' = [page EXCEPT !.doing = "reloading"] /\ undo' = undo
      BY <1>3 DEF PageHears, Waits
    <2>2. page'.items = page.items /\ page'.shown = page.shown /\ page'.queue = page.queue
      BY <2>1 DEF PageFields
    <2>. QED BY <2>1, <2>2, SameOps
  <1>4. CASE Waits(r) /\ ~answer.ok /\ ~answer.conflict
    <2>1. Forgets(page)
      BY <1>4 DEF PageHears, Waits
    <2>. QED BY <2>1, ForgetsOps DEF PageOps
  <1>. QED BY <1>1, <1>2, <1>3, <1>4

(* What a user makes of a list is an op (#edit). *)
LEMMA UserOpsAreOps ==
    ASSUME NEW list, IsList(list), NEW op \in UserOps(list)
    PROVE  IsOp(op)
  <1>1. Len(list) \in Nat /\ DOMAIN list = 1 .. Len(list)
    BY ListShape
  <1>2. ASSUME NEW positions \in SUBSET DOMAIN list
        PROVE  positions \in SUBSET (Nat \ {0}) /\ IsFiniteSet(positions)
    <2>1. IsFiniteSet(positions)
      BY Positions
    <2>2. DOMAIN list \subseteq Nat \ {0}
      BY <1>1
    <2>. QED BY <2>1, <2>2
  <1>3. \A at \in 0 .. Len(list) : at \in Nat
    BY <1>1
  <1>4. ASSUME NEW at \in 0 .. Len(list), NEW track, op = Add(at, <<track>>)
        PROVE  IsOp(op)
    <2>1. IsList(<<track>>)
      <3>1. <<track>> \in Seq({track})
        OBVIOUS
      <3>. QED BY <3>1, OwnElements
    <2>. QED BY <1>3, <1>4, <2>1, OpsMade
  <1>5. ASSUME NEW positions \in SUBSET DOMAIN list, op = Drop(positions)
        PROVE  IsOp(op)
    BY <1>2, <1>5, OpsMade
  <1>6. ASSUME NEW positions \in SUBSET DOMAIN list, NEW at \in 0 .. Len(list),
               op = Move(positions, at)
        PROVE  IsOp(op)
    BY <1>2, <1>3, <1>6, OpsMade
  <1>7. \/ \E at \in 0 .. Len(list), track \in Addable : op = Add(at, <<track>>)
        \/ \E positions \in SUBSET DOMAIN list : op = Drop(positions)
        \/ \E positions \in SUBSET DOMAIN list, at \in 0 .. Len(list) : op = Move(positions, at)
    <2>. DEFINE some == (SUBSET DOMAIN list) \ {{}}
                at(n) == {Add(n, <<track>>) : track \in Addable}
                            \cup {Move(positions, n) : positions \in some}
    <2>1. op \in {Drop(positions) : positions \in some} \cup UNION {at(n) : n \in 0 .. Len(list)}
      BY DEF UserOps
    <2>2. ASSUME NEW n \in 0 .. Len(list), op \in at(n)
          PROVE  \/ \E track \in Addable : op = Add(n, <<track>>)
                 \/ \E positions \in SUBSET DOMAIN list : op = Move(positions, n)
      BY <2>2, Zenon
    <2>. HIDE DEF at
    <2>. QED BY <2>1, <2>2, Zenon
  <1>. QED BY <1>4, <1>5, <1>6, <1>7

(* The rows alone say what an edit's plan is (Plan). *)
LEMMA SamePlans ==
    ASSUME rows' = rows
    PROVE  (\A ops : Plan(ops)' = Plan(ops)) /\ Listed(rows)' = Listed(rows) /\ RowsOk(rows)' = RowsOk(rows)
  BY DEF Plan, PlanFor, PlanUnder, Stored, Keys, RowsOk

(* What is applied is ops, whoever made them (Send, Read, write). *)
LEMMA OpsNext ==
    ASSUME Sound, OpsInv, StoredInv, [PlaylistNext]_playlistVars
    PROVE  OpsInv'
  <1>1. /\ DOMAIN page = PageFields /\ IsList(page.queue) /\ PageOps
        /\ \A r \in requests : DOMAIN r = RequestFields
        /\ \A r \in requests : Waits(r) => page.queue # <<>>
    BY SoundParts, WaitsForItsFirst DEF PageOk, RequestsOk, OpsInv
  <1>2. ASSUME NEW ops, AreOps(ops), Make(ops)
        PROVE  OpsInv'
    <2>1. requests' = requests
      BY <1>2 DEF Make
    <2>. QED BY <1>1, <1>2, <2>1, MakeOps DEF OpsInv
  <1>3. CASE UserEdit
    <2>1. PICK op \in IF spent.edits = 0 THEN UserOps(page.shown) ELSE LaterOps : Make(<<op>>)
      BY <1>3 DEF UserEdit
    <2>2. IsOp(op)
      BY <1>1, UserOpsAreOps, PlaylistAssumption DEF PageOps
    <2>. QED BY <1>2, <2>1, <2>2, OneOp
  <1>4. CASE UserUndo
    BY <1>1, <1>2, <1>4 DEF UserUndo, PageOps
  <1>5. CASE Send
    <2>. DEFINE q == page.queue
                r0 == Request(Head(q).edit, page.attempt, Head(q).ops, page.version)
    <2>1. q # <<>>
      BY <1>5 DEF Send
    <2>2. Head(q) = q[1] /\ 1 \in DOMAIN q
      <3>1. Len(q) \in Nat /\ Len(q) >= 1 /\ DOMAIN q = 1 .. Len(q) /\ Head(q) = q[1]
        BY <1>1, <2>1, Answered
      <3>. QED BY <3>1
    <2>3. r0.ops = Head(q).ops
      BY DEF Request
    <2>4. AreOps(r0.ops)
      BY <1>1, <2>2, <2>3 DEF PageOps
    <2>5. requests' = requests \cup {r0}
      BY <1>5 DEF Send
    <2>6. page'.items = page.items /\ page'.shown = page.shown /\ page'.queue = q /\ undo' = undo
      BY <1>1, <1>5 DEF Send, PageFields
    <2>. HIDE DEF r0
    <2>. QED BY <1>1, <2>4, <2>5, <2>6, SameOps DEF OpsInv
  <1>6. CASE requests' \subseteq requests /\ PageOps'
    BY <1>6 DEF OpsInv
  <1>7. ASSUME page'.items = page.items, page'.shown = page.shown, page'.queue = page.queue,
               undo' = undo, requests' \subseteq requests
        PROVE  OpsInv'
    BY <1>1, <1>6, <1>7, SameOps
  <1>8. ASSUME NEW r \in requests, NEW answer, Ends(r, answer),
               answer.ok \in BOOLEAN /\ answer.conflict \in BOOLEAN
        PROVE  OpsInv'
    <2>1. PageHears(r, answer) /\ requests' = requests \ {r}
      BY <1>8 DEF Ends
    <2>2. r.attempt = page.attempt /\ page.doing = "asking" => page.queue # <<>>
      BY <1>1 DEF Waits
    <2>3. PageOps'
      BY <1>1, <1>8, <2>1, <2>2, HearsOps
    <2>. QED BY <1>6, <2>1, <2>3
  <1>9. ASSUME NEW r \in requests, NEW answer, answer \in AnswersTo(r) \/ answer = Refused
        PROVE  answer.ok \in BOOLEAN /\ answer.conflict \in BOOLEAN
    <2>1. answer \in {Refused, Conflict} \/ answer = Ok(answers[r.edit])
      BY <1>9 DEF AnswersTo, At
    <2>2. /\ \A v : Ok(v).ok = TRUE /\ Ok(v).conflict = FALSE
          /\ Conflict.ok = FALSE /\ Conflict.conflict = TRUE
          /\ Refused.ok = FALSE /\ Refused.conflict = FALSE
      BY DEF Ok, Conflict, Refused
    <2>. QED BY <2>1, <2>2
  <1>10. ASSUME NEW r \in requests, NEW s0, s0.ops = r.ops,
                requests' = (requests \ {r}) \cup {s0}, UNCHANGED <<page, undo>>
         PROVE  OpsInv'
    <2>1. PageOps'
      BY <1>1, <1>10, SameOps
    <2>. QED BY <1>10, <2>1 DEF OpsInv
  <1>11. ASSUME NEW r \in requests, Read(r)
         PROVE  OpsInv'
    <2>1. CASE \E answer \in AnswersTo(r) \cup {no \in {Refused} : AnswersTo(r) = {} /\ ~MayPlan(r)} :
                  Ends(r, answer)
      BY <1>8, <1>9, <2>1
    <2>2. CASE /\ requests' = (requests \ {r})
                                \cup {[r EXCEPT !.planned = TRUE, !.plan = Plan(r.ops)]}
               /\ UNCHANGED <<page, undo, dropped>>
      <3>1. [r EXCEPT !.planned = TRUE, !.plan = Plan(r.ops)].ops = r.ops
        BY <1>1 DEF RequestFields
      <3>. QED BY <1>10, <2>2, <3>1
    <2>. QED BY <1>11, <2>1, <2>2 DEF Read
  <1>12. ASSUME NEW r \in requests, WriteEnds(r)
         PROVE  OpsInv'
    <2>1. CASE \E answer \in AnswersTo(r) : Ends(r, answer)
      BY <1>8, <1>9, <2>1
    <2>2. CASE /\ requests' = (requests \ {r}) \cup {[r EXCEPT !.planned = FALSE, !.plan = NoPlan]}
               /\ UNCHANGED <<page, undo, dropped>>
      <3>1. [r EXCEPT !.planned = FALSE, !.plan = NoPlan].ops = r.ops
        BY <1>1 DEF RequestFields
      <3>. QED BY <1>10, <2>2, <3>1
    <2>. QED BY <1>12, <2>1, <2>2 DEF WriteEnds
  <1>13. ASSUME NEW r \in requests, Write(r)
         PROVE  OpsInv'
    <2>1. Ends(r, Ok(version + 1))
      BY <1>13 DEF Write
    <2>2. Ok(version + 1).ok \in BOOLEAN /\ Ok(version + 1).conflict \in BOOLEAN
      BY DEF Ok
    <2>. QED BY <1>8, <2>1, <2>2
  <1>14. CASE GiveUp \/ \E r \in requests : HandlerFails(r)
    <2>1. requests' \subseteq requests /\ undo' = undo
      BY <1>14 DEF GiveUp, HandlerFails
    <2>2. page' = page \/ page' = [page EXCEPT !.doing = "idle", !.attempt = @ + 1]
      BY <1>14 DEF GiveUp, HandlerFails
    <2>3. page'.items = page.items /\ page'.shown = page.shown /\ page'.queue = page.queue
      BY <1>1, <2>2 DEF PageFields
    <2>. QED BY <1>7, <2>1, <2>3
  <1>15. ASSUME NEW at, IsList(at.items), Forgets(at), UNCHANGED requests
         PROVE  OpsInv'
    <2>1. PageOps'
      BY <1>1, <1>15, ForgetsOps
    <2>. QED BY <1>6, <1>15, <2>1
  <1>16. CASE LoadFails
    BY <1>1, <1>15, <1>16 DEF LoadFails, PageOps
  <1>17. ASSUME Again, UNCHANGED requests
         PROVE  OpsInv'
    <2>1. CASE Forgets(page)
      BY <1>1, <1>15, <1>17, <2>1 DEF PageOps
    <2>2. CASE /\ page' = [page EXCEPT !.tries = @ + 1, !.read = <<>>, !.after = {}, !.at = 0]
               /\ UNCHANGED <<undo, dropped>>
      <3>1. page'.items = page.items /\ page'.shown = page.shown /\ page'.queue = page.queue
        BY <1>1, <2>2 DEF PageFields
      <3>. QED BY <1>7, <1>17, <2>2, <3>1
    <2>. QED BY <1>17, <2>1, <2>2 DEF Again
  <1>18. CASE ReadItems
    <2>1. CASE Again
      BY <1>17, <1>18, <2>1 DEF ReadItems
    <2>2. CASE ~Again
      <3>1. page'.items = page.items /\ page'.shown = page.shown /\ page'.queue = page.queue
        BY <1>1, <1>18, <2>2 DEF ReadItems, PageFields
      <3>2. undo' = undo /\ requests' = requests
        BY <1>18, <2>2 DEF ReadItems
      <3>. QED BY <1>7, <3>1, <3>2
    <2>. QED BY <2>1, <2>2
  <1>19. CASE ReadHeader
    <2>1. page.doing = "read" /\ ~deleted /\ UNCHANGED requests
      BY <1>19 DEF ReadHeader
    <2>2. CASE page.at = version /\ Forgets([version |-> version, items |-> page.read])
      <3>1. page.read = Listed(rows)
        BY <2>1, <2>2, SoundParts DEF ReadOk
      <3>2. IsList(Listed(rows))
        BY <2>1, StoredShape DEF StoredInv, RowsOk
      <3>3. IsList([version |-> version, items |-> page.read].items)
        BY <3>1, <3>2
      <3>. QED BY <1>15, <2>1, <2>2, <3>3
    <2>3. CASE Forgets(page)
      BY <1>1, <1>15, <2>1, <2>3 DEF PageOps
    <2>4. CASE /\ page' = [page EXCEPT !.tries = @ + 1, !.read = <<>>, !.after = {}, !.at = 0,
                              !.doing = "reloading"]
               /\ UNCHANGED <<undo, dropped>>
      <3>1. page'.items = page.items /\ page'.shown = page.shown /\ page'.queue = page.queue
        BY <1>1, <2>4 DEF PageFields
      <3>. QED BY <1>7, <2>1, <2>4, <3>1
    <2>. QED BY <1>19, <2>2, <2>3, <2>4 DEF ReadHeader
  <1>20. CASE OtherEdit \/ Purge \/ Sweep \/ Delete \/ UNCHANGED playlistVars
    <2>1. page' = page /\ undo' = undo /\ requests' = requests
      BY <1>20 DEF OtherEdit, Purge, Sweep, Delete, playlistVars
    <2>. QED BY <1>7, <2>1
  <1>. QED BY <1>3, <1>4, <1>5, <1>11, <1>12, <1>13, <1>14, <1>16, <1>18, <1>19, <1>20
           DEF PlaylistNext

(* The version a write makes is what the edit made of the list; a plan     *)
(* made of an earlier one is not written (Read, write).                    *)
LEMMA StoredNext ==
    ASSUME Sound, OpsInv, StoredInv, [PlaylistNext]_playlistVars
    PROVE  StoredInv'
  <1>. SUFFICES ASSUME ~deleted' PROVE StoredInv'
    BY DEF StoredInv
  <1>1. /\ version \in Nat /\ IsList(lists) /\ Len(lists) = version
        /\ \A r \in requests : DOMAIN r = RequestFields /\ r.base \in Nat /\ r.base <= version
        /\ \A r \in requests : AreOps(r.ops)
    BY SoundParts DEF RequestsOk, ConfirmOk, PlannedInv, OpsInv
  <1>2. ASSUME UNCHANGED <<rows, version, lists, deleted>>,
               \A r \in requests' : r \in requests \/ ~r.planned \/ r.plan = Plan(r.ops)
        PROVE  StoredInv'
    <2>1. (\A ops : Plan(ops)' = Plan(ops)) /\ Listed(rows)' = Listed(rows) /\ RowsOk(rows)' = RowsOk(rows)
      BY <1>2, SamePlans
    <2>2. /\ RowsOk(rows) /\ Listed(rows) = lists[version]
          /\ \A r \in requests : r.planned /\ r.base = version => r.plan = Plan(r.ops)
      BY <1>2 DEF StoredInv
    <2>3. ASSUME NEW r \in requests', r.planned, r.base = version
          PROVE  r.plan = Plan(r.ops)'
      BY <1>2, <2>1, <2>2, <2>3
    <2>. QED BY <1>2, <2>1, <2>2, <2>3 DEF StoredInv
  <1>3. ASSUME NEW plan, NEW ops, NEW edit, ~deleted, AreOps(ops), AllInRange(Listed(rows), ops),
               plan = Plan(ops), ApplyEdit(plan, ops, edit), requests' \subseteq requests
        PROVE  StoredInv'
    <2>1. RowsOk(rows) /\ Listed(rows) = lists[version]
      BY <1>3 DEF StoredInv
    <2>2. rows' = Written(plan) /\ version' = version + 1
          /\ lists' = Append(lists, ApplyOps(lists[version], ops))
      BY <1>3 DEF ApplyEdit, Written
    <2>3. RowsOk(Written(plan)) /\ Listed(Written(plan)) = ApplyOps(Listed(rows), ops)
      BY <1>3, <2>1, PlanWrites
    <2>4. lists'[version'] = ApplyOps(lists[version], ops)
      BY <1>1, <2>2, Queued
    <2>5. \A r \in requests' : r.base # version'
      <3>1. ASSUME NEW r \in requests' PROVE r.base # version'
        <4>1. r.base \in Nat /\ r.base <= version
          BY <1>1, <1>3
        <4>. QED BY <1>1, <2>2, <4>1
      <3>. QED BY <3>1
    <2>6. Listed(rows)' = Listed(Written(plan)) /\ RowsOk(rows)' = RowsOk(Written(plan))
      BY <2>2 DEF RowsOk
    <2>. QED BY <2>1, <2>3, <2>4, <2>5, <2>6 DEF StoredInv
  <1>4. CASE Send
    <2>. DEFINE r0 == Request(Head(page.queue).edit, page.attempt, Head(page.queue).ops, page.version)
    <2>1. ~r0.planned
      BY DEF Request
    <2>2. requests' = requests \cup {r0} /\ UNCHANGED <<rows, version, lists, deleted>>
      BY <1>4 DEF Send, server, history
    <2>. HIDE DEF r0
    <2>. QED BY <1>2, <2>1, <2>2
  <1>5. ASSUME NEW r \in requests, Read(r)
        PROVE  StoredInv'
    <2>1. UNCHANGED <<rows, version, lists, deleted>>
      BY <1>5 DEF Read, server, history
    <2>2. CASE requests' = requests \ {r}
      BY <1>2, <2>1, <2>2
    <2>3. CASE requests' = (requests \ {r})
                                \cup {[r EXCEPT !.planned = TRUE, !.plan = Plan(r.ops)]}
      <3>. DEFINE s0 == [r EXCEPT !.planned = TRUE, !.plan = Plan(r.ops)]
      <3>1. s0.plan = Plan(r.ops) /\ s0.ops = r.ops
        BY <1>1 DEF RequestFields
      <3>2. requests' = (requests \ {r}) \cup {s0}
        BY <2>3
      <3>. HIDE DEF s0
      <3>. QED BY <1>2, <2>1, <3>1, <3>2
    <2>. QED BY <1>5, <2>2, <2>3 DEF Read, Ends
  <1>6. ASSUME NEW r \in requests, WriteEnds(r)
        PROVE  StoredInv'
    <2>1. UNCHANGED <<rows, version, lists, deleted>>
      BY <1>6 DEF WriteEnds, server, history
    <2>2. CASE requests' = requests \ {r}
      BY <1>2, <2>1, <2>2
    <2>3. CASE requests' = (requests \ {r}) \cup {[r EXCEPT !.planned = FALSE, !.plan = NoPlan]}
      <3>. DEFINE s0 == [r EXCEPT !.planned = FALSE, !.plan = NoPlan]
      <3>1. ~s0.planned
        BY <1>1 DEF RequestFields
      <3>2. requests' = (requests \ {r}) \cup {s0}
        BY <2>3
      <3>. HIDE DEF s0
      <3>. QED BY <1>2, <2>1, <3>1, <3>2
    <2>. QED BY <1>6, <2>2, <2>3 DEF WriteEnds, Ends
  <1>7. ASSUME NEW r \in requests, Write(r)
        PROVE  StoredInv'
    <2>1. r.planned /\ ~deleted /\ version = r.base /\ ApplyEdit(r.plan, r.ops, r.edit)
          /\ requests' \subseteq requests
      BY <1>7 DEF Write, MayWrite, Ends
    <2>2. r.plan = Plan(r.ops) /\ AllInRange(Listed(rows), r.ops)
      BY <2>1, SoundParts DEF StoredInv, PlannedInv
    <2>. QED BY <1>1, <1>3, <2>1, <2>2
  <1>8. CASE OtherEdit
    <2>1. PICK ops \in OtherOps : AllInRange(Listed(rows), ops) /\ ApplyEdit(Plan(ops), ops, NoEdit)
      BY <1>8 DEF OtherEdit
    <2>2. ~deleted /\ requests' = requests /\ AreOps(ops)
      BY <1>8, PlaylistAssumption DEF OtherEdit
    <2>. QED BY <1>3, <2>1, <2>2
  <1>9. CASE GiveUp \/ \E r \in requests : HandlerFails(r)
    <2>1. requests' \subseteq requests /\ UNCHANGED <<rows, version, lists, deleted>>
      BY <1>9 DEF GiveUp, HandlerFails, server, history
    <2>. QED BY <1>2, <2>1
  <1>10. CASE UserEdit \/ UserUndo \/ ReadItems \/ ReadHeader \/ LoadFails \/ UNCHANGED playlistVars
    <2>1. requests' = requests /\ UNCHANGED <<rows, version, lists, deleted>>
      BY <1>10 DEF UserEdit, UserUndo, Make, ReadItems, ReadHeader, LoadFails, playlistVars, server,
                  history
    <2>. QED BY <1>2, <2>1
  <1>11. CASE Purge \/ Sweep \/ Delete
    <2>1. requests' = requests /\ UNCHANGED <<rows, version, lists, deleted>>
      BY <1>11 DEF Purge, Sweep, Delete, history
    <2>. QED BY <1>2, <2>1
  <1>. QED BY <1>4, <1>5, <1>6, <1>7, <1>8, <1>9, <1>10, <1>11 DEF PlaylistNext

(* The playlist starts as the rows of its first list.                      *)
LEMMA StoredInit == PlaylistInit => OpsInv /\ StoredInv
  <1>. SUFFICES ASSUME PlaylistInit PROVE OpsInv /\ StoredInv
    OBVIOUS
  <1>1. IsList(First)
    BY PlaylistAssumption
  <1>2. OpsInv
    <2>1. /\ page.items = First /\ page.shown = First /\ page.queue = <<>> /\ undo.ops = <<>>
          /\ requests = {}
      BY DEF PlaylistInit, NoUndo
    <2>. QED BY <1>1, <2>1, NoItems DEF OpsInv, PageOps
  <1>3. StoredInv
    <2>1. /\ rows = Spaced(First) /\ version = 1 /\ requests = {}
          /\ lists = <<First>>
      BY DEF PlaylistInit
    <2>2. RowsOk(Spaced(First)) /\ Listed(Spaced(First)) = First
      BY <1>1, SpacedListed DEF RowsOk
    <2>3. lists[version] = First
      BY <2>1
    <2>. QED BY <2>1, <2>2, <2>3 DEF StoredInv
  <1>. QED BY <1>2, <1>3

(* A plan made of the rows there are puts the items in order in them.      *)
LEMMA StoredIsMade ==
    ASSUME OpsInv, PlannedInv, StoredInv
    PROVE  ListIsWhatEditsMade
  <1>. SUFFICES ASSUME ~deleted PROVE ListIsWhatEditsMade
    BY DEF ListIsWhatEditsMade
  <1>1. RowsOk(rows) /\ Listed(rows) = lists[version]
    BY DEF StoredInv
  <1>2. ASSUME NEW r \in requests, r.planned, r.base = version
        PROVE  DOMAIN r.plan.insert \cap (DOMAIN rows \ r.plan.delete) = {}
    <2>1. AllInRange(Listed(rows), r.ops) /\ r.plan = Plan(r.ops) /\ AreOps(r.ops)
      BY <1>2 DEF StoredInv, PlannedInv, OpsInv
    <2>. QED BY <1>1, <2>1, PlanWrites
  <1>. QED BY <1>1, <1>2 DEF ListIsWhatEditsMade, RowsOk

\* Everything the rows and the page are proved from.
PlaylistInv == Sound /\ OpsInv /\ StoredInv

(* Every step keeps all of it: the rows need the ops to be in range, the   *)
(* page's list needs the rows, and the ops of a list loaded need that it   *)
(* is one.                                                                 *)
LEMMA PlaylistInvNext == PlaylistInv /\ [PlaylistNext]_playlistVars => PlaylistInv'
  <1>. SUFFICES ASSUME PlaylistInv, [PlaylistNext]_playlistVars PROVE PlaylistInv'
    OBVIOUS
  <1>1. Sound /\ OpsInv /\ StoredInv /\ PagesInv /\ PlannedInv
    BY DEF PlaylistInv, Sound
  <1>2. ListIsWhatEditsMade
    BY <1>1, StoredIsMade
  <1>3. PagesInv' /\ PlannedInv'
    BY <1>1, SafeNext, PlannedNext
  <1>4. ConfirmedInv'
    BY <1>1, <1>2, ConfirmedNext
  <1>5. OpsInv' /\ StoredInv'
    BY <1>1, OpsNext, StoredNext
  <1>. QED BY <1>3, <1>4, <1>5 DEF PlaylistInv, Sound

(* The invariant of the playlist, its pages and its requests: what was     *)
(* planned of the latest version is still what the edit makes of the       *)
(* rows, and a write makes a version no request was planned for (Read,     *)
(* write).                                                                 *)
THEOREM PlaylistInvariant == PlaylistSpec => []PlaylistInv
  <1>1. PlaylistInit => PlaylistInv
    BY SafeInit, ConfirmedInit, StoredInit DEF PlaylistInv, Sound, PlannedInv, PlaylistInit
  <1>2. PlaylistInv /\ [PlaylistNext]_playlistVars => PlaylistInv'
    BY PlaylistInvNext
  <1>. QED BY <1>1, <1>2, PTL DEF PlaylistSpec

(* Whatever is planned, refused, retried or overtaken, the rows in the     *)
(* order of their keys are what the edits applied made of the list,        *)
(* moved in between the keys that stay or renumbered, and no row a plan    *)
(* of the latest version inserts meets one that stays (keys.rs, Plan and   *)
(* write).                                                                 *)
THEOREM TheRowsAreTheList == PlaylistSpec => []ListIsWhatEditsMade
  <1>1. PlaylistInv => ListIsWhatEditsMade
    BY StoredIsMade DEF PlaylistInv, Sound
  <1>. QED BY <1>1, PlaylistInvariant, PTL

(* What a page has as confirmed is the list of that version: its own       *)
(* edits applied on answers that come late, twice or never, or a list      *)
(* read a page at a time while others change it (EditablePlaylist.#send,   *)
(* loadPlaylist).                                                          *)
THEOREM ThePageConfirmsTheList == PlaylistSpec => []ConfirmedIsStored
  <1>1. PlaylistInv => ConfirmedIsStored
    BY DEF PlaylistInv, Sound, ConfirmedInv, ConfirmOk, ConfirmedIsStored
  <1>. QED BY <1>1, PlaylistInvariant, PTL
=============================================================================
