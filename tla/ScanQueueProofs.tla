-------------------------- MODULE ScanQueueProofs --------------------------
(***************************************************************************)
(* Proofs about the scan queue, for every set of roots and folders, every  *)
(* set of requests and every bound on scans, failures and stops; and of    *)
(* the sweep that coalesces a request, for every request.                  *)
(***************************************************************************)
EXTENDS MCScanQueue, FiniteSetTheorems, WellFoundedInduction, TLAPS

-----------------------------------------------------------------------------
(* What the queue relies on of the scopes: covering is a partial order,    *)
(* and coalescing a request loses none of its work.                        *)

(* Any scope at all, of whatever roots and folders.                        *)
AnyScope == [root : Nat, path : Seq(Nat), depth : {"subtree", "directory"}]

(* The scopes of a library are among them.                                 *)
LEMMA ScopesAreAny == Scope \subseteq AnyScope
  BY RootAssumption, PathAssumption DEF Scope, AnyScope

(* A scope visits the files it visits (Scope::covers of itself).           *)
LEMMA CoversReflexive == \A s \in AnyScope : Covers(s, s)
  BY DEF Covers, AnyScope, StartsWith

(* One path begins another that begins a third (Path::starts_with).        *)
LEMMA StartsWithTransitive ==
  ASSUME NEW p \in Seq(Nat), NEW q \in Seq(Nat), NEW r \in Seq(Nat),
         StartsWith(r, q), StartsWith(q, p)
  PROVE  StartsWith(r, p)
<1>1. /\ p \in Seq(Nat) /\ q \in Seq(Nat) /\ r \in Seq(Nat)
  OBVIOUS
<1>2. /\ Len(p) \in Nat /\ Len(q) \in Nat /\ Len(r) \in Nat
  BY <1>1
<1>3. Len(p) <= Len(r)
  BY <1>2 DEF StartsWith
<1>4. ASSUME NEW i \in 1 .. Len(p) PROVE r[i] = p[i]
  BY <1>2, SMTT(20) DEF StartsWith
<1> QED
  BY <1>3, <1>4 DEF StartsWith

(* Two paths that begin each other are one.                                *)
LEMMA StartsWithLength ==
  ASSUME NEW p \in Seq(Nat), NEW q \in Seq(Nat), StartsWith(q, p), Len(q) <= Len(p)
  PROVE  p = q
<1>1. /\ p \in Seq(Nat) /\ q \in Seq(Nat)
  OBVIOUS
<1>2. Len(p) = Len(q)
  BY <1>1 DEF StartsWith
<1> QED
  BY <1>1, <1>2, SMTT(20) DEF StartsWith

(* What a covering scope covers is covered (Scope::covers).                *)
LEMMA CoversTransitive ==
  ASSUME NEW a \in AnyScope, NEW b \in AnyScope, NEW c \in AnyScope,
         Covers(a, b), Covers(b, c)
  PROVE  Covers(a, c)
<1>1. /\ a.path \in Seq(Nat) /\ b.path \in Seq(Nat) /\ c.path \in Seq(Nat)
      /\ {a.depth, b.depth, c.depth} \subseteq {"subtree", "directory"}
  BY DEF AnyScope
<1>2. CASE b.depth = "subtree"
  <2>1. StartsWith(b.path, a.path) /\ StartsWith(c.path, b.path)
    BY <1>2 DEF Covers
  <2>2. StartsWith(c.path, a.path)
    BY <1>1, <2>1, StartsWithTransitive
  <2> QED
    BY <1>2, <2>2 DEF Covers
<1>3. CASE b.depth = "directory"
  BY <1>3 DEF Covers
<1> QED
  BY <1>1, <1>2, <1>3

(* The same of whole scans (Scan::covers).                                 *)
LEMMA CoversAllTransitive ==
  ASSUME NEW R \in SUBSET AnyScope, NEW S \in SUBSET AnyScope, NEW T \in SUBSET AnyScope,
         CoversAll(R, S), CoversAll(S, T)
  PROVE  CoversAll(R, T)
<1> SUFFICES ASSUME NEW t \in T PROVE \E r \in R : Covers(r, t)
  BY DEF CoversAll
<1>1. PICK s \in S : Covers(s, t)
  BY DEF CoversAll
<1>2. PICK r \in R : Covers(r, s)
  BY DEF CoversAll
<1> QED
  BY <1>1, <1>2, CoversTransitive

(* A set of natural numbers has a least one.                               *)
LEMMA LeastNat ==
  ASSUME NEW T \in SUBSET Nat, T # {}
  PROVE  \E x \in T : \A y \in T : x <= y
<1> DEFINE Less == {ss \in Nat \X Nat : ss[1] < ss[2]}
<1>1. OpToRel(<, Nat) = Less
  BY DEF OpToRel
<1>2. IsWellFoundedOn(Less, Nat)
  BY <1>1, NatLessThanWellFounded
<1> HIDE DEF Less
<1>3. \E x \in T : \A y \in T : ~ (<<y, x>> \in Less)
  BY <1>2, WFMin
<1>4. \A x, y \in T : <<y, x>> \notin Less => x <= y
  BY DEF Less
<1> QED
  BY <1>3, <1>4

-----------------------------------------------------------------------------
(* How wide a scope is: of two scopes one of which covers the other, the   *)
(* covering one has the smaller rank.                                      *)
Rank(s) == 2 * Len(s.path) + (IF s.depth = "subtree" THEN 0 ELSE 1)

(* A rank and a depth are natural numbers.                                 *)
LEMMA RankType == \A s \in AnyScope : Rank(s) \in Nat /\ Len(s.path) \in Nat
<1> SUFFICES ASSUME NEW s \in AnyScope PROVE Rank(s) \in Nat /\ Len(s.path) \in Nat
  OBVIOUS
<1>1. s.path \in Seq(Nat)
  BY DEF AnyScope
<1>2. Len(s.path) \in Nat
  BY <1>1
<1>3. /\ s.depth = "subtree" => Rank(s) = 2 * Len(s.path) + 0
      /\ s.depth # "subtree" => Rank(s) = 2 * Len(s.path) + 1
  BY DEF Rank
<1> QED
  BY <1>2, <1>3

(* Covering is antisymmetric: only a scope itself covers it from no lower. *)
LEMMA CoveredByNoLower ==
  ASSUME NEW s \in AnyScope, NEW u \in AnyScope, Covers(u, s), Rank(s) <= Rank(u)
  PROVE  u = s
<1>1. /\ s.path \in Seq(Nat) /\ u.path \in Seq(Nat) /\ s.root \in Nat /\ u.root \in Nat
      /\ {s.depth, u.depth} \subseteq {"subtree", "directory"}
      /\ s = [root |-> s.root, path |-> s.path, depth |-> s.depth]
      /\ u = [root |-> u.root, path |-> u.path, depth |-> u.depth]
  BY DEF AnyScope
<1>2. /\ Len(s.path) \in Nat /\ Len(u.path) \in Nat
  BY RankType
<1>3. s.root = u.root
  BY DEF Covers
<1>4. CASE u.depth = "subtree"
  <2>1. StartsWith(s.path, u.path)
    BY <1>4 DEF Covers
  <2>2. Len(s.path) <= Len(u.path) /\ s.depth = "subtree"
    BY <1>1, <1>2, <1>4, <2>1 DEF Rank, StartsWith
  <2>3. s.path = u.path
    BY <1>1, <2>1, <2>2, StartsWithLength
  <2> QED
    BY <1>1, <1>3, <1>4, <2>2, <2>3
<1>5. CASE u.depth = "directory"
  BY <1>1, <1>3, <1>5 DEF Covers
<1> QED
  BY <1>1, <1>4, <1>5

(* Coalescing keeps only scopes of the request.                            *)
LEMMA CoalesceIsPart == \A S : Coalesce(S) \subseteq S
  BY DEF Coalesce

(* coalesce_scopes drops no work: whatever the request, however large and  *)
(* however its scopes nest, what is kept covers every scope asked for.     *)
THEOREM CoalesceCovers ==
  ASSUME NEW S \in SUBSET AnyScope
  PROVE  CoversAll(Coalesce(S), S)
<1> SUFFICES ASSUME NEW t \in S PROVE \E s \in Coalesce(S) : Covers(s, t)
  BY DEF CoversAll
<1> DEFINE C == {s \in S : Covers(s, t)}
           T == {Rank(s) : s \in C}
<1>1. t \in C
  BY CoversReflexive
<1>2. T \in SUBSET Nat /\ T # {}
  BY <1>1, RankType
<1>3. PICK x \in T : \A y \in T : x <= y
  BY <1>2, LeastNat
<1>4. PICK s \in C : x = Rank(s)
  BY <1>3
<1>5. ASSUME NEW u \in S, Covers(u, s) PROVE u = s
  <2>1. Covers(u, t)
    BY <1>4, <1>5, CoversTransitive
  <2>2. Rank(s) <= Rank(u)
    BY <1>3, <1>4, <1>5, <2>1
  <2> QED
    BY <1>4, <1>5, <2>2, CoveredByNoLower
<1> QED
  BY <1>4, <1>5 DEF Coalesce

-----------------------------------------------------------------------------
(* The scan that runs next is one that waits.                              *)
LEMMA FirstIsQueued ==
  ASSUME NEW Q \in SUBSET Scan, Q # {}
  PROVE  First(Q) \in Q
<1>1. \E i \in Q : \A j \in Q : i <= j
  BY LeastNat DEF Scan, BoundsAssumption
<1> QED
  BY <1>1 DEF First

(* What a trigger, the retry and the startup scan ask for are scopes.      *)
LEMMA AskedForScopes ==
  /\ \A S \in Requests : Coalesce(S) \in SUBSET Scope
  /\ \A S \in SUBSET Scope : Coalesce(S) \in SUBSET Scope
  /\ Coalesce(Library) \in SUBSET Scope
<1>1. Library \in SUBSET Scope
  BY PathAssumption DEF Library, RootScope, Scope
<1> QED
  BY <1>1, CoalesceIsPart, RequestsAssumption

-----------------------------------------------------------------------------
(* The shape of the state: types, and where a scan can be.                 *)
Shape == TypeOK /\ Numbers /\ Down /\ Worker

(* Asking for work keeps the types and numbers the new scan.               *)
LEMMA AskShape ==
  ASSUME Shape, up, NEW S \in SUBSET Scope, NEW c \in Caller, Ask(S, c),
         UNCHANGED <<up, shutdown, cursor, current, stops, before>>
  PROVE  /\ queued' \subseteq Scan /\ saving' \in [Caller -> SUBSET Scan]
         /\ created' \in 0 .. MaxScans /\ scopes' \in [Scan -> SUBSET Scope]
         /\ row' \in [Scan -> Live \cup Terminal \cup {"none"}]
         /\ rowCursor' \subseteq Scan /\ failures' \in 0 .. MaxFailures
         /\ waiting' \subseteq Scope /\ dormant' \subseteq Scope
         /\ walks' \in [Scan -> SUBSET Scope]
         /\ Numbers'
         /\ current \notin queued => current' \notin queued' \/ current' = NoScan
         /\ UNCHANGED <<rowCursor, walks>>
<1> USE BoundsAssumption DEF Shape, TypeOK, Scan, Caller, BoundsAssumption
<1>1. CASE Join(S)
  BY <1>1 DEF Join, Owe, Numbers, store
<1>2. CASE Create(S, c)
  <2>1. /\ NewScan \in Scan /\ created' = NewScan /\ NewScan > created
    BY <1>2 DEF Create, NewScan
  <2>2. ReplacedBy(S) \in SUBSET queued
    BY DEF ReplacedBy
  <2>3. /\ queued' \subseteq Scan /\ saving' \in [Caller -> SUBSET Scan]
        /\ created' \in 0 .. MaxScans /\ scopes' \in [Scan -> SUBSET Scope]
        /\ row' \in [Scan -> Live \cup Terminal \cup {"none"}]
        /\ rowCursor' \subseteq Scan /\ failures' \in 0 .. MaxFailures
        /\ waiting' \subseteq Scope /\ dormant' \subseteq Scope
        /\ walks' \in [Scan -> SUBSET Scope]
    <3>1. queued' \subseteq Scan
      BY <1>2, <2>1, <2>2 DEF Create
    <3>2. saving' \in [Caller -> SUBSET Scan]
      BY <1>2, <2>2 DEF Create
    <3>3. scopes' \in [Scan -> SUBSET Scope]
      BY <1>2 DEF Create
    <3>4. row' \in [Scan -> Live \cup Terminal \cup {"none"}]
      BY <1>2 DEF Create, Live
    <3>5. /\ created' \in 0 .. MaxScans /\ failures' \in 0 .. MaxFailures
          /\ UNCHANGED <<rowCursor, walks>>
      BY <1>2 DEF Create, StoreAnswers
    <3>6. waiting' \subseteq Scope /\ dormant' \subseteq Scope
      BY <1>2 DEF Create, Owe
    <3> QED
      BY <3>1, <3>2, <3>3, <3>4, <3>5, <3>6
  <2>4. Numbers'
    BY <1>2, <2>1, <2>2 DEF Create, Numbers
  <2>5. current \notin queued => current' \notin queued' \/ current' = NoScan
    BY <1>2, <2>1, <2>2 DEF Create, Numbers
  <2> QED
    BY <1>2, <2>3, <2>4, <2>5 DEF Create
<1>3. CASE Refuse(S)
  <2>1. /\ UNCHANGED <<queued, saving, store, waiting, walks, dormant>>
        /\ failures' \in 0 .. MaxFailures
    BY <1>3 DEF Refuse, StoreFails, StoreAnswers
  <2>2. Numbers'
    BY <2>1 DEF Numbers, store
  <2> QED
    BY <2>1, <2>2 DEF store
<1> QED
  BY <1>1, <1>2, <1>3 DEF Ask

(* Every step keeps the shape of the state.                                *)
LEMMA ShapeStep == Shape /\ [Next]_vars => Shape'
<1> SUFFICES ASSUME Shape, [Next]_vars PROVE Shape'
  OBVIOUS
<1> USE BoundsAssumption
    DEF Shape, TypeOK, Numbers, Down, Worker, Scan, Phase, NoScan, Caller, BoundsAssumption
<1>0. ASSUME NEW S \in SUBSET Scope, up, Ask(S, "caller"), booting' \in BOOLEAN,
             UNCHANGED <<up, shutdown, cursor, retry, phase, current, inHand, stops, away, before>>
      PROVE  Shape'
  <2>1. TypeOK'
    BY <1>0, AskShape
  <2>2. Numbers'
    BY <1>0, AskShape
  <2>3. Down' /\ Worker'
    BY <1>0, AskShape
  <2> QED
    BY <2>1, <2>2, <2>3
<1>1. ASSUME NEW S \in Requests, Request(S) PROVE Shape'
  <2>1. Coalesce(S) \in SUBSET Scope
    BY AskedForScopes
  <2> QED
    BY <1>0, <1>1, <2>1 DEF Request
<1>2. ASSUME NEW c \in Caller, Cancel(c) PROVE Shape'
  <2>1. PICK i \in saving[c] : Cancel(c)!(i)
    BY <1>2 DEF Cancel
  <2>2. /\ saving' \in [Caller -> SUBSET Scan] /\ \A w \in Caller : saving'[w] \subseteq saving[w]
        /\ row' \in [Scan -> Live \cup Terminal \cup {"none"}]
        /\ failures' \in 0 .. MaxFailures
    <3>1. saving' \in [Caller -> SUBSET Scan] /\ \A w \in Caller : saving'[w] \subseteq saving[w]
      BY <2>1
    <3>2. row' \in [Scan -> Live \cup Terminal \cup {"none"}]
      BY <2>1 DEF Terminal
    <3>3. failures' \in 0 .. MaxFailures
      BY <2>1 DEF StoreFails, StoreAnswers
    <3> QED
      BY <3>1, <3>2, <3>3
  <2>3. TypeOK'
    BY <2>1, <2>2 DEF owed
  <2>4. Numbers'
    BY <2>1, <2>2 DEF owed
  <2>5. Down' /\ Worker'
    BY <2>1, <2>2
  <2> QED
    BY <2>3, <2>4, <2>5
<1>3. CASE TakeRetry
  BY <1>3 DEF TakeRetry, WorkerFree, store, owed
<1>4. CASE RequestRetry
  <2>1. Coalesce(inHand) \in SUBSET Scope
    BY AskedForScopes
  <2> QED
    BY <1>4, <2>1, AskShape DEF RequestRetry
<1>5. CASE Pop
  <2>1. First(queued) \in queued
    BY <1>5, FirstIsQueued DEF Pop
  <2>2. waiting' \subseteq Scope /\ dormant' \subseteq Scope
    BY <1>5 DEF Pop, Undertake
  <2>3. TakesOn(First(queued)) \in SUBSET Scope
    BY DEF TakesOn, CoveredBy
  <2>4. walks' \in [Scan -> SUBSET Scope]
    BY <1>5, <2>3, SMTT(20) DEF Pop, Undertake
  <2>5. ASSUME NEW i \in Scan, i > created PROVE walks'[i] = {}
    <3>1. i \notin queued /\ i # First(queued) /\ walks[i] = {}
      BY <2>1, <2>5
    <3> QED
      BY <1>5, <3>1 DEF Pop, Undertake
  <2>6. TypeOK'
    BY <1>5, <2>1, <2>2, <2>4 DEF Pop, store
  <2>7. Numbers'
    BY <1>5, <2>1, <2>5 DEF Pop, store
  <2>8. Down' /\ Worker'
    BY <1>5, <2>1 DEF Pop, WorkerFree
  <2> QED
    BY <2>6, <2>7, <2>8
<1>6. CASE StartWalk
  BY <1>6 DEF StartWalk, Live, owed
<1>7. CASE Flush
  BY <1>7 DEF Flush, owed
<1>8. CASE WalkEnds
  <2>1. PICK U \in SUBSET scopes[current] : EndWalk(U)
    BY <1>8 DEF WalkEnds
  <2>2. current \in Scan
    BY <2>1 DEF EndWalk
  <2>3. walks[current] \in SUBSET Scope /\ U \in SUBSET Scope
    BY <2>2
  <2>4. /\ row' \in [Scan -> Live \cup Terminal \cup {"none"}] /\ inHand' \subseteq Scope
        /\ away' \subseteq Scope /\ walks' \in [Scan -> SUBSET Scope]
    BY <2>1, <2>3 DEF EndWalk, Terminal
  <2>5. TypeOK'
    BY <2>1, <2>4 DEF EndWalk
  <2>6. Numbers'
    BY <2>1 DEF EndWalk
  <2>7. Down' /\ Worker'
    BY <2>1 DEF EndWalk
  <2> QED
    BY <2>5, <2>6, <2>7
<1>9. CASE StopWalk
  BY <1>9 DEF StopWalk, RowAtStop, owed
<1>10. CASE GiveUp
  <2>1. /\ row' \in [Scan -> Live \cup Terminal \cup {"none"}]
        /\ walks' \in [Scan -> SUBSET Scope] /\ failures' \in 0 .. MaxFailures
    BY <1>10 DEF GiveUp, StoreFails, Terminal
  <2>2. TypeOK'
    BY <1>10, <2>1 DEF GiveUp
  <2>3. Numbers'
    BY <1>10 DEF GiveUp
  <2>4. Down' /\ Worker'
    BY <1>10 DEF GiveUp
  <2> QED
    BY <2>2, <2>3, <2>4
<1>11. CASE Settle
  <2>1. RetryLater(retry, inHand) \in SUBSET Scope
    BY AskedForScopes DEF RetryLater
  <2> QED
    BY <1>11, <2>1 DEF Settle, store, owed
<1>12. CASE Stop
  BY <1>12 DEF Stop, store, owed
<1>13. ASSUME Forget, stops' \in 0 .. MaxStops PROVE Shape'
  <2>1. TypeOK'
    BY <1>13 DEF Forget, store
  <2>2. Numbers'
    BY <1>13 DEF Forget, store
  <2>3. Down' /\ Worker'
    BY <1>13 DEF Forget, store
  <2> QED
    BY <2>1, <2>2, <2>3
<1>14. CASE Exit \/ Crash
  <2>1. Forget
    BY <1>14 DEF Exit, Crash
  <2>2. stops' \in 0 .. MaxStops
    BY <1>14 DEF Exit, Crash
  <2> QED
    BY <1>13, <2>1, <2>2
<1>15. CASE Start
  <2>1. /\ Interrupted \subseteq {i \in Scan : row[i] # "none"}
        /\ failures' \in 0 .. MaxFailures
    BY <1>15 DEF Start, Interrupted, StoreFails, StoreAnswers, Live
  <2>2. dormant' \in SUBSET Scope
    BY <1>15 DEF Start
  <2>3. TypeOK'
    BY <1>15, <2>1, <2>2 DEF Start, ResumedCursors, store
  <2>4. Numbers'
    BY <1>15, <2>1 DEF Start, ResumedCursors, store
  <2>5. Down' /\ Worker'
    BY <1>15, <2>1 DEF Start, store
  <2> QED
    BY <2>3, <2>4, <2>5
<1>16. CASE StartupRequest
  <2>1. Coalesce(Library) \in SUBSET Scope
    BY AskedForScopes
  <2> QED
    BY <1>0, <1>16, <2>1 DEF StartupRequest
<1>17. CASE UNCHANGED vars
  BY <1>17 DEF vars, memory, store, owed
<1> QED
  BY <1>1, <1>2, <1>3, <1>4, <1>5, <1>6, <1>7, <1>8, <1>9, <1>10, <1>11, <1>12, <1>13,
     <1>14, <1>15, <1>16, <1>17 DEF Next, WorkerCancels, CallerCancels

-----------------------------------------------------------------------------
(* What the rows say of the queue and of the worker's scan.                *)
Rows == QueueMatchesRows /\ Ended /\ TookOnItsOwn

(* Asking for work keeps the rows in line with the queue (Inner::request). *)
LEMMA AskRows ==
  ASSUME Shape, Rows, up, NEW S \in SUBSET Scope, NEW c \in Caller, Ask(S, c),
         UNCHANGED <<up, shutdown, cursor, current>>, phase' \in {phase, "idle"}
  PROVE  Rows'
<1> USE DEF Shape, Rows, QueueMatchesRows, Ended, TookOnItsOwn, CoversAll
<1>1. CASE Join(S)
  BY <1>1 DEF Join, store
<1>2. CASE Create(S, c)
  <2>1. /\ NewScan \in Scan /\ NewScan > created /\ NewScan # NoScan
        /\ ReplacedBy(S) \subseteq queued
    BY <1>2, BoundsAssumption
       DEF Create, NewScan, ReplacedBy, TypeOK, Scan, NoScan, BoundsAssumption
  <2>2. /\ row'[NewScan] = "queued" /\ walks' = walks /\ rowCursor' = rowCursor
        /\ \A i \in Scan : i # NewScan => row'[i] = row[i] /\ scopes'[i] = scopes[i]
    BY <1>2, <2>1 DEF Create, TypeOK
  <2>3. /\ walks[NewScan] = {} /\ current # NewScan
        /\ NewScan \notin cursor /\ NewScan \notin rowCursor
        /\ NewScan \notin saving["caller"] /\ NewScan \notin saving["worker"]
        /\ NewScan \notin queued
    BY <2>1 DEF Numbers
  <2>4. \A i \in queued' : row'[i] \in Live /\ (i \in cursor' <=> i \in rowCursor')
    BY <1>2, <2>1, <2>2, <2>3 DEF Create, Live, TypeOK
  <2>5. phase' \in {"popped", "walking"} => row'[current'] \in Live
    BY <2>2, <2>3 DEF Worker
  <2>6. (saving["caller"] \cup saving["worker"] \cup ReplacedBy(S)) \cap
            (queued' \cup {current'}) = {}
    <3>1. current \notin queued
      BY DEF Worker, TypeOK, Scan, NoScan, Phase
    <3> QED
      BY <1>2, <2>1, <2>3, <3>1 DEF Create
  <2>7. saving'["caller"] \cup saving'["worker"] \subseteq
            saving["caller"] \cup saving["worker"] \cup ReplacedBy(S)
    BY <1>2 DEF Create, TypeOK, Caller
  <2>8. QueueMatchesRows'
    BY <2>4, <2>5, <2>6, <2>7
  <2>9. Ended'
    BY <2>2, <2>3 DEF Worker
  <2>10. TookOnItsOwn'
    BY <2>2, <2>3
  <2> QED
    BY <2>8, <2>9, <2>10
<1>3. CASE Refuse(S)
  BY <1>3 DEF Refuse, store
<1> QED
  BY <1>1, <1>2, <1>3 DEF Ask

(* Every step keeps the rows in line with the queue, and a scan that ended *)
(* with work left has a live row (worker.rs, Scanner::start).              *)
LEMMA RowsStep == Shape /\ Rows /\ [Next]_vars => Rows'
<1> SUFFICES ASSUME Shape, Rows, [Next]_vars PROVE Rows'
  OBVIOUS
<1> USE DEF Shape, Rows, QueueMatchesRows, Ended, TookOnItsOwn
<1>0. current \notin queued
  BY DEF Worker, TypeOK, Scan, NoScan, Phase
<1>1. ASSUME NEW S \in Requests, Request(S) PROVE Rows'
  <2>1. Coalesce(S) \in SUBSET Scope
    BY AskedForScopes
  <2> QED
    BY <1>1, <2>1, AskRows DEF Request, Caller
<1>2. ASSUME NEW c \in Caller, Cancel(c) PROVE Rows'
  <2>1. PICK i \in saving[c] : Cancel(c)!(i)
    BY <1>2 DEF Cancel
  <2>2. /\ i \in saving["caller"] \cup saving["worker"] /\ i \notin queued /\ i # current
        /\ saving'["caller"] \subseteq saving["caller"]
        /\ saving'["worker"] \subseteq saving["worker"]
    BY <2>1 DEF Caller, TypeOK
  <2>3. \A j \in Scan : j # i => row'[j] = row[j]
    BY <2>1 DEF TypeOK
  <2> QED
    BY <2>1, <2>2, <2>3 DEF TypeOK, Worker, owed
<1>3. CASE TakeRetry
  BY <1>3 DEF TakeRetry, store, owed, WorkerFree
<1>4. CASE RequestRetry
  <2>1. Coalesce(inHand) \in SUBSET Scope
    BY AskedForScopes DEF TypeOK
  <2> QED
    BY <1>4, <2>1, AskRows DEF RequestRetry, Caller
<1>5. CASE Pop
  <2>1. First(queued) \in queued
    BY <1>5, FirstIsQueued DEF Pop, TypeOK
  <2>2. TookOnItsOwn'
    BY <1>5, <2>1 DEF Pop, Undertake, TakesOn, CoveredBy, CoversAll, store, TypeOK
  <2>3. QueueMatchesRows' /\ Ended'
    BY <1>5, <2>1 DEF Pop, store
  <2> QED
    BY <2>2, <2>3
<1>6. CASE StartWalk
  BY <1>0, <1>6 DEF StartWalk, Live, owed, TypeOK
<1>7. CASE Flush
  BY <1>0, <1>7 DEF Flush, owed
<1>8. CASE WalkEnds
  BY <1>0, <1>8 DEF WalkEnds, EndWalk, TypeOK
<1>9. CASE StopWalk
  BY <1>9 DEF StopWalk, RowAtStop, owed
<1>10. CASE GiveUp
  <2>1. /\ current \in Scan /\ walks'[current] = {} /\ current' = current /\ phase' = "ended"
        /\ UNCHANGED <<queued, cursor, rowCursor, saving, scopes>>
        /\ \A i \in Scan : i # current => row'[i] = row[i] /\ walks'[i] = walks[i]
    BY <1>10 DEF GiveUp, Worker, TypeOK
  <2> QED
    BY <1>0, <2>1, <1>10 DEF GiveUp, TypeOK
<1>11. CASE Settle
  <2>1. /\ current' = NoScan /\ phase' = "idle"
        /\ UNCHANGED <<queued, cursor, saving, scopes, row, rowCursor, walks>>
    BY <1>11 DEF Settle, store, owed
  <2>2. NoScan \notin saving["caller"] \cup saving["worker"]
    BY BoundsAssumption DEF TypeOK, Caller, Scan, NoScan, BoundsAssumption
  <2>3. QueueMatchesRows'
    BY <1>11, <2>1, <2>2 DEF Settle
  <2> QED
    BY <2>1, <2>3 DEF CoversAll
<1>12. CASE Stop
  BY <1>12 DEF Stop, store, owed
<1>13. CASE Exit \/ Crash
  <2>1. ~up' /\ phase' = "idle" /\ scopes' = scopes /\ walks' = walks
    BY <1>13 DEF Exit, Crash, Forget, store
  <2> QED
    BY <2>1 DEF CoversAll
<1>14. CASE Start
  <2>1. /\ phase' = "idle" /\ current' = NoScan
        /\ saving'["caller"] = {} /\ saving'["worker"] = {}
        /\ queued' \subseteq Interrupted /\ cursor' = rowCursor
        /\ UNCHANGED <<scopes, row, rowCursor, walks>>
    BY <1>14 DEF Start, ResumedCursors, store, Down
  <2> QED
    BY <2>1 DEF Interrupted, CoversAll
<1>15. CASE StartupRequest
  <2>1. Coalesce(Library) \in SUBSET Scope
    BY AskedForScopes
  <2> QED
    BY <1>15, <2>1, AskRows DEF StartupRequest, Caller
<1>16. CASE UNCHANGED vars
  BY <1>16 DEF vars, memory, store, owed
<1> QED
  BY <1>1, <1>2, <1>3, <1>4, <1>5, <1>6, <1>7, <1>8, <1>9, <1>10, <1>11, <1>12, <1>13,
     <1>14, <1>15, <1>16 DEF Next, WorkerCancels, CallerCancels, Caller

-----------------------------------------------------------------------------
(* Asking for work keeps every scope that a queued scan will walk from its *)
(* start with one that does, and gives those asked for one (request).      *)
LEMMA AskFresh ==
  ASSUME Shape, Rows, up, NEW S \in SUBSET Scope, NEW c \in Caller, Ask(S, c),
         UNCHANGED <<cursor, current>>
  PROVE  /\ \A s \in Scope : Fresh(s) => Fresh(s)'
         /\ waiting \subseteq waiting' /\ dormant' \subseteq dormant
         /\ \A s \in waiting' : s \in waiting \/ Fresh(s)'
         /\ \A s \in dormant : s \in dormant' \/ Fresh(s)'
         /\ walks' = walks
         /\ \A i \in Scan : \A s \in walks[i] : i \in queued => i \in queued' \/ Fresh(s)'
         /\ \A i \in Scan : Untouched(i) => Untouched(i)'
         /\ \A s \in Scope : UntouchedFresh(s) => UntouchedFresh(s)'
<1> USE DEF Shape
<1>1. CASE Join(S)
  <2>1. UNCHANGED <<queued, saving, store, walks>> /\ Owe(S)
    BY <1>1 DEF Join
  <2>2. \A s \in Scope : Fresh(s)' <=> Fresh(s)
    BY <2>1 DEF Fresh, Joinable, store
  <2>3. \A s \in S : Fresh(s)'
    <3>1. PICK q \in queued : Joinable(q) /\ CoversAll(scopes[q], S)
      BY <1>1 DEF Join, Joins
    <3> QED
      BY <2>2, <3>1 DEF Fresh, CoversAll
  <2> QED
    BY <2>1, <2>2, <2>3 DEF Owe, UntouchedFresh, Untouched, store
<1>2. CASE Create(S, c)
  <2>1. /\ NewScan \in Scan /\ NewScan > created /\ ReplacedBy(S) \subseteq queued
    BY <1>2, BoundsAssumption DEF Create, NewScan, ReplacedBy, TypeOK, Scan, BoundsAssumption
  <2>2. /\ scopes'[NewScan] = S /\ walks' = walks /\ rowCursor' = rowCursor
        /\ queued' = (queued \ ReplacedBy(S)) \cup {NewScan}
        /\ \A i \in Scan : i # NewScan => row'[i] = row[i] /\ scopes'[i] = scopes[i]
    BY <1>2, <2>1 DEF Create, TypeOK
  <2>3. /\ NewScan \notin cursor /\ row[NewScan] \notin Live /\ NewScan \notin queued
    BY <2>1 DEF Numbers, Live
  <2>4. \A s \in Scope : CoversAll(S, {s}) => Fresh(s)'
    BY <2>2, <2>3 DEF Fresh, Joinable
  <2>5. \A i \in ReplacedBy(S) : \A s \in Scope : CoversAll(scopes[i], {s}) => Fresh(s)'
    <3> SUFFICES ASSUME NEW i \in ReplacedBy(S), NEW s \in Scope, CoversAll(scopes[i], {s})
                 PROVE  CoversAll(S, {s})
      BY <2>4
    <3>1. CoversAll(S, scopes[i]) /\ scopes[i] \in SUBSET Scope
      BY <2>1 DEF ReplacedBy, TypeOK
    <3> QED
      BY <3>1, CoversAllTransitive, ScopesAreAny
  <2>6. ASSUME NEW s \in Scope, Fresh(s) PROVE Fresh(s)'
    <3>1. PICK q \in queued : Joinable(q) /\ CoversAll(scopes[q], {s})
      BY <2>6 DEF Fresh
    <3>2. CASE q \in ReplacedBy(S)
      BY <2>5, <3>1, <3>2
    <3>3. CASE q \notin ReplacedBy(S)
      BY <2>2, <2>3, <3>1, <3>3 DEF Fresh, Joinable, TypeOK
    <3> QED
      BY <3>2, <3>3
  <2>7. \A s \in S : Fresh(s)'
    BY <2>4, CoversReflexive, ScopesAreAny DEF CoversAll
  <2>8. ASSUME NEW i \in Scan, NEW s \in walks[i], i \in queued
        PROVE  i \in queued' \/ Fresh(s)'
    <3>1. CoversAll(scopes[i], {s}) /\ s \in Scope
      BY DEF Rows, TookOnItsOwn, TypeOK
    <3> QED
      BY <2>2, <2>5, <2>8, <3>1
  <2>9. ASSUME NEW i \in Scan, Untouched(i) PROVE Untouched(i)'
    <3>1. i # NewScan /\ i \notin ReplacedBy(S)
      BY <2>1, <2>3, <2>9 DEF Untouched
    <3>2. /\ saving'["caller"] \subseteq saving["caller"] \cup ReplacedBy(S)
          /\ saving'["worker"] \subseteq saving["worker"] \cup ReplacedBy(S)
      BY <1>2 DEF Create, TypeOK
    <3> QED
      BY <2>2, <2>9, <3>1, <3>2 DEF Untouched
  <2>10. ASSUME NEW s \in Scope, UntouchedFresh(s) PROVE UntouchedFresh(s)'
    <3>1. PICK i \in Scan : Untouched(i) /\ i \notin rowCursor /\ CoversAll(scopes[i], {s})
      BY <2>10 DEF UntouchedFresh
    <3>2. i # NewScan
      BY <2>3, <3>1 DEF Untouched
    <3> QED
      BY <2>2, <2>9, <3>1, <3>2 DEF UntouchedFresh
  <2> QED
    BY <1>2, <2>2, <2>6, <2>7, <2>8, <2>9, <2>10 DEF Create, Owe
<1>3. CASE Refuse(S)
  <2>1. UNCHANGED <<queued, saving, store, waiting, walks, dormant>>
    BY <1>3 DEF Refuse
  <2> QED
    BY <2>1 DEF Fresh, Joinable, UntouchedFresh, Untouched, store
<1> QED
  BY <1>1, <1>2, <1>3 DEF Ask

(* What is owed has a keeper, in memory and in the store.                  *)
Kept == WaitingIsFresh /\ WalksAreKept /\ WaitingIsSafe /\ WalksAreSafe

(* A step keeps it when whatever loses its keeper finds another.           *)
LEMMA KeptTransfer ==
  ASSUME Kept,
         shutdown => shutdown',
         \A i \in Scan : Untouched(i) => Untouched(i)',
         \A s \in waiting' : UntouchedFresh(s) => UntouchedFresh(s)',
         \A i \in Scan : \A s \in walks'[i] : UntouchedFresh(s) => UntouchedFresh(s)',
         \A s \in waiting' :
            \/ Fresh(s)'
            \/ s \in waiting /\ ~Fresh(s) /\ (s \in dormant => s \in dormant'),
         \A i \in Scan : \A s \in walks'[i] :
            \/ Fresh(s)'
            \/ i \in queued' \cup {current'}
            \/ shutdown' /\ Untouched(i)'
            \/ /\ s \in walks[i] /\ ~Fresh(s) /\ i \notin queued \cup {current}
               /\ s \in dormant => s \in dormant'
  PROVE  Kept'
<1>1. WaitingIsFresh'
  BY DEF Kept, WaitingIsFresh
<1>2. WaitingIsSafe'
  BY DEF Kept, WaitingIsSafe
<1>3. WalksAreKept'
  BY DEF Kept, WalksAreKept
<1>4. WalksAreSafe'
  BY DEF Kept, WalksAreSafe
<1> QED
  BY <1>1, <1>2, <1>3, <1>4 DEF Kept

(* Every step of a running process keeps what is owed.                     *)
LEMMA AskKeeps ==
  ASSUME Shape, Rows, Kept, up, NEW S \in SUBSET Scope, NEW c \in Caller, Ask(S, c),
         UNCHANGED <<shutdown, cursor, current>>
  PROVE  Kept'
<1>1. /\ \A s \in Scope : Fresh(s) => Fresh(s)'
      /\ waiting \subseteq waiting' /\ dormant' \subseteq dormant
      /\ \A s \in waiting' : s \in waiting \/ Fresh(s)'
      /\ \A s \in dormant : s \in dormant' \/ Fresh(s)'
      /\ walks' = walks
      /\ \A i \in Scan : \A s \in walks[i] : i \in queued => i \in queued' \/ Fresh(s)'
      /\ \A i \in Scan : Untouched(i) => Untouched(i)'
      /\ \A s \in Scope : UntouchedFresh(s) => UntouchedFresh(s)'
  BY AskFresh
<1>2. waiting \subseteq Scope /\ \A i \in Scan : walks[i] \subseteq Scope
  BY DEF Shape, TypeOK
<1>3. \A s \in waiting : Fresh(s) \/ UntouchedFresh(s)
  BY DEF Kept, WaitingIsSafe
<1>4. WaitingIsFresh'
  BY <1>1, <1>2 DEF Kept, WaitingIsFresh
<1>5. WaitingIsSafe'
  BY <1>1, <1>2, <1>3 DEF WaitingIsSafe
<1>6. WalksAreKept'
  BY <1>1, <1>2 DEF Kept, WalksAreKept
<1>7. WalksAreSafe'
  BY <1>1, <1>2 DEF Kept, WalksAreSafe
<1> QED
  BY <1>4, <1>5, <1>6, <1>7 DEF Kept

(* Every step of a process that runs before and after it keeps a keeper    *)
(* for each part of what is owed (worker.rs, request.rs).                  *)
LEMMA KeptStep ==
  Shape /\ Rows /\ Kept /\ up /\ [Next]_vars /\ up' => Kept'
<1> SUFFICES ASSUME Shape, Rows, Kept, up, [Next]_vars, up' PROVE Kept'
  OBVIOUS
<1> USE DEF Shape
<1>0. /\ current \notin queued
      /\ current \notin saving["caller"] /\ current \notin saving["worker"]
  BY BoundsAssumption DEF Worker, TypeOK, Scan, NoScan, Phase, Caller, Rows, QueueMatchesRows,
                          BoundsAssumption
<1>c. NoScan \notin Scan
  BY BoundsAssumption DEF Scan, NoScan, BoundsAssumption
<1>a. ASSUME UNCHANGED <<shutdown, queued, cursor, current, saving, scopes, row, rowCursor,
                         waiting, walks, dormant>>
      PROVE  Kept'
  BY <1>a DEF Kept, WaitingIsFresh, WaitingIsSafe, WalksAreKept, WalksAreSafe, Fresh, Joinable,
              UntouchedFresh, Untouched
<1>1. ASSUME NEW S \in Requests, Request(S) PROVE Kept'
  <2>1. Coalesce(S) \in SUBSET Scope
    BY AskedForScopes
  <2> QED
    BY <1>1, <2>1, AskKeeps DEF Request, Caller
<1>2. ASSUME NEW c \in Caller, Cancel(c) PROVE Kept'
  <2>1. PICK i \in saving[c] : Cancel(c)!(i)
    BY <1>2 DEF Cancel
  <2>2. /\ i \in saving["caller"] \cup saving["worker"]
        /\ saving'["caller"] \subseteq saving["caller"]
        /\ saving'["worker"] \subseteq saving["worker"]
        /\ \A j \in Scan : j # i => row'[j] = row[j]
        /\ UNCHANGED <<shutdown, queued, cursor, current, scopes, rowCursor, waiting, walks, dormant>>
    BY <2>1 DEF Caller, TypeOK, owed
  <2>3. \A j \in Scan : Untouched(j) => Untouched(j)'
    BY <2>2 DEF Untouched
  <2>4. \A s \in Scope : /\ Fresh(s)' <=> Fresh(s)
                         /\ UntouchedFresh(s) => UntouchedFresh(s)'
    BY <2>2, <2>3 DEF Fresh, Joinable, UntouchedFresh
  <2>5. waiting \subseteq Scope /\ \A j \in Scan : walks[j] \subseteq Scope
    BY DEF TypeOK
  <2> QED
    BY <2>2, <2>3, <2>4, <2>5
       DEF Kept, WaitingIsFresh, WaitingIsSafe, WalksAreKept, WalksAreSafe
<1>3. CASE TakeRetry
  BY <1>3, <1>a DEF TakeRetry, store, owed
<1>4. CASE RequestRetry
  <2>1. Coalesce(inHand) \in SUBSET Scope
    BY AskedForScopes DEF TypeOK
  <2> QED
    BY <1>4, <2>1, AskKeeps DEF RequestRetry, Caller
<1>5. CASE Pop
  <2>1. First(queued) \in queued
    BY <1>5, FirstIsQueued DEF Pop, TypeOK
  <2> DEFINE q == First(queued)
  <2>2. /\ queued' = queued \ {q} /\ current' = q /\ Undertake(q) /\ current = NoScan
        /\ UNCHANGED <<shutdown, cursor, saving, scopes, row, rowCursor>>
    BY <1>5, <2>1 DEF Pop, WorkerFree, store, Worker
  <2>3. \A j \in Scan : Untouched(j) => Untouched(j)'
    BY <2>1, <2>2 DEF Untouched
  <2>4. \A s \in Scope : UntouchedFresh(s) => UntouchedFresh(s)'
    BY <2>2, <2>3 DEF UntouchedFresh
  <2>5. waiting \subseteq Scope /\ (\A j \in Scan : walks[j] \subseteq Scope) /\ q \in Scan
    BY <2>1 DEF TypeOK
  <2>6. ASSUME NEW s \in Scope, Fresh(s), q \in cursor \/ ~CoversAll(scopes[q], {s})
        PROVE  Fresh(s)'
    <3>1. PICK r \in queued : Joinable(r) /\ CoversAll(scopes[r], {s})
      BY <2>6 DEF Fresh
    <3>2. r # q
      BY <2>6, <3>1 DEF Joinable
    <3> QED
      BY <2>2, <3>1, <3>2 DEF Fresh, Joinable
  <2>7. CASE q \in cursor
    <3>1. UNCHANGED <<waiting, walks, dormant>> /\ \A s \in Scope : Fresh(s) => Fresh(s)'
      BY <2>2, <2>6, <2>7 DEF Undertake
    <3> HIDE DEF q
    <3> QED
      BY <1>c, <2>2, <2>3, <2>4, <2>5, <3>1
         DEF Kept, WaitingIsFresh, WaitingIsSafe, WalksAreKept, WalksAreSafe
  <2>8. CASE q \notin cursor
    <3>1. /\ waiting' = waiting \ TakesOn(q) /\ dormant' = dormant \ TakesOn(q)
          /\ walks' = [j \in Scan |-> IF j = q THEN TakesOn(q) ELSE walks[j] \ TakesOn(q)]
      BY <2>2, <2>8 DEF Undertake
    <3>2. \A s \in waiting \cup UNION {walks[j] : j \in Scan} :
            s \in TakesOn(q) <=> CoversAll(scopes[q], {s})
      BY DEF TakesOn, CoveredBy, CoversAll
    <3>3. \A s \in waiting' : Fresh(s) => Fresh(s)'
      BY <2>5, <2>6, <3>1, <3>2
    <3>4. \A j \in Scan \ {q} : \A s \in walks'[j] : /\ s \in walks[j] \ TakesOn(q)
                                                   /\ Fresh(s) => Fresh(s)'
      BY <2>5, <2>6, <3>1, <3>2
    <3> HIDE DEF q
    <3>5. WaitingIsFresh' /\ WaitingIsSafe'
      BY <2>4, <2>5, <3>1, <3>3 DEF Kept, WaitingIsFresh, WaitingIsSafe
    <3>6. WalksAreKept'
      BY <1>c, <2>2, <2>5, <3>1, <3>4 DEF Kept, WalksAreKept
    <3>7. WalksAreSafe'
      BY <1>c, <2>2, <2>3, <2>4, <2>5, <3>1, <3>4 DEF Kept, WalksAreSafe
    <3> QED
      BY <3>5, <3>6, <3>7 DEF Kept
  <2> QED
    BY <2>7, <2>8
<1>b. ASSUME UNCHANGED <<shutdown, queued, current, saving, scopes, waiting, dormant>>,
             cursor' \ {current} = cursor \ {current},
             rowCursor' \ {current} = rowCursor \ {current},
             \A i \in Scan : i # current => row'[i] = row[i],
             \A i \in Scan : walks'[i] \subseteq walks[i]
      PROVE  Kept'
  <2>1. \A i \in Scan : Untouched(i) => Untouched(i)'
    BY <1>b DEF Untouched
  <2>2. \A s \in Scope : Fresh(s) => Fresh(s)'
    BY <1>0, <1>b DEF Fresh, Joinable
  <2>3. \A s \in Scope : UntouchedFresh(s) => UntouchedFresh(s)'
    <3> SUFFICES ASSUME NEW s \in Scope, NEW i \in Scan, Untouched(i), i \notin rowCursor,
                        CoversAll(scopes[i], {s})
                 PROVE  UntouchedFresh(s)'
      BY DEF UntouchedFresh
    <3>1. i # current
      BY DEF Untouched
    <3> QED
      BY <1>b, <2>1, <3>1 DEF UntouchedFresh
  <2>4. waiting \subseteq Scope /\ \A i \in Scan : walks[i] \subseteq Scope
    BY DEF TypeOK
  <2> QED
    BY <1>b, <2>1, <2>2, <2>3, <2>4
       DEF Kept, WaitingIsFresh, WaitingIsSafe, WalksAreKept, WalksAreSafe
<1>6. CASE StartWalk
  BY <1>6, <1>b DEF StartWalk, owed, TypeOK
<1>7. CASE Flush
  BY <1>7, <1>b DEF Flush, owed
<1>8. CASE WalkEnds
  BY <1>8, <1>b DEF WalkEnds, EndWalk, TypeOK
<1>9. CASE StopWalk
  BY <1>9, <1>b DEF StopWalk, RowAtStop, owed
<1>10. CASE GiveUp
  BY <1>10, <1>b DEF GiveUp, TypeOK
<1>11. CASE Settle
  <2>1. /\ current' = NoScan
        /\ UNCHANGED <<shutdown, queued, cursor, saving, scopes, row, rowCursor,
                       waiting, walks, dormant>>
    BY <1>11 DEF Settle, store, owed
  <2>2. \A i \in Scan : Untouched(i) => Untouched(i)'
    BY <1>c, <2>1 DEF Untouched
  <2>3. \A s \in Scope : /\ Fresh(s) => Fresh(s)'
                         /\ UntouchedFresh(s) => UntouchedFresh(s)'
    BY <2>1, <2>2 DEF Fresh, Joinable, UntouchedFresh
  <2>4. ASSUME NEW i \in Scan, i = current, walks[i] # {}
        PROVE  shutdown /\ Untouched(i)'
    <3>1. row[i] \in Live /\ shutdown
      BY <1>11, <2>4 DEF Settle, Rows, Ended
    <3> QED
      BY <1>0, <1>c, <2>1, <2>4, <3>1 DEF Untouched
  <2>5. waiting \subseteq Scope /\ \A i \in Scan : walks[i] \subseteq Scope
    BY DEF TypeOK
  <2> QED
    BY <2>1, <2>2, <2>3, <2>4, <2>5
       DEF Kept, WaitingIsFresh, WaitingIsSafe, WalksAreKept, WalksAreSafe
<1>12. CASE Stop
  <2>1. /\ shutdown' /\ UNCHANGED <<queued, cursor, current, saving, scopes, row, rowCursor,
                                    waiting, walks, dormant>>
    BY <1>12 DEF Stop, store, owed
  <2> QED
    BY <2>1 DEF Kept, WaitingIsFresh, WaitingIsSafe, WalksAreKept, WalksAreSafe, Fresh, Joinable,
                UntouchedFresh, Untouched
<1>13. CASE Exit \/ Crash \/ Start
  BY <1>13 DEF Exit, Crash, Forget, Start
<1>14. CASE StartupRequest
  <2>1. Coalesce(Library) \in SUBSET Scope
    BY AskedForScopes
  <2> QED
    BY <1>14, <2>1, AskKeeps DEF StartupRequest, Caller
<1>15. CASE UNCHANGED vars
  BY <1>15, <1>a DEF vars, memory, store, owed
<1> QED
  BY <1>1, <1>2, <1>3, <1>4, <1>5, <1>6, <1>7, <1>8, <1>9, <1>10, <1>11, <1>12, <1>13,
     <1>14, <1>15 DEF Next, WorkerCancels, CallerCancels, Caller

-----------------------------------------------------------------------------
(* A row still to be saved as cancelled is live, and saved by one thread.  *)
LEMMA AskSavedOnce ==
  ASSUME Shape, Rows, SavedOnce, up, NEW S \in SUBSET Scope, NEW c \in Caller, Ask(S, c)
  PROVE  SavedOnce'
<1>1. CASE Create(S, c)
  <2>1. ReplacedBy(S) \subseteq queued
    BY DEF ReplacedBy
  <2>2. \A i \in queued : /\ row[i] \in Live
                         /\ i \notin saving["caller"] /\ i \notin saving["worker"]
    BY DEF Rows, QueueMatchesRows
  <2>3. \A i \in Scan : row[i] \in Live => row'[i] \in Live
    BY <1>1 DEF Create, Shape, TypeOK, Live
  <2>4. \/ /\ saving'["caller"] = saving["caller"] \cup ReplacedBy(S)
           /\ saving'["worker"] = saving["worker"]
        \/ /\ saving'["worker"] = saving["worker"] \cup ReplacedBy(S)
           /\ saving'["caller"] = saving["caller"]
    BY <1>1 DEF Create, Shape, TypeOK, Caller
  <2>5. queued \subseteq Scan /\ saving["caller"] \subseteq Scan /\ saving["worker"] \subseteq Scan
    BY DEF Shape, TypeOK, Caller
  <2> QED
    BY <2>1, <2>2, <2>3, <2>4, <2>5 DEF SavedOnce
<1>2. CASE ~Create(S, c)
  BY <1>2 DEF Ask, Join, Refuse, store, SavedOnce
<1> QED
  BY <1>1, <1>2

(* Every step keeps that: no one else ends a row that is to be cancelled   *)
(* (Inner::cancelled).                                                     *)
LEMMA SavedOnceStep == Shape /\ Rows /\ SavedOnce /\ [Next]_vars => SavedOnce'
<1> SUFFICES ASSUME Shape, Rows, SavedOnce, [Next]_vars PROVE SavedOnce'
  OBVIOUS
<1>1. \A S \in Requests : Request(S) => SavedOnce'
  BY AskedForScopes, AskSavedOnce DEF Request, Caller
<1>2. RequestRetry \/ StartupRequest => SavedOnce'
  BY AskedForScopes, AskSavedOnce DEF RequestRetry, StartupRequest, Caller, Shape, TypeOK
<1>3. ASSUME NEW c \in Caller, Cancel(c) PROVE SavedOnce'
  <2>1. PICK i \in saving[c] : Cancel(c)!(i)
    BY <1>3 DEF Cancel
  <2>2. /\ saving'["caller"] \subseteq saving["caller"] /\ saving'["worker"] \subseteq saving["worker"]
        /\ i \notin saving'["caller"] \cup saving'["worker"]
    BY <2>1 DEF Caller, Shape, TypeOK, SavedOnce
  <2>3. \A j \in Scan : j # i => row'[j] = row[j]
    BY <2>1 DEF Shape, TypeOK
  <2>4. saving["caller"] \subseteq Scan /\ saving["worker"] \subseteq Scan
    BY DEF Shape, TypeOK, Caller
  <2> QED
    BY <2>2, <2>3, <2>4 DEF SavedOnce
<1>4. ASSUME UNCHANGED saving, \A i \in Scan : i # current => row'[i] = row[i]
      PROVE  SavedOnce'
  <2>1. saving["caller"] \subseteq Scan /\ saving["worker"] \subseteq Scan
    BY DEF Shape, TypeOK, Caller
  <2>2. up => current \notin saving["caller"] \cup saving["worker"]
    BY DEF Rows, QueueMatchesRows
  <2>3. ~up => saving["caller"] = {} /\ saving["worker"] = {}
    BY DEF Shape, Down
  <2> QED
    BY <1>4, <2>1, <2>2, <2>3 DEF SavedOnce
<1>5. StartWalk \/ WalkEnds \/ GiveUp => SavedOnce'
  BY <1>4 DEF StartWalk, WalkEnds, EndWalk, GiveUp, Shape, TypeOK
<1>6. TakeRetry \/ Pop \/ Flush \/ StopWalk \/ Settle \/ Stop \/ Start \/ UNCHANGED vars => SavedOnce'
  BY <1>4 DEF TakeRetry, Pop, Flush, StopWalk, RowAtStop, Settle, Stop, Start, vars, memory, store
<1>7. Exit \/ Crash => SavedOnce'
  BY DEF Exit, Crash, Forget, SavedOnce, Caller
<1> QED
  BY <1>1, <1>2, <1>3, <1>5, <1>6, <1>7 DEF Next, WorkerCancels, CallerCancels, Caller

(* A repeated trigger queues one follow-up scan.                           *)
LEMMA AskOneFollowUp ==
  ASSUME Shape, OneFollowUp, NEW S \in SUBSET Scope, NEW c \in Caller, Ask(S, c),
         UNCHANGED <<cursor, before>>
  PROVE  OneFollowUp'
<1> USE DEF Shape
<1>1. CASE Create(S, c)
  <2> SUFFICES ASSUME NEW i \in queued', NEW j \in queued', i < j, j > before
               PROVE  /\ ~CoversAll(scopes'[j], scopes'[i])
                      /\ i \in cursor \/ ~CoversAll(scopes'[i], scopes'[j])
    BY <1>1 DEF OneFollowUp
  <2>1. /\ queued' = (queued \ ReplacedBy(S)) \cup {NewScan} /\ NewScan \in Scan
        /\ NewScan > created /\ scopes'[NewScan] = S
        /\ \A k \in Scan : k # NewScan => scopes'[k] = scopes[k]
    BY <1>1, BoundsAssumption DEF Create, NewScan, TypeOK, Scan, BoundsAssumption
  <2>2. queued \subseteq Scan /\ (\A k \in queued : ~(k > created))
    BY DEF TypeOK, Numbers
  <2>3. created \in Nat /\ NewScan = created + 1 /\ Scan \subseteq Nat
    BY BoundsAssumption DEF TypeOK, NewScan, Scan, BoundsAssumption
  <2>4. i \in queued \ ReplacedBy(S) /\ i # NewScan
    BY <2>1, <2>2, <2>3
  <2>5. CASE j = NewScan
    BY <1>1, <2>1, <2>2, <2>4, <2>5 DEF Create, Joins, Joinable, ReplacedBy
  <2>6. CASE j # NewScan
    BY <2>1, <2>2, <2>4, <2>6 DEF OneFollowUp
  <2> QED
    BY <2>5, <2>6
<1>2. CASE ~Create(S, c)
  BY <1>2 DEF Ask, Join, Refuse, store, OneFollowUp
<1> QED
  BY <1>1, <1>2

(* Every step keeps one follow-up scan at most for the same work.          *)
LEMMA OneFollowUpStep == Shape /\ OneFollowUp /\ [Next]_vars => OneFollowUp'
<1> SUFFICES ASSUME Shape, OneFollowUp, [Next]_vars PROVE OneFollowUp'
  OBVIOUS
<1>1. \A S \in Requests : Request(S) => OneFollowUp'
  BY AskedForScopes, AskOneFollowUp DEF Request, Caller
<1>2. RequestRetry \/ StartupRequest => OneFollowUp'
  BY AskedForScopes, AskOneFollowUp DEF RequestRetry, StartupRequest, Caller, Shape, TypeOK
<1>3. ASSUME queued' \subseteq queued, cursor \subseteq cursor', UNCHANGED <<scopes, before>>
      PROVE  OneFollowUp'
  BY <1>3 DEF OneFollowUp
<1>4. WorkerCancels \/ CallerCancels \/ TakeRetry \/ Pop \/ StartWalk \/ Flush => OneFollowUp'
  BY <1>3 DEF WorkerCancels, CallerCancels, Cancel, TakeRetry, Pop, StartWalk, Flush, store, owed
<1>5. WalkEnds \/ StopWalk \/ GiveUp \/ Settle \/ Stop \/ UNCHANGED vars => OneFollowUp'
  BY <1>3 DEF WalkEnds, EndWalk, StopWalk, GiveUp, Settle, Stop, vars, memory, store, owed
<1>6. Exit \/ Crash => OneFollowUp'
  BY DEF Exit, Crash, Forget, OneFollowUp
<1>7. CASE Start
  <2>1. \A i \in queued' : i \in Scan /\ ~(i > created)
    BY <1>7 DEF Start, Interrupted, Shape, Numbers, Live
  <2> QED
    BY <1>7, <2>1 DEF Start, OneFollowUp
<1> QED
  BY <1>1, <1>2, <1>4, <1>5, <1>6, <1>7 DEF Next

-----------------------------------------------------------------------------
(* Coalescing what a retry is merged with loses none of its scopes.        *)
LEMMA RetryCovers ==
  ASSUME NEW R \in SUBSET Scope, NEW T \in SUBSET Scope, NEW s \in Scope,
         CoversAll(R \cup T, {s})
  PROVE  CoversAll(RetryLater(R, T), {s})
<1>1. CoversAll(Coalesce(R \cup T), R \cup T) /\ Coalesce(R \cup T) \in SUBSET Scope
  BY CoalesceCovers, CoalesceIsPart, ScopesAreAny
<1> QED
  BY <1>1, CoversAllTransitive, ScopesAreAny DEF RetryLater

(* What did not answer stays with the retry, or in the worker's hand.      *)
LEMMA AwayStep == Shape /\ AwayIsRetried /\ [Next]_vars => AwayIsRetried'
<1> SUFFICES ASSUME Shape, AwayIsRetried, [Next]_vars PROVE AwayIsRetried'
  OBVIOUS
<1> USE DEF Shape
<1>1. ASSUME away' = away, inHand' \cup retry' = inHand \cup retry PROVE AwayIsRetried'
  BY <1>1 DEF AwayIsRetried, CoversAll
<1>2. (\E S \in Requests : Request(S)) \/ StartupRequest \/ WorkerCancels \/ CallerCancels
        => AwayIsRetried'
  BY <1>1 DEF Request, StartupRequest, WorkerCancels, CallerCancels, Cancel, owed
<1>3. TakeRetry \/ Pop \/ StartWalk \/ Flush \/ Stop \/ Start \/ UNCHANGED vars => AwayIsRetried'
  BY <1>1 DEF TakeRetry, WorkerFree, Pop, StartWalk, Flush, Stop, Start, Worker, vars, memory, owed
<1>4. CASE RequestRetry
  BY <1>4 DEF RequestRetry, AwayIsRetried, CoversAll
<1>5. CASE WalkEnds
  <2>1. PICK U \in SUBSET scopes[current] : EndWalk(U)
    BY <1>5 DEF WalkEnds
  <2>2. /\ inHand = {} /\ inHand' = U /\ retry' = retry
        /\ away' = away \cup {s \in walks[current] : CoversAll(U, {s})}
    BY <2>1 DEF EndWalk, Worker
  <2> QED
    BY <2>2 DEF AwayIsRetried, CoversAll
<1>6. StopWalk \/ GiveUp => AwayIsRetried'
  BY <1>1 DEF StopWalk, GiveUp, Worker, owed
<1>7. CASE Settle
  <2>1. away' = away /\ inHand' = {}
        /\ retry' = IF inHand = {} THEN retry ELSE RetryLater(retry, inHand)
    BY <1>7 DEF Settle, owed
  <2>2. \A s \in away : CoversAll(retry \cup inHand, {s}) /\ s \in Scope
    BY DEF AwayIsRetried, TypeOK
  <2>3. CASE inHand = {}
    BY <1>1, <2>1, <2>3
  <2>4. CASE inHand # {}
    <3>1. \A s \in away : CoversAll(RetryLater(retry, inHand), {s})
      BY <2>2, RetryCovers DEF TypeOK
    <3>2. retry' \cup inHand' = RetryLater(retry, inHand)
      BY <2>1, <2>4
    <3> QED
      BY <2>1, <3>1, <3>2 DEF AwayIsRetried
  <2> QED
    BY <2>3, <2>4
<1>8. Exit \/ Crash => AwayIsRetried'
  BY DEF Exit, Crash, Forget, AwayIsRetried
<1> QED
  BY <1>2, <1>3, <1>4, <1>5, <1>6, <1>7, <1>8 DEF Next

(* In a running process every scope owed has a row the next start resumes. *)
LEMMA RecordedWhenUp ==
  Shape /\ Rows /\ WaitingIsSafe /\ WalksAreSafe /\ up => AcceptedWorkIsRecorded
<1> SUFFICES ASSUME Shape, Rows, WaitingIsSafe, WalksAreSafe, up PROVE AcceptedWorkIsRecorded
  OBVIOUS
<1>1. \A s \in Scope : Fresh(s) \/ UntouchedFresh(s) => FreshRow(s)
  BY DEF Shape, TypeOK, Rows, QueueMatchesRows, Fresh, Joinable, UntouchedFresh, Untouched, FreshRow
<1>2. \A i \in queued : row[i] \in Live
  BY DEF Rows, QueueMatchesRows
<1>3. \A i \in Scan : walks[i] # {} /\ i = current => row[i] \in Live
  BY BoundsAssumption
     DEF Shape, Worker, TypeOK, Phase, Rows, QueueMatchesRows, Ended, Scan, NoScan, BoundsAssumption
<1>4. waiting \subseteq Scope /\ \A i \in Scan : walks[i] \subseteq Scope
  BY DEF Shape, TypeOK
<1>5. \A s \in waiting : FreshRow(s)
  BY <1>1, <1>4 DEF WaitingIsSafe
<1>6. ASSUME NEW i \in Scan, NEW s \in walks[i] PROVE row[i] \in Live \/ FreshRow(s)
  BY <1>1, <1>2, <1>3, <1>4 DEF WalksAreSafe, Untouched
<1> QED
  BY <1>5, <1>6 DEF AcceptedWorkIsRecorded

(* A start finds a keeper for all that the rows record.                    *)
LEMMA StartKeeps ==
  ASSUME Shape, AcceptedWorkIsRecorded, Start
  PROVE  Kept'
<1> USE DEF Shape
<1>1. /\ UNCHANGED <<scopes, row, rowCursor, waiting, walks>> /\ cursor' = rowCursor
      /\ current' = NoScan /\ saving'["caller"] = {} /\ saving'["worker"] = {}
      /\ \/ queued' = Interrupted
         \/ queued' = {} /\ dormant' = waiting \cup UNION {walks[i] : i \in Scan}
  BY DEF Start, ResumedCursors, store, Down
<1>2. NoScan \notin Scan
  BY BoundsAssumption DEF Scan, NoScan, BoundsAssumption
<1>3. CASE queued' = Interrupted
  <2>1. \A s \in Scope : FreshRow(s) => Fresh(s)'
    BY <1>1, <1>3 DEF FreshRow, Fresh, Joinable, Interrupted
  <2>2. \A i \in Scan : row[i] \in Live => i \in queued'
    BY <1>3 DEF Interrupted
  <2>3. waiting \subseteq Scope /\ \A i \in Scan : walks[i] \subseteq Scope
    BY DEF TypeOK
  <2> QED
    BY <1>1, <2>1, <2>2, <2>3
       DEF AcceptedWorkIsRecorded, Kept, WaitingIsFresh, WaitingIsSafe, WalksAreKept, WalksAreSafe
<1>4. CASE queued' = {} /\ dormant' = waiting \cup UNION {walks[i] : i \in Scan}
  <2>1. \A i \in Scan : row[i] \in Live => Untouched(i)'
    BY <1>1, <1>2, <1>4 DEF Untouched
  <2>2. \A s \in Scope : FreshRow(s) => UntouchedFresh(s)'
    BY <1>1, <2>1 DEF FreshRow, UntouchedFresh
  <2>3. waiting \subseteq Scope /\ \A i \in Scan : walks[i] \subseteq Scope
    BY DEF TypeOK
  <2>4. WaitingIsFresh' /\ WalksAreKept'
    BY <1>1, <1>4 DEF WaitingIsFresh, WalksAreKept
  <2>5. WaitingIsSafe' /\ WalksAreSafe'
    BY <1>1, <2>1, <2>2, <2>3 DEF AcceptedWorkIsRecorded, WaitingIsSafe, WalksAreSafe
  <2> QED
    BY <2>4, <2>5 DEF Kept
<1> QED
  BY <1>1, <1>3, <1>4

-----------------------------------------------------------------------------
(* The inductive invariant, grouped the way the steps above preserve it.   *)
Parts == /\ Shape /\ Rows /\ SavedOnce /\ OneFollowUp
         /\ up => Kept /\ AwayIsRetried
         /\ AcceptedWorkIsRecorded

(* The inductive invariant is the conjunction of the parts proved above.   *)
LEMMA InductiveParts == QueueInductive <=> Parts
  BY DEF QueueInductive, Parts, Shape, Rows, RowsAreSafe, AcceptedWorkIsQueued, Kept

(* The inductive invariant holds before the first start.                   *)
LEMMA InductiveInit == Init => QueueInductive
<1> SUFFICES ASSUME Init PROVE QueueInductive
  OBVIOUS
<1> USE BoundsAssumption DEF Init
<1>1. TypeOK
  <2>1. /\ scopes \in [Scan -> SUBSET Scope] /\ walks \in [Scan -> SUBSET Scope]
        /\ saving \in [Caller -> SUBSET Scan]
        /\ row \in [Scan -> Live \cup Terminal \cup {"none"}]
    OBVIOUS
  <2>2. created \in 0 .. MaxScans /\ before \in 0 .. MaxScans
        /\ failures \in 0 .. MaxFailures /\ stops \in 0 .. MaxStops
    BY DEF BoundsAssumption
  <2> QED
    BY <2>1, <2>2 DEF TypeOK, Phase
<1>2. Numbers /\ Down /\ Worker
  BY DEF Numbers, Down, Worker, Caller, Scan, NoScan, BoundsAssumption
<1>3. QueueMatchesRows /\ Ended /\ SavedOnce /\ TookOnItsOwn /\ OneFollowUp
  BY DEF QueueMatchesRows, Ended, SavedOnce, TookOnItsOwn, OneFollowUp, Caller
<1>4. RowsAreSafe /\ AcceptedWorkIsQueued /\ AcceptedWorkIsRecorded
  BY DEF RowsAreSafe, AcceptedWorkIsQueued, AcceptedWorkIsRecorded
<1> QED
  BY <1>1, <1>2, <1>3, <1>4 DEF QueueInductive

(* Every step keeps the inductive invariant.                               *)
LEMMA InductiveStep == QueueInductive /\ [Next]_vars => QueueInductive'
<1> SUFFICES ASSUME QueueInductive, [Next]_vars PROVE QueueInductive'
  OBVIOUS
<1>1. /\ Shape /\ Rows /\ SavedOnce /\ OneFollowUp
      /\ up => Kept /\ AwayIsRetried
      /\ AcceptedWorkIsRecorded
  BY InductiveParts DEF Parts
<1>2. Shape' /\ Rows' /\ SavedOnce' /\ OneFollowUp'
  BY <1>1, ShapeStep, RowsStep, SavedOnceStep, OneFollowUpStep
<1>3. ~up /\ up' => Start
  BY DEF Next, Request, WorkerCancels, CallerCancels, Cancel, TakeRetry, WorkerFree, RequestRetry,
         Pop, StartWalk, Flush, WalkEnds, EndWalk, StopWalk, GiveUp, Settle, Stop, Exit, Crash,
         StartupRequest, vars, memory
<1>4. up' => Kept'
  BY <1>1, <1>3, KeptStep, StartKeeps DEF Start
<1>5. up' => AwayIsRetried'
  <2>1. ~up => AwayIsRetried
    BY <1>1 DEF Shape, Down, AwayIsRetried
  <2> QED
    BY <1>1, <2>1, AwayStep
<1>6. AcceptedWorkIsRecorded'
  <2>1. CASE up'
    <3>1. WaitingIsSafe' /\ WalksAreSafe'
      BY <1>4, <2>1 DEF Kept
    <3>2. (Shape /\ Rows /\ WaitingIsSafe /\ WalksAreSafe /\ up)' => AcceptedWorkIsRecorded'
      BY RecordedWhenUp, PTL
    <3> QED
      BY <1>2, <2>1, <3>1, <3>2
  <2>2. CASE ~up'
    <3>1. UNCHANGED <<scopes, row, rowCursor, waiting, walks>>
      BY <2>2 DEF Next, Request, WorkerCancels, CallerCancels, Cancel, TakeRetry, WorkerFree,
         RequestRetry, Pop, StartWalk, Flush, WalkEnds, EndWalk, StopWalk, GiveUp, Settle, Stop,
         Exit, Crash, Forget, Start, StartupRequest, vars, memory, store, owed
    <3> QED
      BY <1>1, <3>1 DEF AcceptedWorkIsRecorded, FreshRow
  <2> QED
    BY <2>1, <2>2
<1>7. Parts'
  BY <1>2, <1>4, <1>5, <1>6 DEF Parts
<1> QED
  BY <1>7, InductiveParts, PTL

(* The scan queue keeps its inductive invariant (Inner::request, the       *)
(* worker's loop, Scanner::start, and a crash between any two of them).    *)
THEOREM QueueInvariant == Spec => []QueueInductive
  BY InductiveInit, InductiveStep, PTL DEF Spec

(* The types of the queue, the worker and the rows.                        *)
THEOREM TypeCorrect == Spec => []TypeOK
<1>1. QueueInductive => TypeOK
  BY DEF QueueInductive
<1> QED
  BY <1>1, QueueInvariant, PTL

(* No accepted work is dropped while the process runs, whichever of the    *)
(* request, the retry and the stop comes first (Inner::request,            *)
(* retry_later).                                                           *)
THEOREM AcceptedWorkStaysQueued == Spec => []AcceptedWorkIsQueued
<1>1. QueueInductive => AcceptedWorkIsQueued
  BY DEF QueueInductive
<1> QED
  BY <1>1, QueueInvariant, PTL

(* No accepted work is lost to a crash at any step (Inner::request,        *)
(* Scanner::start).                                                        *)
THEOREM AcceptedWorkIsNeverLost == Spec => []AcceptedWorkIsRecorded
<1>1. QueueInductive => AcceptedWorkIsRecorded
  BY DEF QueueInductive
<1> QED
  BY <1>1, QueueInvariant, PTL

(* What the worker runs next is what the store would resume                *)
(* (Inner::request, Scanner::start).                                       *)
THEOREM QueueIsTheRows == Spec => []QueueMatchesRows
<1>1. QueueInductive => QueueMatchesRows
  BY DEF QueueInductive
<1> QED
  BY <1>1, QueueInvariant, PTL

(* A trigger repeated queues one follow-up scan, and never leaves a        *)
(* narrower one queued behind a wider (Inner::request).                    *)
THEOREM RepeatsQueueOneScan == Spec => []OneFollowUp
<1>1. QueueInductive => OneFollowUp
  BY DEF QueueInductive
<1> QED
  BY <1>1, QueueInvariant, PTL

(* A scan whose row has ended is never saved in another state: neither by  *)
(* the cancellations still to be saved, nor by its own run                 *)
(* (Inner::cancelled, run_scan).                                           *)
THEOREM EndedRowsAreFinal == Spec => EndedRowsStay
<1>1. QueueInductive /\ [Next]_vars => (\A i \in Scan : row[i] \in Terminal => row'[i] = row[i])
  <2> SUFFICES ASSUME QueueInductive, [Next]_vars, NEW i \in Scan, row[i] \in Terminal
               PROVE  row'[i] = row[i]
    OBVIOUS
  <2> USE DEF QueueInductive, TypeOK
  <2>1. row[i] \notin Live /\ row[i] # "none"
    BY DEF Live, Terminal
  <2>2. ~(i > created) /\ (up => i \notin saving["caller"] \cup saving["worker"])
    BY <2>1 DEF Numbers, SavedOnce
  <2>3. up /\ phase \in {"popped", "walking"} => i # current
    BY <2>1 DEF QueueMatchesRows
  <2>4. ASSUME NEW S, NEW c \in Caller, Ask(S, c) PROVE row'[i] = row[i]
    <3>1. i # NewScan
      BY <2>2, BoundsAssumption DEF NewScan, Scan, BoundsAssumption
    <3> QED
      BY <2>4, <3>1 DEF Ask, Join, Create, Refuse, store
  <2>5. (\E S \in Requests : Request(S)) \/ RequestRetry \/ StartupRequest => row'[i] = row[i]
    BY <2>4 DEF Request, RequestRetry, StartupRequest, Caller
  <2>6. WorkerCancels \/ CallerCancels => row'[i] = row[i]
    BY <2>2 DEF WorkerCancels, CallerCancels, Cancel
  <2>7. StartWalk \/ WalkEnds \/ StopWalk \/ GiveUp => row'[i] = row[i]
    BY <2>3 DEF StartWalk, WalkEnds, EndWalk, StopWalk, RowAtStop, GiveUp
  <2>8. TakeRetry \/ Pop \/ Flush \/ Settle \/ Stop \/ Exit \/ Crash \/ Start \/ UNCHANGED vars
          => row'[i] = row[i]
    BY DEF TakeRetry, Pop, Flush, Settle, Stop, Exit, Crash, Forget, Start, vars, store
  <2> QED
    BY <2>5, <2>6, <2>7, <2>8 DEF Next
<1>2. QueueInductive /\ [Next]_vars => [\A i \in Scan : row[i] \in Terminal => row'[i] = row[i]]_vars
  BY <1>1
<1> QED
  BY <1>2, QueueInvariant, PTL DEF Spec, EndedRowsStay

-----------------------------------------------------------------------------
(* How coalesce_scopes computes what is kept of a request: a sort, and a   *)
(* sweep that compares each scope with the last one kept.  First the order *)
(* of the sort.                                                            *)

(* The components of a path.                                               *)
LEMMA PathType ==
  \A p \in Seq(Nat) : Len(p) \in Nat /\ \A i \in 1 .. Len(p) : p[i] \in Nat
  OBVIOUS

(* Where two paths part: the first component that differs, or the end of   *)
(* the one that sorts first.                                               *)
PartAt(p, q, i) ==
  /\ i \in 1 .. Len(q) /\ i <= Len(p) + 1
  /\ \A j \in 1 .. i - 1 : p[j] = q[j]
  /\ i <= Len(p) => p[i] < q[i]

(* Paths sort by the component where they part.                            *)
LEMMA BeforeWhereTheyPart ==
  ASSUME NEW p \in Seq(Nat), NEW q \in Seq(Nat)
  PROVE  PathBefore(p, q) <=> \E i \in Nat : PartAt(p, q, i)
<1>1. Len(p) \in Nat /\ Len(q) \in Nat
  OBVIOUS
<1>2. ASSUME p # q, StartsWith(q, p) PROVE PartAt(p, q, Len(p) + 1)
  <2>1. Len(p) < Len(q)
    BY <1>1, <1>2, StartsWithLength DEF StartsWith
  <2> QED
    BY <1>1, <1>2, <2>1 DEF PartAt, StartsWith
<1>3. ASSUME NEW i \in Nat, PartAt(p, q, i), i = Len(p) + 1
      PROVE  p # q /\ StartsWith(q, p)
  BY <1>1, <1>3 DEF PartAt, StartsWith
<1>4. ASSUME NEW i \in Nat, PartAt(p, q, i), i # Len(p) + 1 PROVE PathBefore(p, q)
  <2>1. i \in 1 .. Len(p) /\ i <= Len(q) /\ p[i] < q[i]
    BY <1>1, <1>4 DEF PartAt
  <2> QED
    BY <1>1, <1>4, <2>1 DEF PartAt, PathBefore
<1>5. ASSUME NEW i \in 1 .. Len(p), i <= Len(q), p[i] < q[i],
             \A j \in 1 .. i - 1 : p[j] = q[j]
      PROVE  PartAt(p, q, i)
  BY <1>1, <1>5 DEF PartAt
<1> QED
  BY <1>1, <1>2, <1>3, <1>4, <1>5 DEF PathBefore

(* No path sorts before itself.                                            *)
LEMMA PathNotBeforeItself ==
  ASSUME NEW p \in Seq(Nat) PROVE ~PathBefore(p, p)
<1>1. Len(p) \in Nat /\ \A i \in 1 .. Len(p) : p[i] \in Nat
  OBVIOUS
<1>2. ASSUME NEW i \in Nat, PartAt(p, p, i) PROVE FALSE
  BY <1>1, <1>2 DEF PartAt
<1> QED
  BY <1>2, BeforeWhereTheyPart

(* The order of paths is transitive.                                       *)
LEMMA PathBeforeTransitive ==
  ASSUME NEW p \in Seq(Nat), NEW q \in Seq(Nat), NEW r \in Seq(Nat),
         PathBefore(p, q), PathBefore(q, r)
  PROVE  PathBefore(p, r)
<1>1. /\ Len(p) \in Nat /\ Len(q) \in Nat /\ Len(r) \in Nat
      /\ \A i \in 1 .. Len(p) : p[i] \in Nat
      /\ \A i \in 1 .. Len(q) : q[i] \in Nat
      /\ \A i \in 1 .. Len(r) : r[i] \in Nat
  OBVIOUS
<1>2. PICK i \in Nat : PartAt(p, q, i)
  BY BeforeWhereTheyPart
<1>3. PICK k \in Nat : PartAt(q, r, k)
  BY BeforeWhereTheyPart
<1>4. CASE i < k
  <2>1. i \in 1 .. k - 1 /\ i \in 1 .. Len(r) /\ \A j \in 1 .. i - 1 : j \in 1 .. k - 1
    <3>1. k \in 1 .. Len(r) /\ i >= 1
      BY <1>2, <1>3 DEF PartAt
    <3> QED
      BY <1>1, <1>4, <3>1
  <2>2. q[i] = r[i] /\ \A j \in 1 .. i - 1 : p[j] = r[j]
    BY <1>2, <1>3, <2>1 DEF PartAt
  <2>3. PartAt(p, r, i)
    BY <1>2, <2>1, <2>2 DEF PartAt
  <2> QED
    BY <2>3, BeforeWhereTheyPart
<1>5. CASE k < i
  <2>1. /\ k \in 1 .. i - 1 /\ k \in 1 .. Len(r) /\ k <= Len(p) /\ k <= Len(q)
        /\ \A j \in 1 .. k - 1 : j \in 1 .. i - 1
    <3>1. k \in 1 .. Len(r) /\ i \in 1 .. Len(q) /\ i <= Len(p) + 1
      BY <1>2, <1>3 DEF PartAt
    <3> QED
      BY <1>1, <1>5, <3>1
  <2>2. p[k] = q[k] /\ q[k] < r[k] /\ \A j \in 1 .. k - 1 : p[j] = r[j]
    BY <1>2, <1>3, <2>1 DEF PartAt
  <2>3. k <= Len(p) + 1
    BY <1>1, <2>1
  <2>4. PartAt(p, r, k)
    BY <2>1, <2>2, <2>3 DEF PartAt
  <2> QED
    BY <2>4, BeforeWhereTheyPart
<1>6. CASE i = k
  <2>1. \A j \in 1 .. i - 1 : p[j] = r[j]
    BY <1>1, <1>2, <1>3, <1>6 DEF PartAt
  <2>2. i <= Len(p) => p[i] < r[i]
    <3>1. i \in 1 .. Len(q) /\ i \in 1 .. Len(r) /\ (i <= Len(p) => p[i] < q[i])
      BY <1>2, <1>3, <1>6 DEF PartAt
    <3>2. q[i] < r[i]
      BY <1>1, <1>3, <1>6, <3>1 DEF PartAt
    <3>3. SUFFICES ASSUME i <= Len(p) PROVE p[i] < r[i]
      OBVIOUS
    <3>4. i \in 1 .. Len(p)
      BY <1>1, <3>1, <3>3
    <3>5. p[i] \in Nat /\ q[i] \in Nat /\ r[i] \in Nat
      BY <1>1, <3>1, <3>4
    <3>6. p[i] < q[i]
      BY <3>1, <3>3
    <3> QED
      BY <3>2, <3>5, <3>6
  <2>3. PartAt(p, r, i)
    BY <1>2, <1>3, <1>6, <2>1, <2>2 DEF PartAt
  <2> QED
    BY <2>3, BeforeWhereTheyPart
<1> QED
  BY <1>4, <1>5, <1>6

(* Of two paths one sorts before the other.                                *)
LEMMA PathsAreOrdered ==
  ASSUME NEW p \in Seq(Nat), NEW q \in Seq(Nat), p # q
  PROVE  PathBefore(p, q) \/ PathBefore(q, p)
<1>1. /\ Len(p) \in Nat /\ Len(q) \in Nat
      /\ \A i \in 1 .. Len(p) : p[i] \in Nat
      /\ \A i \in 1 .. Len(q) : q[i] \in Nat
  OBVIOUS
<1> DEFINE D == {i \in Nat : i \in 1 .. Len(p) /\ i \in 1 .. Len(q) /\ p[i] # q[i]}
<1>2. CASE D = {}
  <2>1. ASSUME NEW i \in 1 .. Len(p), i <= Len(q) PROVE p[i] = q[i]
    <3>1. i \in Nat /\ i \in 1 .. Len(q)
      BY <1>1, <2>1
    <3>2. i \notin D
      BY <1>2
    <3> QED
      BY <3>1, <3>2
  <2>2. StartsWith(q, p) \/ StartsWith(p, q)
    BY <1>1, <2>1 DEF StartsWith
  <2> QED
    BY <2>2 DEF PathBefore
<1>3. CASE D # {}
  <2>1. PICK i \in D : \A j \in D : i <= j
    BY <1>3, LeastNat
  <2>2. i \in 1 .. Len(p) /\ i \in 1 .. Len(q) /\ p[i] # q[i]
    OBVIOUS
  <2>3. \A j \in 1 .. i - 1 : p[j] = q[j]
    <3>1. ASSUME NEW j \in 1 .. i - 1 PROVE p[j] = q[j]
      <4>1. j \in 1 .. Len(p) /\ j \in 1 .. Len(q) /\ ~(i <= j) /\ j \in Nat
        BY <1>1, <2>2
      <4> QED
        BY <2>1, <4>1
    <3> QED
      BY <3>1
  <2>4. p[i] < q[i] \/ q[i] < p[i]
    BY <1>1, <2>2
  <2> HIDE DEF D
  <2>5. CASE p[i] < q[i]
    BY <1>1, <2>2, <2>3, <2>5 DEF PathBefore
  <2>6. CASE q[i] < p[i]
    <3>1. \A j \in 1 .. i - 1 : q[j] = p[j]
      BY <2>3
    <3> QED
      BY <1>1, <2>2, <3>1, <2>6 DEF PathBefore
  <2> QED
    BY <2>4, <2>5, <2>6
<1> QED
  BY <1>2, <1>3

(* No scope sorts before itself.                                           *)
LEMMA NotBeforeItself ==
  ASSUME NEW s \in AnyScope PROVE ~SortsBefore(s, s)
<1>1. s.root \in Nat /\ s.path \in Seq(Nat)
  BY DEF AnyScope
<1>2. ~PathBefore(s.path, s.path)
  BY <1>1, PathNotBeforeItself
<1> QED
  BY <1>1, <1>2 DEF SortsBefore

(* The order of scopes is transitive.                                      *)
LEMMA BeforeTransitive ==
  ASSUME NEW s \in AnyScope, NEW t \in AnyScope, NEW u \in AnyScope,
         SortsBefore(s, t), SortsBefore(t, u)
  PROVE  SortsBefore(s, u)
<1>1. /\ s.root \in Nat /\ t.root \in Nat /\ u.root \in Nat
      /\ s.path \in Seq(Nat) /\ t.path \in Seq(Nat) /\ u.path \in Seq(Nat)
  BY DEF AnyScope
<1>2. PathBefore(s.path, t.path) /\ PathBefore(t.path, u.path) => PathBefore(s.path, u.path)
  BY <1>1, PathBeforeTransitive
<1>3. CASE s.root < t.root \/ t.root < u.root
  <2>1. s.root <= t.root /\ t.root <= u.root
    BY <1>1 DEF SortsBefore
  <2> QED
    BY <1>1, <1>3, <2>1 DEF SortsBefore
<1>4. CASE s.root = t.root /\ t.root = u.root
  BY <1>1, <1>2, <1>4 DEF SortsBefore
<1> QED
  BY <1>1, <1>3, <1>4 DEF SortsBefore

(* Of two scopes one sorts before the other.                               *)
LEMMA ScopesAreOrdered ==
  ASSUME NEW s \in AnyScope, NEW t \in AnyScope, s # t
  PROVE  SortsBefore(s, t) \/ SortsBefore(t, s)
<1>1. /\ s.root \in Nat /\ t.root \in Nat /\ s.path \in Seq(Nat) /\ t.path \in Seq(Nat)
      /\ s.depth \in {"subtree", "directory"} /\ t.depth \in {"subtree", "directory"}
      /\ s = [root |-> s.root, path |-> s.path, depth |-> s.depth]
      /\ t = [root |-> t.root, path |-> t.path, depth |-> t.depth]
  BY DEF AnyScope
<1>2. CASE s.root # t.root
  BY <1>1, <1>2 DEF SortsBefore
<1>3. CASE s.root = t.root /\ s.path # t.path
  <2>1. PathBefore(s.path, t.path) \/ PathBefore(t.path, s.path)
    BY <1>1, <1>3, PathsAreOrdered
  <2> QED
    BY <1>3, <2>1 DEF SortsBefore
<1>4. CASE s.root = t.root /\ s.path = t.path
  <2>1. s.depth # t.depth
    BY <1>1, <1>4
  <2> QED
    BY <1>1, <1>4, <2>1 DEF SortsBefore
<1> QED
  BY <1>2, <1>3, <1>4

(* What covers a scope sorts before it (the comment in coalesce_scopes).   *)
LEMMA CoveringSortsFirst ==
  ASSUME NEW s \in AnyScope, NEW t \in AnyScope, Covers(s, t), s # t
  PROVE  SortsBefore(s, t)
<1>1. /\ s.depth \in {"subtree", "directory"} /\ t.depth \in {"subtree", "directory"}
      /\ s = [root |-> s.root, path |-> s.path, depth |-> s.depth]
      /\ t = [root |-> t.root, path |-> t.path, depth |-> t.depth]
  BY DEF AnyScope
<1>2. s.root = t.root
  BY DEF Covers
<1>3. CASE s.path # t.path
  <2>1. StartsWith(t.path, s.path)
    BY <1>3 DEF Covers
  <2> QED
    BY <1>2, <1>3, <2>1 DEF SortsBefore, PathBefore
<1>4. CASE s.path = t.path
  BY <1>1, <1>2, <1>4 DEF Covers, SortsBefore
<1> QED
  BY <1>3, <1>4

(* A path that sorts between a path and one it begins is begun by it too.  *)
LEMMA PathsBetween ==
  ASSUME NEW a \in Seq(Nat), NEW l \in Seq(Nat), NEW s \in Seq(Nat),
         StartsWith(s, a), a = l \/ PathBefore(a, l), l = s \/ PathBefore(l, s)
  PROVE  StartsWith(l, a)
<1>1. /\ Len(a) \in Nat /\ Len(l) \in Nat /\ Len(s) \in Nat
      /\ \A i \in 1 .. Len(a) : a[i] \in Nat
      /\ \A i \in 1 .. Len(l) : l[i] \in Nat
      /\ \A i \in 1 .. Len(s) : s[i] \in Nat
  BY PathType
<1>2. SUFFICES ASSUME ~StartsWith(l, a) PROVE FALSE
  OBVIOUS
<1>3. a # l
  BY <1>1, <1>2 DEF StartsWith
<1>4. PICK i \in 1 .. Len(a) : /\ i <= Len(l) /\ a[i] < l[i]
                              /\ \A j \in 1 .. i - 1 : a[j] = l[j]
  BY <1>2, <1>3 DEF PathBefore
<1>5. /\ Len(a) <= Len(s) /\ \A j \in 1 .. Len(a) : s[j] = a[j]
      /\ i \in 1 .. Len(l) /\ i \in 1 .. Len(s) /\ s[i] < l[i]
  BY <1>1, <1>4 DEF StartsWith
<1>6. l # s
  BY <1>1, <1>5
<1>7. PICK k \in Nat : PartAt(l, s, k)
  BY <1>6, BeforeWhereTheyPart
<1>8. CASE k < i
  <2>0. k \in 1 .. Len(s) /\ (k <= Len(l) => l[k] < s[k])
    BY <1>7 DEF PartAt
  <2>1. k \in 1 .. i - 1 /\ k \in 1 .. Len(l) /\ k \in 1 .. Len(a) /\ l[k] < s[k]
    <3>1. /\ i \in Nat /\ 1 <= k /\ i <= Len(a) /\ i <= Len(l)
      BY <1>1, <1>5, <2>0
    <3>2. k < i /\ k <= Len(l) /\ k <= Len(a)
      BY <1>1, <1>8, <3>1
    <3> QED
      BY <1>1, <2>0, <3>1, <3>2
  <2>2. a[k] = l[k] /\ s[k] = a[k]
    BY <1>4, <1>5, <2>1
  <2> QED
    BY <1>1, <2>1, <2>2
<1>9. CASE i <= k
  <2>1. i = k \/ i \in 1 .. k - 1
    BY <1>1, <1>5, <1>9
  <2>2. i \in Nat /\ i <= Len(l)
    BY <1>1, <1>5
  <2>3. l[i] = s[i] \/ l[i] < s[i]
    BY <1>7, <2>1, <2>2 DEF PartAt
  <2> QED
    BY <1>1, <1>5, <2>3
<1> QED
  BY <1>1, <1>8, <1>9

(* Everything a scope covers sorts directly after it: what sorts between   *)
(* the two is covered as well (the comment in coalesce_scopes).            *)
LEMMA CoveredBetween ==
  ASSUME NEW a \in AnyScope, NEW l \in AnyScope, NEW s \in AnyScope,
         Covers(a, s), SortsBefore(a, l), SortsBefore(l, s)
  PROVE  Covers(a, l)
<1>1. /\ a.root \in Nat /\ l.root \in Nat /\ s.root \in Nat
      /\ a.path \in Seq(Nat) /\ l.path \in Seq(Nat) /\ s.path \in Seq(Nat)
      /\ a = [root |-> a.root, path |-> a.path, depth |-> a.depth]
      /\ s = [root |-> s.root, path |-> s.path, depth |-> s.depth]
      /\ a.depth \in {"subtree", "directory"}
  BY DEF AnyScope
<1>2. a # s
  BY BeforeTransitive, NotBeforeItself
<1>3. a.depth = "subtree" /\ a.root = s.root /\ StartsWith(s.path, a.path)
  BY <1>1, <1>2 DEF Covers
<1>4. a.root = l.root /\ l.root = s.root
  BY <1>1, <1>3 DEF SortsBefore
<1>5. (a.path = l.path \/ PathBefore(a.path, l.path)) /\ (l.path = s.path \/ PathBefore(l.path, s.path))
  BY <1>1, <1>4 DEF SortsBefore
<1>6. StartsWith(l.path, a.path)
  BY <1>1, <1>3, <1>5, PathsBetween
<1> QED
  BY <1>3, <1>4, <1>6 DEF Covers

-----------------------------------------------------------------------------
(* The scope of a request that sorts last.                                 *)
Latest(S, m) == m \in S /\ \A s \in S \ {m} : SortsBefore(s, m)

(* A request that is not empty has one.                                    *)
LEMMA SomeScopeIsLast ==
  ASSUME NEW S \in SUBSET AnyScope, IsFiniteSet(S), S # {}
  PROVE  \E m \in S : Latest(S, m)
<1> DEFINE Bad == {R \in SUBSET S : R # {} /\ ~\E m \in R : Latest(R, m)}
           T == {Cardinality(R) : R \in Bad}
<1>1. \A R \in SUBSET S : IsFiniteSet(R) /\ Cardinality(R) \in Nat
  BY FS_Subset, FS_CardinalityType
<1>2. SUFFICES ASSUME Bad # {} PROVE FALSE
  OBVIOUS
<1>3. T \in SUBSET Nat /\ T # {}
  BY <1>1, <1>2
<1>4. PICK n \in T : \A k \in T : n <= k
  BY <1>3, LeastNat
<1>5. PICK R \in Bad : n = Cardinality(R)
  OBVIOUS
<1>6. PICK x \in R : TRUE
  OBVIOUS
<1>7. Cardinality(R \ {x}) = Cardinality(R) - 1 /\ Cardinality(R) \in Nat
  BY <1>1, FS_RemoveElement
<1>8. R \ {x} \notin Bad
  <2>1. ~(n <= n - 1)
    BY <1>5, <1>7
  <2> QED
    BY <1>4, <1>5, <1>7, <2>1
<1>9. CASE R \ {x} = {}
  BY <1>9 DEF Latest
<1>10. CASE R \ {x} # {}
  <2>1. PICK m \in R \ {x} : Latest(R \ {x}, m)
    BY <1>8, <1>10
  <2>2. x \in AnyScope /\ m \in AnyScope /\ x # m /\ R \subseteq AnyScope
    OBVIOUS
  <2>3. CASE SortsBefore(x, m)
    <3>1. Latest(R, m)
      BY <2>1, <2>3 DEF Latest
    <3> QED
      BY <3>1
  <2>4. CASE SortsBefore(m, x)
    <3>1. ASSUME NEW s \in R \ {x} PROVE SortsBefore(s, x)
      <4>1. s = m \/ SortsBefore(s, m)
        BY <2>1 DEF Latest
      <4> QED
        BY <2>2, <2>4, <4>1, BeforeTransitive
    <3>2. Latest(R, x)
      BY <3>1 DEF Latest
    <3> QED
      BY <3>2
  <2> QED
    BY <2>2, <2>3, <2>4, ScopesAreOrdered
<1> QED
  BY <1>9, <1>10

(* A listing of a request in the order of the sort.                        *)
InOrder(q, n) == \A i, j \in 1 .. n : i < j => SortsBefore(q[i], q[j])

(* Every request can be sorted.                                            *)
LEMMA SortedExists ==
  ASSUME NEW S \in SUBSET AnyScope, IsFiniteSet(S)
  PROVE  \E q \in [1 .. Cardinality(S) -> S] : InOrder(q, Cardinality(S))
<1> DEFINE Can(R) == \E q \in [1 .. Cardinality(R) -> R] : InOrder(q, Cardinality(R))
           Bad == {R \in SUBSET S : ~Can(R)}
           T == {Cardinality(R) : R \in Bad}
<1>1. \A R \in SUBSET S : IsFiniteSet(R) /\ Cardinality(R) \in Nat
  BY FS_Subset, FS_CardinalityType
<1>2. SUFFICES ASSUME Bad # {} PROVE FALSE
  OBVIOUS
<1>3. T \in SUBSET Nat /\ T # {}
  BY <1>1, <1>2
<1>4. PICK n \in T : \A k \in T : n <= k
  BY <1>3, LeastNat
<1>5. PICK R \in Bad : n = Cardinality(R)
  OBVIOUS
<1>6. R # {}
  <2>1. SUFFICES ASSUME R = {} PROVE FALSE
    OBVIOUS
  <2>2. Cardinality(R) = 0
    BY <2>1, FS_EmptySet
  <2>3. [i \in 1 .. 0 |-> 0] \in [1 .. 0 -> R] /\ InOrder([i \in 1 .. 0 |-> 0], 0)
    BY DEF InOrder
  <2> QED
    BY <2>2, <2>3
<1>7. PICK m \in R : Latest(R, m)
  BY <1>1, <1>6, SomeScopeIsLast
<1>8. Cardinality(R \ {m}) = n - 1 /\ n \in Nat /\ n # 0
  BY <1>1, <1>5, <1>6, FS_RemoveElement, FS_EmptySet
<1>9. Can(R \ {m})
  <2>1. ~(n <= n - 1)
    BY <1>8
  <2> QED
    BY <1>4, <1>8, <2>1
<1>10. PICK q \in [1 .. n - 1 -> R \ {m}] : InOrder(q, n - 1)
  BY <1>8, <1>9
<1> DEFINE h == [i \in 1 .. n |-> IF i = n THEN m ELSE q[i]]
<1>11. h \in [1 .. n -> R]
  <2>1. ASSUME NEW i \in 1 .. n, i # n PROVE q[i] \in R
    <3>1. i \in 1 .. n - 1
      BY <1>8, <2>1
    <3> QED
      BY <3>1
  <2> QED
    BY <2>1
<1>12. InOrder(h, n)
  <2>1. SUFFICES ASSUME NEW i \in 1 .. n, NEW j \in 1 .. n, i < j PROVE SortsBefore(h[i], h[j])
    BY DEF InOrder
  <2>2. i \in 1 .. n - 1 /\ i # n /\ (j # n => j \in 1 .. n - 1)
    BY <1>8, <2>1
  <2>3. h[i] = q[i] /\ (j # n => h[j] = q[j]) /\ (j = n => h[j] = m)
    BY <2>2
  <2>4. q[i] \in R \ {m}
    BY <2>2
  <2> HIDE DEF h
  <2>5. CASE j = n
    BY <1>7, <2>3, <2>4, <2>5 DEF Latest
  <2>6. CASE j # n
    BY <1>10, <2>1, <2>2, <2>3, <2>6 DEF InOrder
  <2> QED
    BY <2>5, <2>6
<1> QED
  <2> HIDE DEF h
  <2>1. Can(R)
    BY <1>5, <1>11, <1>12
  <2> QED
    BY <2>1

(* What the sort returns: each scope of the request once, in order.        *)
LEMMA SortedIsInOrder ==
  ASSUME NEW S \in SUBSET AnyScope, IsFiniteSet(S)
  PROVE  /\ Sorted(S) \in [1 .. Cardinality(S) -> S]
         /\ InOrder(Sorted(S), Cardinality(S))
         /\ \A s \in S : \E i \in 1 .. Cardinality(S) : s = Sorted(S)[i]
<1> DEFINE n == Cardinality(S)
           q == Sorted(S)
<1>1. n \in Nat
  BY FS_CardinalityType
<1>2. q \in [1 .. n -> S] /\ InOrder(q, n)
  <2>1. PICK f \in [1 .. n -> S] : InOrder(f, n)
    BY SortedExists
  <2>2. \A g \in [1 .. n -> S] :
           InOrder(g, n) <=> \A i, j \in DOMAIN g : i < j => SortsBefore(g[i], g[j])
    BY DEF InOrder
  <2>3. q \in [1 .. n -> S] /\ \A i, j \in DOMAIN q : i < j => SortsBefore(q[i], q[j])
    BY <2>1, <2>2 DEF Sorted
  <2> QED
    BY <2>2, <2>3
<1> HIDE DEF n, q
<1>3. q \in Injection(1 .. n, S)
  <2>1. ASSUME NEW i \in 1 .. n, NEW j \in 1 .. n, q[i] = q[j] PROVE i = j
    <3>1. q[i] \in AnyScope /\ ~SortsBefore(q[i], q[i])
      BY <1>2, NotBeforeItself
    <3>2. ~(i < j) /\ ~(j < i)
      BY <1>2, <2>1, <3>1 DEF InOrder
    <3> QED
      BY <1>1, <3>2
  <2> QED
    BY <1>2, <2>1 DEF Injection, IsInjective
<1>4. Cardinality(1 .. n) = n
  BY <1>1, FS_Interval
<1>5. q \in Surjection(1 .. n, S)
  BY <1>3, <1>4, FS_Injection DEF n
<1> QED
  BY <1>2, <1>5 DEF Surjection, n, q

-----------------------------------------------------------------------------
(* A list without repetitions is as long as the set of what it lists.      *)
LEMMA LengthIsCardinality ==
  ASSUME NEW T, NEW s \in Seq(T),
         \A i, j \in 1 .. Len(s) : s[i] = s[j] => i = j
  PROVE  Len(s) = Cardinality(ToSet(s))
<1>1. Len(s) \in Nat /\ DOMAIN s = 1 .. Len(s) /\ s \in [1 .. Len(s) -> ToSet(s)]
  BY DEF ToSet
<1>2. s \in Bijection(1 .. Len(s), ToSet(s))
  BY <1>1 DEF Bijection, Injection, IsInjective, Surjection, ToSet
<1>3. ExistsBijection(1 .. Len(s), ToSet(s))
  BY <1>2 DEF ExistsBijection
<1> QED
  BY <1>1, <1>3, FS_CountingElements

(* How the sweep begins and goes on.                                       *)
SweepUnfolds(S, out) ==
  /\ out[0] = <<>>
  /\ \A n \in 1 .. Cardinality(S) : out[n] = KeepUnlessCovered(out[n - 1], Sorted(S)[n])
  /\ SweepCoalesce(S) = out[Cardinality(S)]

(* What the sweep of coalesce_scopes computes is what these steps do.      *)
LEMMA SweepIsComputed ==
  ASSUME NEW S, IsFiniteSet(S)
  PROVE  \E out : SweepUnfolds(S, out)
<1> DEFINE L == Cardinality(S)
           sorted == Sorted(S)
           F(g, n) == IF n = 0 THEN <<>> ELSE KeepUnlessCovered(g[n - 1], sorted[n])
           P(n) == \E g : g = [k \in 0 .. n |-> F(g, k)]
<1>1. L \in Nat
  BY FS_CardinalityType
<1>2. P(0)
  <2> DEFINE g == [k \in 0 .. 0 |-> <<>>]
  <2>1. g = [k \in 0 .. 0 |-> F(g, k)]
    OBVIOUS
  <2> QED
    BY <2>1
<1>3. ASSUME NEW n \in Nat, P(n) PROVE P(n + 1)
  <2>1. PICK g : g = [k \in 0 .. n |-> F(g, k)]
    BY <1>3
  <2> DEFINE h == [k \in 0 .. n + 1 |->
                     IF k = n + 1 THEN KeepUnlessCovered(g[n], sorted[n + 1]) ELSE g[k]]
  <2>2. ASSUME NEW k \in 0 .. n PROVE h[k] = F(h, k)
    <3>1. h[k] = g[k] /\ g[k] = F(g, k)
      BY <2>1
    <3>2. k # 0 => k - 1 \in 0 .. n /\ h[k - 1] = g[k - 1]
      OBVIOUS
    <3> QED
      BY <3>1, <3>2
  <2>3. h[n + 1] = F(h, n + 1)
    OBVIOUS
  <2>4. \A k \in 0 .. n + 1 : h[k] = F(h, k)
    BY <2>2, <2>3
  <2> QED
    BY <2>4
<1>4. P(L)
  <2> HIDE DEF P, L
  <2> DEFINE T == {n \in Nat : ~P(n)}
  <2>1. SUFFICES ASSUME T # {} PROVE FALSE
    BY <1>1
  <2>2. PICK n \in T : \A k \in T : n <= k
    BY <2>1, LeastNat
  <2>3. n # 0 /\ n - 1 \in Nat /\ n - 1 \notin T
    BY <1>2, <2>2
  <2>4. P((n - 1) + 1)
    BY <1>3, <2>3
  <2> QED
    BY <2>2, <2>3, <2>4
<1> DEFINE out == CHOOSE g : g = [k \in 0 .. L |-> F(g, k)]
<1>5. out = [k \in 0 .. L |-> F(out, k)]
  BY <1>4
<1>6. SweepCoalesce(S) = out[L]
  BY DEF SweepCoalesce
<1> HIDE DEF out, P
<1>7. out[0] = <<>> /\ \A n \in 1 .. L : out[n] = KeepUnlessCovered(out[n - 1], sorted[n])
  BY <1>1, <1>5
<1> QED
  BY <1>6, <1>7 DEF SweepUnfolds

(* What the sweep has kept once it has seen the first n scopes: those of   *)
(* them that no scope of the request covers, in order.                     *)
KeepsTheMaximal(S, kept, n) ==
  /\ kept \in Seq(S)
  /\ ToSet(kept) = {Sorted(S)[i] : i \in 1 .. n} \cap Coalesce(S)
  /\ InOrder(kept, Len(kept))

(* One more scope: it is covered by the last scope kept, or by none.       *)
LEMMA SweepStep ==
  ASSUME NEW S \in SUBSET AnyScope, IsFiniteSet(S),
         NEW n \in 1 .. Cardinality(S), NEW kept, KeepsTheMaximal(S, kept, n - 1)
  PROVE  KeepsTheMaximal(S, KeepUnlessCovered(kept, Sorted(S)[n]), n)
<1> DEFINE N == Cardinality(S)
           q == Sorted(S)
           s == q[n]
           M == Coalesce(S)
           last == kept[Len(kept)]
<1>1. /\ N \in Nat /\ q \in [1 .. N -> S] /\ InOrder(q, N)
      /\ \A t \in S : \E i \in 1 .. N : t = q[i]
  BY SortedIsInOrder, FS_CardinalityType
<1> HIDE DEF q, N
<1>2. n \in 1 .. N /\ s \in S /\ n - 1 \in Nat /\ n \in Nat
  BY <1>1 DEF N
<1>3. \A i \in 1 .. n - 1 : q[i] \in S /\ SortsBefore(q[i], s)
  BY <1>1, <1>2 DEF InOrder
<1>4. /\ kept \in Seq(S) /\ ToSet(kept) = {q[i] : i \in 1 .. n - 1} \cap M
      /\ InOrder(kept, Len(kept)) /\ Len(kept) \in Nat /\ DOMAIN kept = 1 .. Len(kept)
  BY DEF KeepsTheMaximal, q
<1>5. {q[i] : i \in 1 .. n} = {q[i] : i \in 1 .. n - 1} \cup {s}
  <2>1. 1 .. n = (1 .. n - 1) \cup {n}
    BY <1>2
  <2> QED
    BY <2>1
<1>6. kept # <<>> => /\ Len(kept) \in 1 .. Len(kept) /\ last \in ToSet(kept)
                     /\ \A x \in ToSet(kept) : x = last \/ SortsBefore(x, last)
  <2> SUFFICES ASSUME kept # <<>>
               PROVE  /\ Len(kept) \in 1 .. Len(kept) /\ last \in ToSet(kept)
                      /\ \A x \in ToSet(kept) : x = last \/ SortsBefore(x, last)
    OBVIOUS
  <2>1. Len(kept) \in 1 .. Len(kept)
    BY <1>4
  <2>2. last \in ToSet(kept)
    BY <1>4, <2>1 DEF ToSet
  <2>3. ASSUME NEW i \in 1 .. Len(kept) PROVE kept[i] = last \/ SortsBefore(kept[i], last)
    <3>1. Len(kept) \in Nat
      BY <1>4
    <3>2. i = Len(kept) \/ i < Len(kept)
      BY <3>1
    <3> QED
      BY <1>4, <2>1, <3>2 DEF InOrder
  <2> QED
    BY <1>4, <2>1, <2>2, <2>3 DEF ToSet
<1>7. M \subseteq S /\ M \subseteq AnyScope /\ s \in AnyScope
  BY <1>2, CoalesceIsPart
<1>8. CASE s \in M
  <2>1. ~(kept # <<>> /\ Covers(last, s))
    <3>1. SUFFICES ASSUME kept # <<>>, Covers(last, s) PROVE FALSE
      OBVIOUS
    <3>2. last \in S /\ SortsBefore(last, s)
      BY <1>3, <1>4, <1>6, <3>1
    <3>3. last = s
      BY <1>8, <3>1, <3>2 DEF Coalesce
    <3> QED
      BY <1>7, <3>2, <3>3, NotBeforeItself
  <2>2. KeepUnlessCovered(kept, s) = Append(kept, s)
    BY <2>1 DEF KeepUnlessCovered, Last
  <2> DEFINE k == Append(kept, s)
  <2>3. /\ k \in Seq(S) /\ Len(k) = Len(kept) + 1 /\ k[Len(kept) + 1] = s
        /\ \A i \in 1 .. Len(kept) : k[i] = kept[i]
    BY <1>2, <1>4
  <2>4. DOMAIN k = 1 .. Len(kept) + 1
    BY <2>3
  <2> HIDE DEF k
  <2>5. ToSet(k) = ToSet(kept) \cup {s}
    <3>1. 1 .. Len(kept) + 1 = (1 .. Len(kept)) \cup {Len(kept) + 1}
      BY <1>4
    <3>2. {k[i] : i \in 1 .. Len(kept) + 1} = {k[i] : i \in 1 .. Len(kept)} \cup {s}
      BY <2>3, <3>1
    <3>3. {k[i] : i \in 1 .. Len(kept)} = {kept[i] : i \in 1 .. Len(kept)}
      BY <2>3
    <3> QED
      BY <1>4, <2>4, <3>2, <3>3 DEF ToSet
  <2>6. ToSet(k) = {q[i] : i \in 1 .. n} \cap M
    BY <1>4, <1>5, <1>8, <2>5
  <2>7. InOrder(k, Len(k))
    <3>1. SUFFICES ASSUME NEW i \in 1 .. Len(k), NEW j \in 1 .. Len(k), i < j
                   PROVE  SortsBefore(k[i], k[j])
      BY DEF InOrder
    <3>2. i \in 1 .. Len(kept) /\ (j \in 1 .. Len(kept) \/ j = Len(kept) + 1)
      BY <1>4, <2>3, <3>1
    <3>3. CASE j \in 1 .. Len(kept)
      BY <1>4, <2>3, <3>1, <3>2, <3>3 DEF InOrder
    <3>4. CASE j = Len(kept) + 1
      <4>1. kept[i] \in ToSet(kept)
        BY <1>4, <3>2 DEF ToSet
      <4>2. SortsBefore(kept[i], s)
        BY <1>3, <1>4, <4>1
      <4> QED
        BY <2>3, <3>2, <3>4, <4>2
    <3> QED
      BY <3>2, <3>3, <3>4
  <2> QED
    BY <2>2, <2>3, <2>6, <2>7 DEF KeepsTheMaximal, k, q
<1>9. CASE s \notin M
  <2>1. PICK a \in M : Covers(a, s)
    BY <1>2, CoalesceCovers DEF CoversAll
  <2>2. a # s /\ a \in S /\ SortsBefore(a, s)
    BY <1>7, <1>9, <2>1, CoveringSortsFirst
  <2>3. PICK j \in 1 .. N : a = q[j]
    BY <1>1, <2>2
  <2>4. j \in 1 .. n - 1
    <3>1. ~(n < j)
      <4>1. SUFFICES ASSUME n < j PROVE FALSE
        OBVIOUS
      <4>2. SortsBefore(s, a)
        BY <1>1, <1>2, <2>3, <4>1 DEF InOrder
      <4> QED
        BY <1>7, <2>2, <4>2, BeforeTransitive, NotBeforeItself
    <3> QED
      BY <1>1, <1>2, <2>2, <2>3, <3>1
  <2>5. a \in ToSet(kept)
    BY <1>4, <2>3, <2>4
  <2>6. kept # <<>>
    BY <1>4, <2>5 DEF ToSet
  <2>7. last \in M /\ last \in S /\ SortsBefore(last, s) /\ (a = last \/ SortsBefore(a, last))
    BY <1>3, <1>4, <1>6, <2>5, <2>6
  <2>8. Covers(last, s)
    <3>1. CASE a = last
      BY <2>1, <3>1
    <3>2. CASE SortsBefore(a, last)
      <4>1. Covers(a, last)
        BY <1>7, <2>1, <2>7, <3>2, CoveredBetween
      <4>2. a = last
        BY <2>2, <2>7, <4>1 DEF Coalesce
      <4> QED
        BY <2>1, <4>2
    <3> QED
      BY <2>7, <3>1, <3>2
  <2>9. KeepUnlessCovered(kept, s) = kept
    BY <2>6, <2>8 DEF KeepUnlessCovered, Last
  <2>10. ToSet(kept) = {q[i] : i \in 1 .. n} \cap M
    BY <1>4, <1>5, <1>9
  <2> QED
    BY <1>4, <2>9, <2>10 DEF KeepsTheMaximal, q
<1> QED
  BY <1>8, <1>9

(* coalesce_scopes keeps exactly the scopes of a request that no other of  *)
(* its scopes covers, each once, whatever the request: comparing each      *)
(* scope with the last one kept is enough.                                 *)
THEOREM SweepIsCoalesce ==
  ASSUME NEW S \in SUBSET AnyScope, IsFiniteSet(S)
  PROVE  /\ ToSet(SweepCoalesce(S)) = Coalesce(S)
         /\ Len(SweepCoalesce(S)) = Cardinality(Coalesce(S))
<1> DEFINE N == Cardinality(S)
<1>1. PICK out : SweepUnfolds(S, out)
  BY SweepIsComputed
<1>2. N \in Nat
  BY FS_CardinalityType
<1> DEFINE Good(n) == KeepsTheMaximal(S, out[n], n)
<1>3. Good(0)
  <2>1. out[0] = <<>> /\ 1 .. 0 = {}
    BY <1>1 DEF SweepUnfolds
  <2>2. ToSet(<<>>) = {} /\ <<>> \in Seq(S) /\ InOrder(<<>>, Len(<<>>))
    BY DEF ToSet, InOrder
  <2> QED
    BY <2>1, <2>2 DEF KeepsTheMaximal
<1>4. ASSUME NEW n \in 1 .. N, Good(n - 1) PROVE Good(n)
  <2>1. out[n] = KeepUnlessCovered(out[n - 1], Sorted(S)[n])
    BY <1>1, <1>4 DEF SweepUnfolds
  <2> QED
    BY <1>4, <2>1, SweepStep
<1>5. Good(N)
  <2> HIDE DEF Good, N
  <2> DEFINE T == {n \in Nat : n <= N /\ ~Good(n)}
  <2>1. SUFFICES ASSUME T # {} PROVE FALSE
    BY <1>2
  <2>2. PICK n \in T : \A k \in T : n <= k
    BY <2>1, LeastNat
  <2>3. n # 0 /\ n \in 1 .. N /\ n - 1 \in Nat /\ n - 1 <= N /\ ~(n <= n - 1)
    BY <1>2, <1>3, <2>2
  <2>4. Good(n - 1)
    BY <2>2, <2>3
  <2> QED
    BY <1>4, <2>2, <2>3, <2>4
<1> DEFINE kept == SweepCoalesce(S)
<1>6. KeepsTheMaximal(S, kept, N)
  BY <1>1, <1>5 DEF SweepUnfolds
<1> HIDE DEF kept
<1>7. {Sorted(S)[i] : i \in 1 .. N} = S
  <2> DEFINE q == Sorted(S)
  <2>1. q \in [1 .. N -> S] /\ \A t \in S : \E i \in 1 .. N : t = q[i]
    BY SortedIsInOrder
  <2> HIDE DEF q, N
  <2>2. {q[i] : i \in 1 .. N} = S
    BY <2>1
  <2> QED
    BY <2>2 DEF q
<1>8. ToSet(kept) = Coalesce(S)
  BY <1>6, <1>7, CoalesceIsPart DEF KeepsTheMaximal
<1>9. kept \in Seq(AnyScope) /\ Len(kept) \in Nat
  BY <1>6 DEF KeepsTheMaximal
<1>10. ASSUME NEW i \in 1 .. Len(kept), NEW j \in 1 .. Len(kept), kept[i] = kept[j]
       PROVE  i = j
  <2>1. kept[i] \in AnyScope /\ ~SortsBefore(kept[i], kept[i])
    BY <1>9, NotBeforeItself
  <2>2. ~(i < j) /\ ~(j < i)
    BY <1>6, <1>10, <2>1 DEF KeepsTheMaximal, InOrder
  <2> QED
    BY <1>9, <2>2
<1>11. Len(kept) = Cardinality(ToSet(kept))
  BY <1>9, <1>10, LengthIsCardinality
<1> QED
  BY <1>8, <1>11 DEF kept

-----------------------------------------------------------------------------
(* The scopes the sweep is compared on are finitely many.                  *)
LEMMA WideScopesAreFinite ==
  WideScope \subseteq AnyScope /\ IsFiniteSet(WideScope)
<1>1. {1, 2} \subseteq Nat /\ WidePath \subseteq Seq(Nat)
  BY DEF WidePath
<1>2. WideScope \subseteq AnyScope
  BY <1>1 DEF WideScope, AnyScope
<1> DEFINE At(p) == [root : {1, 2}, path : {p}, depth : {"subtree", "directory"}]
           One(r, p, d) == [root |-> r, path |-> p, depth |-> d]
<1>3. ASSUME NEW p PROVE IsFiniteSet(At(p))
  <2> DEFINE Four == {One(1, p, "subtree"), One(1, p, "directory"),
                      One(2, p, "subtree"), One(2, p, "directory")}
  <2>1. ASSUME NEW x \in At(p) PROVE x \in Four
    <3>1. x = One(x.root, x.path, x.depth) /\ x.path = p
      OBVIOUS
    <3>2. x.root \in {1, 2} /\ x.depth \in {"subtree", "directory"}
      OBVIOUS
    <3> QED
      BY <3>1, <3>2
  <2> HIDE DEF At, One
  <2>2. \A x, y : IsFiniteSet({x} \cup {y})
    BY FS_AddElement, FS_Singleton
  <2>3. IsFiniteSet(Four)
    <3>1. IsFiniteSet(({One(1, p, "subtree")} \cup {One(1, p, "directory")})
                        \cup ({One(2, p, "subtree")} \cup {One(2, p, "directory")}))
      BY <2>2, FS_Union
    <3> QED
      BY <3>1
  <2>4. At(p) \in SUBSET Four
    BY <2>1
  <2> QED
    BY <2>3, <2>4, FS_Subset
<1>4. WideScope = At(<<>>) \cup At(<<1>>) \cup At(<<1, 1>>) \cup At(<<1, 2>>) \cup At(<<2>>)
  BY DEF WideScope, WidePath
<1> HIDE DEF At
<1>5. IsFiniteSet(At(<<>>) \cup At(<<1>>))
  BY <1>3, FS_Union
<1>6. IsFiniteSet(At(<<>>) \cup At(<<1>>) \cup At(<<1, 1>>))
  BY <1>3, <1>5, FS_Union
<1>7. IsFiniteSet(At(<<>>) \cup At(<<1>>) \cup At(<<1, 1>>) \cup At(<<1, 2>>))
  BY <1>3, <1>6, FS_Union
<1>8. IsFiniteSet(WideScope)
  BY <1>3, <1>4, <1>7, FS_Union
<1> QED
  BY <1>2, <1>8

(* The sweep keeps the scopes no other one covers on every request the     *)
(* check tries, as it does on any.                                         *)
THEOREM SweepKeeps == Spec => []SweepKeepsTheMaximal
<1>1. SweepKeepsTheMaximal
  <2>1. ASSUME NEW S \in RequestsOfUpTo(4) PROVE S \in SUBSET AnyScope /\ IsFiniteSet(S)
    <3>1. S \in SUBSET WideScope
      BY DEF RequestsOfUpTo, kSubset
    <3> QED
      BY <3>1, WideScopesAreFinite, FS_Subset
  <2> QED
    BY <2>1, SweepIsCoalesce DEF SweepKeepsTheMaximal
<1> QED
  BY <1>1, PTL

=============================================================================
