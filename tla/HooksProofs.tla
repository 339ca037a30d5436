----------------------------- MODULE HooksProofs -----------------------------
(***************************************************************************)
(* What holds of the deliveries to a plugin, for any libraries, hooks,     *)
(* users, grants, numbers of slots, waits and chances: a position tells    *)
(* exactly what has been handled, a wait is waited out, and runs of one    *)
(* library, Run now and an uninstall take turns.                           *)
(*                                                                         *)
(* A delivery's batch is read under its turn and recorded under it, and an *)
(* uninstall, which takes the positions away, waits for the turns of the   *)
(* libraries it read: so the position a batch was read from is the one it  *)
(* is recorded over, but where a library is added as an uninstall waits.   *)
(***************************************************************************)
EXTENDS Hooks, WellFoundedInduction, TLAPS

Waiter == Key \cup {RunNow[l] : l \in Library} \cup {Uninstall[l] : l \in Library}

Task ==
    {Idle} \cup [at : {"turn", "slot"}, position : Nat]
           \cup [at : {"run"}, batch : SUBSET Nat, next : Nat, former : BOOLEAN]
           \cup [at : {"pause"}, left : Nat]

\* The queue for the slots is left out: no proof here rests on it.
Types ==
    /\ installed \in BOOLEAN /\ stopped \in BOOLEAN
    /\ libraries \subseteq Library /\ enabled \subseteq libraries /\ granted \subseteq Hook
    /\ connected \in [User -> Nat] /\ feed \in [Key -> Seq(Nat)] /\ clock \in Nat \ {0}
    /\ cursor \in [Key -> [position : Nat, failing : Nat \cup {-1}, retry : Nat]]
    /\ found \subseteq [key : Key, position : Nat]
    /\ task \in [Key -> Task] /\ turns \in [Library -> Seq(Waiter)]
    /\ manual \in [left : SUBSET Library, runs : BOOLEAN]
    /\ uninstall \subseteq levels /\ levels \subseteq libraries
    /\ spent \in Nat /\ done \in [Key -> SUBSET Nat] /\ rest \in [Key -> Nat] /\ over \subseteq Key

\* Who runs has the turn; an uninstall has those of the libraries it read and is done with.
TurnsAreHeld ==
    /\ \A k \in Key : task[k].at \in {"slot", "run"} => HasTurn(k)
    /\ manual.runs => manual.left # {} /\ HasTurn(RunNow[Least(manual.left)])
    /\ uninstall # {} => \A l \in levels \ uninstall : HasTurn(Uninstall[l])

\* A run is in a library there is.
RunsAreInLibraries ==
    \A k \in Key : task[k].at = "run" => k.library \in libraries

Times ==
    /\ \A k \in Key : \A i \in DOMAIN feed[k] : 1 <= feed[k][i] /\ feed[k][i] <= clock
    /\ \A u \in User : connected[u] <= clock

\* The least time of the events that user u may have, connected now or from now on.
Since(u) == IF connected[u] = 0 THEN clock ELSE connected[u]

\* What position p of key k covers of its events, which of them are the plugin's, and that
\* nothing that is yet to happen is at p or before.
Covered(events, k, p) ==
    {i \in DOMAIN events : (IF k.hook = "finished" THEN events[i] ELSE i) <= p}
Theirs(events, since, k, i) == k.user = None \/ events[i] >= since
Reached(events, now, k, p) == IF k.hook = "finished" THEN p < now ELSE p <= Len(events)

\* Position p tells that those of d, and no other, are handled.
Tells(events, since, k, p, d) ==
    /\ d \subseteq Covered(events, k, p)
    /\ \A i \in Covered(events, k, p) : Theirs(events, since, k, i) => i \in d

\* So does every position that no run of a former installation was recorded over, and so
\* will the next one of a run of this installation, once its batch is handled.
Positions ==
    \A k \in Key \ over :
        /\ Reached(feed[k], clock, k, cursor[k].position)
        /\ Tells(feed[k], Since(k.user), k, cursor[k].position, done[k])
        /\ task[k].at = "run" /\ ~task[k].former =>
              /\ task[k].next \in Nat
              /\ cursor[k].position <= task[k].next /\ Reached(feed[k], clock, k, task[k].next)
              /\ Tells(feed[k], Since(k.user), k, task[k].next, done[k] \cup task[k].batch)

\* A wait is the cursor's, or that of a delivery that could not be recorded.
Waits ==
    \A k \in Key : rest[k] <= IF task[k].at = "pause" THEN task[k].left ELSE cursor[k].retry

Inv == Types /\ TurnsAreHeld /\ RunsAreInLibraries /\ Times /\ Positions /\ Waits

-----------------------------------------------------------------------------
(* A set of natural numbers has a least one.                               *)
LEMMA LeastNat ==
  ASSUME NEW T \in SUBSET Nat, T # {}
  PROVE  Least(T) \in T /\ \A m \in T : Least(T) <= m
<1> DEFINE Less == {ss \in Nat \X Nat : ss[1] < ss[2]}
<1>1. OpToRel(<, Nat) = Less
  BY DEF OpToRel
<1>2. IsWellFoundedOn(Less, Nat)
  BY <1>1, NatLessThanWellFounded
<1> HIDE DEF Less
<1>3. \E x \in T : \A y \in T : ~ (<<y, x>> \in Less)
  BY <1>2, WFMin
<1>4. \A x, y \in T : <<y, x>> \notin Less => x <= y
  BY DEF Less
<1>5. \E x \in T : \A y \in T : x <= y
  BY <1>3, <1>4
<1> QED
  BY <1>5 DEF Least

(* Numbers up to a bound have a greatest.                                  *)
LEMMA GreatestOfSome ==
  ASSUME NEW b \in Nat, NEW T \in SUBSET (0 .. b), T # {}
  PROVE  \E n \in T : \A m \in T : m <= n
<1> DEFINE D == {d \in Nat : b - d \in T}
<1>1. D \subseteq Nat /\ D # {}
  <2>1. PICK n \in T : n \in 0 .. b
    OBVIOUS
  <2>2. b - n \in Nat /\ b - (b - n) = n
    BY <2>1
  <2> QED
    BY <2>1, <2>2
<1>2. Least(D) \in D /\ \A e \in D : Least(D) <= e
  <2> HIDE DEF D
  <2> QED
    BY <1>1, LeastNat
<1>3. ASSUME NEW m \in T PROVE m <= b - Least(D)
  <2>1. b - m \in Nat /\ b - (b - m) = m /\ m \in Nat /\ Least(D) \in Nat
    BY <1>2
  <2>2. Least(D) <= b - m
    BY <1>2, <2>1
  <2> QED
    BY <2>1, <2>2
<1> QED
  BY <1>2, <1>3

(* Some libraries have a first.                                            *)
LEMMA FirstLibrary == \A ls \in SUBSET Library : ls # {} => Least(ls) \in ls
  BY LeastNat, HooksAssumption

(* Of a key: its library, and that only a play is a user's.                *)
LEMMA Keys ==
  ASSUME NEW k \in Key
  PROVE  /\ k.library \in Library /\ k.user \in Nat
         /\ k.hook \in {"changed", "finished", "played"}
         /\ k.user = None <=> k.hook # "played"
         /\ k.user # None => k.user \in User
<1>1. k \in [library : Library, user : Nat, hook : {"changed", "finished", "played"}]
  BY HooksAssumption
<1>2. k.user = None <=> k.hook # "played"
  BY HooksAssumption
<1> QED
  BY <1>1, <1>2 DEF User

(* Run now and an uninstall are no deliveries, nor each other.             *)
LEMMA Strangers ==
  ASSUME NEW l \in Library
  PROVE  /\ RunNow[l].library = l /\ Uninstall[l].library = l
         /\ RunNow[l].hook = "run" /\ Uninstall[l].hook = "uninstall"
         /\ RunNow[l] # Uninstall[l]
         /\ \A k \in Key : k # RunNow[l] /\ k # Uninstall[l]
<1>1. RunNow[l] = [library |-> l, hook |-> "run", user |-> None]
  BY DEF RunNow
<1>2. Uninstall[l] = [library |-> l, hook |-> "uninstall", user |-> None]
  BY DEF Uninstall
<1>3. /\ RunNow[l].library = l /\ Uninstall[l].library = l
      /\ RunNow[l].hook = "run" /\ Uninstall[l].hook = "uninstall"
  BY <1>1, <1>2
<1>4. ASSUME NEW k \in Key PROVE k # RunNow[l] /\ k # Uninstall[l]
  <2>1. k.hook # "run" /\ k.hook # "uninstall"
    BY Keys
  <2> QED
    BY <1>3, <2>1
<1> QED
  BY <1>3, <1>4

(* Everything starts as the invariant says.                                *)
LEMMA Starts == Init => Inv
<1> SUFFICES ASSUME Init PROVE Inv
  OBVIOUS
<1>1. Types
  <2>1. cursor \in [Key -> [position : Nat, failing : Nat \cup {-1}, retry : Nat]]
    BY DEF Init, Fresh
  <2>2. task \in [Key -> Task]
    BY DEF Init, Task
  <2>3. manual \in [left : SUBSET Library, runs : BOOLEAN]
    BY DEF Init, NoRun
  <2>4. feed \in [Key -> Seq(Nat)] /\ turns \in [Library -> Seq(Waiter)]
    BY DEF Init
  <2>5. done \in [Key -> SUBSET Nat] /\ rest \in [Key -> Nat] /\ connected \in [User -> Nat]
    BY DEF Init
  <2>6. found = {} /\ uninstall = {} /\ levels = {} /\ over = {} /\ libraries \subseteq Library
        /\ enabled = libraries /\ granted = Hook /\ clock = 1 /\ spent = 0
        /\ installed \in BOOLEAN /\ stopped \in BOOLEAN
    BY DEF Init
  <2> QED
    BY <2>1, <2>2, <2>3, <2>4, <2>5, <2>6 DEF Types
<1>2. TurnsAreHeld /\ RunsAreInLibraries
  BY DEF Init, TurnsAreHeld, RunsAreInLibraries, Idle, NoRun
<1>3. Times /\ Waits
  BY DEF Init, Times, Waits, Idle, Fresh
<1>4. Positions
  BY Keys DEF Init, Positions, Reached, Tells, Covered, Idle, Fresh
<1> QED
  BY <1>1, <1>2, <1>3, <1>4 DEF Inv

-----------------------------------------------------------------------------
(***************************************************************************)
(* The turns.                                                              *)
(***************************************************************************)
\* In turn queues q, who has the turn in its library.
Holds(q, who) == q[who.library] # <<>> /\ Head(q[who.library]) = who

(* Who waits for a turn waits in a library.                                *)
LEMMA WaitersOfLibraries == \A who \in Waiter : who.library \in Library
  BY Keys, Strangers DEF Waiter

(* A turn let go is its holder's, and no other's.                          *)
LEMMA LettingGo ==
  ASSUME NEW q \in [Library -> Seq(Waiter)], NEW w \in Waiter, Holds(q, w)
  PROVE  /\ [q EXCEPT ![w.library] = Tail(@)] \in [Library -> Seq(Waiter)]
         /\ \A v \in Waiter : v # w /\ Holds(q, v) => Holds([q EXCEPT ![w.library] = Tail(@)], v)
<1> DEFINE n == [q EXCEPT ![w.library] = Tail(@)]
<1>1. w.library \in Library
  BY WaitersOfLibraries
<1>2. q[w.library] \in Seq(Waiter) /\ q[w.library] # <<>>
  BY <1>1 DEF Holds
<1>3. Tail(q[w.library]) \in Seq(Waiter)
  BY <1>2
<1>4. n \in [Library -> Seq(Waiter)]
  BY <1>1, <1>3
<1>5. ASSUME NEW v \in Waiter, v # w, Holds(q, v) PROVE Holds(n, v)
  <2>1. v.library # w.library
    BY <1>5 DEF Holds
  <2>2. n[v.library] = q[v.library]
    BY <1>1, <2>1, WaitersOfLibraries
  <2> QED
    BY <1>5, <2>2 DEF Holds
<1> QED
  BY <1>4, <1>5

(* Who joins a queue joins it last.                                        *)
LEMMA Joining ==
  ASSUME NEW q \in [Library -> Seq(Waiter)], NEW l \in Library, NEW w \in Waiter
  PROVE  /\ [q EXCEPT ![l] = Append(@, w)] \in [Library -> Seq(Waiter)]
         /\ \A v \in Waiter : Holds(q, v) => Holds([q EXCEPT ![l] = Append(@, w)], v)
<1> DEFINE n == [q EXCEPT ![l] = Append(@, w)]
<1>1. Append(q[l], w) \in Seq(Waiter)
  OBVIOUS
<1>2. n \in [Library -> Seq(Waiter)]
  BY <1>1
<1>3. ASSUME NEW v \in Waiter, Holds(q, v) PROVE Holds(n, v)
  <2>1. v.library \in Library /\ q[v.library] \in Seq(Waiter) /\ q[v.library] # <<>>
    BY <1>3, WaitersOfLibraries DEF Holds
  <2>2. CASE v.library = l
    <3>1. n[l] = Append(q[l], w)
      OBVIOUS
    <3>2. Append(q[l], w) # <<>> /\ Head(Append(q[l], w)) = Head(q[l])
      BY <2>1, <2>2
    <3> QED
      BY <1>3, <2>2, <3>1, <3>2 DEF Holds
  <2>3. CASE v.library # l
    BY <1>3, <2>1, <2>3 DEF Holds
  <2> QED
    BY <2>2, <2>3
<1> QED
  BY <1>2, <1>3

(* Run now and an uninstall join, too, or are done.                        *)
LEMMA Awaiting ==
  ASSUME NEW q \in [Library -> Seq(Waiter)], NEW ls \in SUBSET Library, NEW who, who \in {RunNow, Uninstall}
  PROVE  /\ Await(who, ls, q) \in [Library -> Seq(Waiter)]
         /\ \A v \in Waiter : Holds(q, v) => Holds(Await(who, ls, q), v)
<1>1. CASE ls = {}
  BY <1>1 DEF Await
<1>2. CASE ls # {}
  <2>1. Least(ls) \in Library
    BY <1>2, FirstLibrary
  <2>2. who[Least(ls)] \in Waiter
    BY <2>1 DEF Waiter
  <2> DEFINE l == Least(ls)
             w == who[l]
  <2>3. Await(who, ls, q) = [q EXCEPT ![l] = Append(@, w)]
    BY <1>2 DEF Await
  <2>4. l \in Library /\ w \in Waiter
    BY <2>1, <2>2
  <2> HIDE DEF l, w
  <2> DEFINE n == [q EXCEPT ![l] = Append(@, w)]
  <2>5. n \in [Library -> Seq(Waiter)] /\ \A v \in Waiter : Holds(q, v) => Holds(n, v)
    BY <2>4, Joining
  <2> HIDE DEF n
  <2>6. Await(who, ls, q) = n
    BY <2>3 DEF n
  <2> QED
    BY <2>5, <2>6
<1> QED
  BY <1>1, <1>2

(* Turns stay held if those of the deliveries are and no other is lost.    *)
LEMMA TurnsStay ==
  ASSUME TurnsAreHeld, UNCHANGED <<manual, uninstall, levels>>, levels \in SUBSET Library, manual.left \in SUBSET Library,
         \A k \in Key : task'[k].at \in {"slot", "run"} => HasTurn(k)',
         \A l \in Library : /\ HasTurn(RunNow[l]) => HasTurn(RunNow[l])'
                            /\ HasTurn(Uninstall[l]) => HasTurn(Uninstall[l])'
  PROVE  TurnsAreHeld'
<1>1. RunNow' = RunNow /\ Uninstall' = Uninstall
  BY DEF RunNow, Uninstall
<1>2. Least(manual.left)' = Least(manual.left)
  BY DEF Least
<1> QED
  BY <1>1, <1>2, FirstLibrary DEF TurnsAreHeld

(* A delivery that ends lets its own turn go.                              *)
LEMMA Ending ==
  ASSUME Types, TurnsAreHeld, NEW k \in Key, task[k].at \in {"slot", "run"}, LetGo(k)
  PROVE  /\ turns' \in [Library -> Seq(Waiter)]
         /\ \A v \in Waiter : v # k /\ HasTurn(v) => HasTurn(v)'
<1>1. Holds(turns, k) /\ k \in Waiter /\ turns \in [Library -> Seq(Waiter)]
  BY DEF TurnsAreHeld, HasTurn, Holds, Waiter, Types
<1> DEFINE n == [turns EXCEPT ![k.library] = Tail(@)]
<1>2. n \in [Library -> Seq(Waiter)] /\ \A v \in Waiter : v # k /\ Holds(turns, v) => Holds(n, v)
  BY <1>1, LettingGo
<1> HIDE DEF n
<1>3. turns' = n
  BY DEF LetGo, n
<1> QED
  BY <1>2, <1>3 DEF HasTurn, Holds

(* Run now goes on from the turn it holds.                                 *)
LEMMA RunningOn ==
  ASSUME Types, NEW l \in Library, HasTurn(RunNow[l]), NEW ls \in SUBSET Library, NextRun(l, ls)
  PROVE  /\ turns' \in [Library -> Seq(Waiter)]
         /\ \A v \in Waiter : v # RunNow[l] /\ HasTurn(v) => HasTurn(v)'
<1> DEFINE w == RunNow[l]
           n == [turns EXCEPT ![w.library] = Tail(@)]
<1>1. Holds(turns, w) /\ w \in Waiter /\ w.library = l /\ turns \in [Library -> Seq(Waiter)]
  <2>1. w \in Waiter
    BY DEF Waiter
  <2>2. w.library = l
    BY Strangers
  <2>3. Holds(turns, w)
    BY DEF HasTurn, Holds
  <2> QED
    BY <2>1, <2>2, <2>3 DEF Types
<1>2. turns' = Await(RunNow, ls, n)
  BY <1>1 DEF NextRun
<1> HIDE DEF w
<1>3. n \in [Library -> Seq(Waiter)] /\ \A v \in Waiter : v # w /\ Holds(turns, v) => Holds(n, v)
  BY <1>1, LettingGo
<1> HIDE DEF n
<1>4. turns' \in [Library -> Seq(Waiter)] /\ \A v \in Waiter : Holds(n, v) => Holds(turns', v)
  BY <1>2, <1>3, Awaiting
<1> QED
  BY <1>3, <1>4 DEF HasTurn, Holds, w

(* Whoever joins a queue, turns are kept.                                  *)
LEMMA Awaited ==
  ASSUME Types, NEW ls \in SUBSET Library, NEW who, who = RunNow \/ who = Uninstall,
         turns' = Await(who, ls, turns)
  PROVE  turns' \in [Library -> Seq(Waiter)] /\ \A v \in Waiter : HasTurn(v) => HasTurn(v)'
<1>1. turns \in [Library -> Seq(Waiter)] /\ who \in {RunNow, Uninstall}
  BY DEF Types
<1> DEFINE n == Await(who, ls, turns)
<1>2. n \in [Library -> Seq(Waiter)] /\ \A v \in Waiter : Holds(turns, v) => Holds(n, v)
  BY <1>1, Awaiting
<1> HIDE DEF n
<1>3. turns' = n
  BY DEF n
<1> QED
  BY <1>2, <1>3 DEF HasTurn, Holds

(* As the row goes no delivery is at work in a library whose turn is held  *)
(* (Plugins::uninstall).                                                   *)
LEMMA NoneRunsAsTheRowGoes ==
  ASSUME Types, TurnsAreHeld, DeleteRow
  PROVE  /\ \A l \in levels : l \in Library /\ turns[l] # <<>> /\ Head(turns[l]) = Uninstall[l]
         /\ \A k \in Key : task[k].at \in {"slot", "run"} => k.library \notin levels
<1>1. \A l \in levels : l \in Library /\ HasTurn(Uninstall[l])
  BY DEF DeleteRow, TurnsAreHeld, Types
<1>2. \A l \in levels : l \in Library /\ turns[l] # <<>> /\ Head(turns[l]) = Uninstall[l]
  BY <1>1, Strangers DEF HasTurn
<1>3. ASSUME NEW k \in Key, task[k].at \in {"slot", "run"}, k.library \in levels PROVE FALSE
  <2>1. k.library \in Library /\ Head(turns[k.library]) = k
    BY <1>3, Keys DEF TurnsAreHeld, HasTurn
  <2> QED
    BY <1>2, <1>3, <2>1, Strangers
<1> QED
  BY <1>2, <1>3

(* A delivery stays where it is, and a run there is becomes a former one.  *)
LEMMA TasksAsTheRowGoes ==
  ASSUME Types, DeleteRow
  PROVE  /\ task' \in [Key -> Task]
         /\ \A k \in Key : \/ task'[k] = task[k]
                           \/ task[k].at = "run" /\ task'[k].at = "run" /\ task'[k].former
<1>1. task \in [Key -> Task]
  BY DEF Types
<1>2. ASSUME NEW k \in Key, task[k].at = "run"
      PROVE  LET t == [task[k] EXCEPT !.former = TRUE] IN t \in Task /\ t.at = "run" /\ t.former
  <2>1. task[k] \in [at : {"run"}, batch : SUBSET Nat, next : Nat, former : BOOLEAN]
    BY <1>1, <1>2 DEF Task, Idle
  <2>2. [task[k] EXCEPT !.former = TRUE] \in [at : {"run"}, batch : SUBSET Nat, next : Nat, former : BOOLEAN]
    BY <2>1
  <2> QED
    BY <2>1, <2>2 DEF Task
<1>3. CASE task' = task
  BY <1>1, <1>3
<1>4. CASE task' = [k \in Key |-> IF task[k].at = "run" /\ k.library \notin levels
                                 THEN [task[k] EXCEPT !.former = TRUE] ELSE task[k]]
  BY <1>1, <1>2, <1>4
<1> QED
  BY <1>3, <1>4 DEF DeleteRow

(* So the queues of turns are queues, and who holds a turn holds it until  *)
(* it is done.                                                             *)
LEMMA TurnsStep ==
  ASSUME Types, TurnsAreHeld, [Next]_vars
  PROVE  turns' \in [Library -> Seq(Waiter)] /\ TurnsAreHeld'
<1>0. /\ turns \in [Library -> Seq(Waiter)] /\ task \in [Key -> Task]
      /\ manual.left \in SUBSET Library /\ uninstall \in SUBSET levels /\ levels \in SUBSET Library
      /\ libraries \in SUBSET Library /\ enabled \in SUBSET Library /\ uninstall \in SUBSET Library
      /\ Key \subseteq Waiter /\ \A l \in Library : RunNow[l] \in Waiter /\ Uninstall[l] \in Waiter
      /\ \A l \in Library, k \in Key : k # RunNow[l] /\ k # Uninstall[l]
      /\ \A l \in Library : RunNow[l] # Uninstall[l]
  <2>1. Key \subseteq Waiter /\ \A l \in Library : RunNow[l] \in Waiter /\ Uninstall[l] \in Waiter
    BY DEF Waiter
  <2>2. \A l \in Library : RunNow[l] # Uninstall[l] /\ \A k \in Key : k # RunNow[l] /\ k # Uninstall[l]
    BY Strangers
  <2>3. manual.left \in SUBSET Library
    BY DEF Types
  <2> QED
    BY <2>1, <2>2, <2>3 DEF Types
<1>1. ASSUME UNCHANGED <<turns, manual, uninstall, levels>>,
             \A k \in Key : task'[k].at \in {"slot", "run"} => task[k].at \in {"slot", "run"} \/ HasTurn(k)
      PROVE  turns' \in [Library -> Seq(Waiter)] /\ TurnsAreHeld'
  <2>1. \A w : HasTurn(w) => HasTurn(w)'
    BY <1>1 DEF HasTurn
  <2>2. \A k \in Key : task'[k].at \in {"slot", "run"} => HasTurn(k)'
    BY <1>1, <2>1 DEF TurnsAreHeld
  <2> QED
    BY <1>0, <1>1, <2>1, <2>2, TurnsStay
<1>2. ASSUME NEW k \in Key, task[k].at \in {"slot", "run"}, LetGo(k), UNCHANGED <<manual, uninstall, levels>>,
             task'[k].at \notin {"slot", "run"}, \A j \in Key \ {k} : task'[j] = task[j]
      PROVE  turns' \in [Library -> Seq(Waiter)] /\ TurnsAreHeld'
  <2>1. turns' \in [Library -> Seq(Waiter)] /\ \A v \in Waiter : v # k /\ HasTurn(v) => HasTurn(v)'
    BY <1>2, Ending
  <2>2. \A j \in Key : task'[j].at \in {"slot", "run"} => HasTurn(j)'
    BY <1>0, <1>2, <2>1 DEF TurnsAreHeld
  <2> QED
    BY <1>0, <1>2, <2>1, <2>2, TurnsStay
<1>3. CASE Poll \/ NewLibrary \/ Install \/ Stop \/ (\E l \in Library : Enable(l) \/ Disable(l)) \/ (\E k \in Key : Happen(k))
           \/ (\E hooks \in Grants : SetGrants(hooks)) \/ (\E u \in User : Connect(u) \/ Disconnect(u))
           \/ UNCHANGED vars
  <2>1. UNCHANGED <<turns, manual, uninstall, levels, task>>
    BY <1>3 DEF Poll, NewLibrary, Install, Stop, Enable, Disable, Happen, SetGrants, Connect, Disconnect, vars, unworked,
                queues, others, admin, history
  <2> QED
    BY <1>1, <2>1
<1>4. ASSUME NEW d \in found, Start(d) PROVE turns' \in [Library -> Seq(Waiter)] /\ TurnsAreHeld'
  <2>1. d.key \in Key /\ d.key.library \in Library /\ UNCHANGED <<manual, uninstall, levels>>
    BY <1>4, Keys DEF Types, Start, others
  <2>2. CASE task[d.key] # Idle
    BY <1>1, <1>4, <2>1, <2>2 DEF Start
  <2>3. CASE task[d.key] = Idle
    <3> DEFINE w == d.key
               l == d.key.library
               n == [turns EXCEPT ![l] = Append(@, w)]
    <3>1. turns' = n /\ task' = [task EXCEPT ![w] = [at |-> "turn", position |-> d.position]]
      BY <1>4, <2>3 DEF Start
    <3>2. l \in Library /\ w \in Waiter /\ w \in Key
      BY <1>0, <2>1
    <3> HIDE DEF l, w
    <3>3. n \in [Library -> Seq(Waiter)] /\ \A v \in Waiter : Holds(turns, v) => Holds(n, v)
      BY <1>0, <3>2, Joining
    <3> HIDE DEF n
    <3>4. \A v \in Waiter : HasTurn(v) => HasTurn(v)'
      BY <3>1, <3>3 DEF HasTurn, Holds
    <3>5. \A k \in Key : task'[k].at \in {"slot", "run"} => HasTurn(k)'
      BY <1>0, <3>1, <3>2, <3>4 DEF TurnsAreHeld
    <3> QED
      BY <1>0, <2>1, <3>1, <3>3, <3>4, <3>5, TurnsStay
  <2> QED
    BY <2>2, <2>3
<1>5. ASSUME NEW k \in Key, Deliver(k) PROVE turns' \in [Library -> Seq(Waiter)] /\ TurnsAreHeld'
  <2>1. CASE TakeTurn(k)
    BY <1>0, <1>1, <2>1 DEF TakeTurn, others
  <2>2. CASE Read(k) /\ ~stopped /\ StillDue(k)
    BY <1>0, <1>1, <2>2 DEF Read, others
  <2>3. CASE Read(k) /\ ~(~stopped /\ StillDue(k))
    BY <1>0, <1>2, <2>3 DEF Read, End, Idle, others
  <2>4. CASE ReadFails(k)
    BY <1>0, <1>2, <2>4 DEF ReadFails, End, Idle, others
  <2>5. CASE Handle(k)
    BY <1>0, <1>2, <2>5 DEF Handle, End, Idle, others
  <2>6. CASE Fail(k)
    BY <1>0, <1>2, <2>6 DEF Fail, End, Idle, others
  <2>7. CASE Unrun(k)
    BY <1>0, <1>2, <2>7 DEF Unrun, End, Idle, others
  <2>8. CASE Unrecorded(k)
    BY <1>0, <1>2, <2>8 DEF Unrecorded, others
  <2>9. CASE Resume(k)
    BY <1>0, <1>1, <2>9 DEF Resume, Idle, others
  <2> QED
    BY <1>5, <2>1, <2>2, <2>3, <2>4, <2>5, <2>6, <2>7, <2>8, <2>9 DEF Deliver

<1>6. CASE Tick
  <2>1. \A k \in Key : task'[k].at = task[k].at
    BY <1>0, <1>6 DEF Tick, Task, Idle
  <2> QED
    BY <1>1, <1>6, <2>1 DEF Tick, others
<1>7. CASE Restart
  <2>1. /\ turns' = [l \in Library |-> <<>>] /\ manual' = NoRun /\ uninstall' = {}
        /\ \A k \in Key : task'[k].at = "none"
    BY <1>7 DEF Restart, Idle
  <2> QED
    BY <2>1 DEF TurnsAreHeld, NoRun
<1>8. ASSUME UNCHANGED <<task, uninstall, levels>>, ~manual'.runs, turns' \in [Library -> Seq(Waiter)],
             \A v \in Waiter : (\A l \in Library : v # RunNow[l]) /\ HasTurn(v) => HasTurn(v)'
      PROVE  turns' \in [Library -> Seq(Waiter)] /\ TurnsAreHeld'
  BY <1>0, <1>8 DEF TurnsAreHeld, RunNow, Uninstall
<1>9. CASE StartRun
  <2>1. turns' = Await(RunNow, enabled, turns) /\ UNCHANGED <<task, uninstall, levels>> /\ ~manual'.runs
    BY <1>9 DEF StartRun
  <2>2. turns' \in [Library -> Seq(Waiter)] /\ \A v \in Waiter : HasTurn(v) => HasTurn(v)'
    BY <1>0, <2>1, Awaited
  <2> QED
    BY <1>8, <2>1, <2>2
<1>10. ASSUME NEW l \in Library, HasTurn(RunNow[l]), NEW ls \in SUBSET Library, NextRun(l, ls),
              UNCHANGED <<task, uninstall, levels>>
       PROVE  turns' \in [Library -> Seq(Waiter)] /\ TurnsAreHeld'
  <2>1. ~manual'.runs
    BY <1>10 DEF NextRun
  <2>2. turns' \in [Library -> Seq(Waiter)] /\ \A v \in Waiter : v # RunNow[l] /\ HasTurn(v) => HasTurn(v)'
    BY <1>10, RunningOn
  <2> QED
    BY <1>8, <1>10, <2>1, <2>2
<1>11. CASE BeginRun
  <2> DEFINE l == Least(manual.left)
  <2>1. l \in Library /\ HasTurn(RunNow[l]) /\ manual.left # {} /\ UNCHANGED <<task, uninstall, levels>>
        /\ manual.left \ {l} \in SUBSET Library
    BY <1>0, <1>11, FirstLibrary DEF BeginRun
  <2>2. CASE l \in enabled
    <3>1. /\ manual' = [manual EXCEPT !.runs = TRUE] /\ UNCHANGED turns
      BY <1>11, <2>2 DEF BeginRun
    <3>2. manual'.left = manual.left
      BY <3>1 DEF Types
    <3>3. \A w : HasTurn(w) => HasTurn(w)'
      BY <3>1 DEF HasTurn
    <3>4. Least(manual.left)' = l
      BY <3>2 DEF Least
    <3> QED
      BY <1>0, <2>1, <3>1, <3>2, <3>3, <3>4 DEF TurnsAreHeld, RunNow, Uninstall
  <2>3. CASE l \notin enabled
    BY <1>10, <1>11, <2>1, <2>3 DEF BeginRun
  <2> QED
    BY <2>2, <2>3
<1>12. CASE EndRun
  <2> DEFINE l == Least(manual.left)
  <2>1. l \in Library /\ HasTurn(RunNow[l]) /\ UNCHANGED <<task, uninstall, levels>>
        /\ manual.left \ {l} \in SUBSET Library /\ {} \in SUBSET Library
    BY <1>0, <1>12, FirstLibrary DEF EndRun, TurnsAreHeld
  <2>2. NextRun(l, manual.left \ {l}) \/ NextRun(l, {})
    BY <1>12 DEF EndRun
  <2> HIDE DEF l
  <2> QED
    BY <1>10, <2>1, <2>2
<1>13. CASE StartUninstall
  <2>1. /\ uninstall' = libraries /\ levels' = libraries /\ turns' = Await(Uninstall, libraries, turns)
        /\ UNCHANGED <<task, manual>>
    BY <1>13 DEF StartUninstall
  <2>2. turns' \in [Library -> Seq(Waiter)] /\ \A v \in Waiter : HasTurn(v) => HasTurn(v)'
    BY <1>0, <2>1, Awaited
  <2>3. Least(manual.left)' = Least(manual.left)
    BY <2>1 DEF Least
  <2> QED
    BY <1>0, <2>1, <2>2, <2>3, FirstLibrary DEF TurnsAreHeld, RunNow
<1>14. CASE NextTurn
  <2> DEFINE l == Least(uninstall)
             left == uninstall \ {l}
  <2>1. /\ uninstall # {} /\ l \in Library /\ HasTurn(Uninstall[l])
        /\ uninstall' = left /\ turns' = Await(Uninstall, left, turns) /\ left \in SUBSET Library
        /\ UNCHANGED <<task, manual, levels>>
    BY <1>0, <1>14, FirstLibrary DEF NextTurn
  <2> HIDE DEF left
  <2>2. turns' \in [Library -> Seq(Waiter)] /\ \A v \in Waiter : HasTurn(v) => HasTurn(v)'
    BY <1>0, <2>1, Awaited
  <2>3. Least(manual.left)' = Least(manual.left)
    BY <2>1 DEF Least
  <2>4. \A m \in levels \ uninstall' : HasTurn(Uninstall[m])'
    BY <1>0, <2>1, <2>2 DEF TurnsAreHeld, left
  <2> QED
    BY <1>0, <2>1, <2>2, <2>3, <2>4, FirstLibrary DEF TurnsAreHeld, RunNow, Uninstall
<1>15. CASE DeleteRow
  <2>1. /\ \A l \in levels : l \in Library /\ turns[l] # <<>> /\ Head(turns[l]) = Uninstall[l]
        /\ \A k \in Key : task[k].at \in {"slot", "run"} => k.library \notin levels
    BY <1>15, NoneRunsAsTheRowGoes
  <2>2. \A k \in Key : task'[k].at = task[k].at
    BY <1>15, TasksAsTheRowGoes
  <2>3. /\ turns' = [l \in Library |-> IF l \in levels THEN Tail(turns[l]) ELSE turns[l]]
        /\ uninstall' = {} /\ manual' = manual
    BY <1>15 DEF DeleteRow
  <2>4. turns' \in [Library -> Seq(Waiter)]
    BY <1>0, <2>1, <2>3
  <2>5. \A l \in Library \ levels : turns'[l] = turns[l]
    BY <2>3
  <2>6. \A k \in Key : task'[k].at \in {"slot", "run"} => HasTurn(k)'
    BY <2>1, <2>2, <2>5, Keys DEF TurnsAreHeld, HasTurn
  <2>7. manual.runs => HasTurn(RunNow[Least(manual.left)])'
    <3> DEFINE l == Least(manual.left)
    <3> SUFFICES ASSUME manual.runs PROVE HasTurn(RunNow[l])'
      OBVIOUS
    <3>1. l \in Library /\ HasTurn(RunNow[l]) /\ RunNow[l].library = l
      BY <1>0, FirstLibrary, Strangers DEF TurnsAreHeld
    <3>2. l \notin levels
      BY <1>0, <2>1, <3>1 DEF HasTurn
    <3>3. l' = l /\ RunNow' = RunNow
      BY <2>3 DEF Least, RunNow
    <3> HIDE DEF l
    <3> QED
      BY <2>5, <3>1, <3>2, <3>3 DEF HasTurn
  <2> QED
    BY <2>3, <2>4, <2>6, <2>7 DEF TurnsAreHeld
<1> QED
  BY <1>3, <1>4, <1>5, <1>6, <1>7, <1>9, <1>11, <1>12, <1>13, <1>14, <1>15 DEF Next

-----------------------------------------------------------------------------
(***************************************************************************)
(* The clock, and the waits.                                               *)
(***************************************************************************)
(* No event and no connection is of a time to come.                        *)
LEMMA TimesStep ==
  ASSUME Types, Times, [Next]_vars
  PROVE  /\ Times' /\ clock <= clock' /\ clock' \in Nat \ {0}
         /\ feed' \in [Key -> Seq(Nat)] /\ connected' \in [User -> Nat]
<1>0. clock \in Nat \ {0} /\ feed \in [Key -> Seq(Nat)] /\ connected \in [User -> Nat]
  BY DEF Types
<1>1. CASE UNCHANGED <<feed, clock, connected>>
  BY <1>0, <1>1 DEF Times
<1>2. ASSUME NEW k \in Key, Happen(k)
      PROVE  Times' /\ clock <= clock' /\ clock' \in Nat \ {0}
             /\ feed' \in [Key -> Seq(Nat)] /\ connected' \in [User -> Nat]
  <2>1. feed' = [feed EXCEPT ![k] = Append(@, clock)] /\ UNCHANGED <<clock, connected>>
    BY <1>2 DEF Happen, admin
  <2>2. feed' \in [Key -> Seq(Nat)]
    BY <1>0, <2>1
  <2>3. ASSUME NEW j \in Key, NEW i \in DOMAIN feed'[j] PROVE 1 <= feed'[j][i] /\ feed'[j][i] <= clock
    <3>1. CASE j = k
      <4>1. feed'[j] = Append(feed[k], clock) /\ feed[k] \in Seq(Nat)
        BY <1>0, <2>1, <3>1
      <4>2. i \in 1 .. Len(feed[k]) + 1
        BY <2>3, <4>1
      <4>3. i = Len(feed[k]) + 1 => feed'[j][i] = clock
        BY <4>1
      <4>4. i \in 1 .. Len(feed[k]) => feed'[j][i] = feed[k][i] /\ i \in DOMAIN feed[k]
        BY <4>1
      <4>5. i \in 1 .. Len(feed[k]) \/ i = Len(feed[k]) + 1
        BY <4>1, <4>2
      <4> QED
        BY <1>0, <4>3, <4>4, <4>5 DEF Times
    <3>2. CASE j # k
      BY <1>0, <2>1, <2>3, <3>2 DEF Times
    <3> QED
      BY <3>1, <3>2
  <2> QED
    BY <1>0, <2>1, <2>2, <2>3 DEF Times
<1>3. ASSUME NEW u \in User, Connect(u) \/ Disconnect(u)
      PROVE  Times' /\ clock <= clock' /\ clock' \in Nat \ {0}
             /\ feed' \in [Key -> Seq(Nat)] /\ connected' \in [User -> Nat]
  <2>1. UNCHANGED <<feed, clock>>
        /\ (connected' = [connected EXCEPT ![u] = clock] \/ connected' = [connected EXCEPT ![u] = 0])
    BY <1>3 DEF Connect, Disconnect, unworked
  <2>2. 0 \in Nat /\ 0 <= clock /\ clock <= clock
    BY <1>0
  <2>3. ASSUME NEW c \in Nat, c <= clock, connected' = [connected EXCEPT ![u] = c]
        PROVE  connected' \in [User -> Nat] /\ \A v \in User : connected'[v] <= clock
    BY <1>0, <2>3 DEF Times
  <2>4. connected' \in [User -> Nat] /\ \A v \in User : connected'[v] <= clock
    BY <1>0, <2>1, <2>2, <2>3
  <2> QED
    BY <1>0, <2>1, <2>4 DEF Times
<1>4. CASE Tick
  <2>1. UNCHANGED <<feed, connected>> /\ (clock' = clock + 1 \/ clock' = clock)
    BY <1>4 DEF Tick, admin
  <2>2. \A k \in Key : \A i \in DOMAIN feed[k] : feed[k][i] \in Nat
    BY <1>0
  <2> QED
    BY <1>0, <2>1, <2>2 DEF Times
<1>5. CASE DeleteRow
  <2>1. UNCHANGED <<feed, clock>> /\ (connected' = [u \in User |-> 0] \/ connected' = connected)
    BY <1>5 DEF DeleteRow
  <2> QED
    BY <1>0, <2>1 DEF Times
<1>6. \/ \E k \in Key : Happen(k)
      \/ \E u \in User : Connect(u) \/ Disconnect(u)
      \/ Tick \/ DeleteRow
      \/ UNCHANGED <<feed, clock, connected>>
  <2>1. CASE Poll \/ (\E d \in found : Start(d)) \/ StartRun \/ BeginRun \/ EndRun \/ StartUninstall \/ NextTurn
             \/ NewLibrary \/ Install \/ (\E l \in Library : Enable(l) \/ Disable(l)) \/ (\E hooks \in Grants : SetGrants(hooks))
             \/ Stop \/ Restart \/ UNCHANGED vars
    BY <2>1 DEF Poll, Start, StartRun, BeginRun, EndRun, StartUninstall, NextTurn, NewLibrary, Install, Enable, Disable,
                SetGrants, Stop, Restart, vars, unworked, admin
  <2>2. ASSUME NEW k \in Key, Deliver(k) PROVE UNCHANGED <<feed, clock, connected>>
    BY <2>2 DEF Deliver, TakeTurn, Read, ReadFails, Handle, Fail, Unrun, Unrecorded, Resume, admin
  <2> QED
    BY <2>1, <2>2 DEF Next
<1> QED
  BY <1>1, <1>2, <1>3, <1>4, <1>5, <1>6

(* The waits after failures are numbers, and none is shorter than Backoff. *)
LEMMA BackoffType ==
  ASSUME NEW since \in Nat \cup {-1}
  PROVE  FailingFor(since) \in Nat /\ BackoffAfter(since) \in Nat /\ Backoff <= BackoffAfter(since)
<1>1. FailingFor(since) \in Nat
  BY DEF FailingFor
<1>2. Backoff \in Nat /\ MaxBackoff \in Nat /\ Backoff <= MaxBackoff
  BY HooksAssumption
<1> QED
  BY <1>1, <1>2 DEF BackoffAfter

-----------------------------------------------------------------------------
(***************************************************************************)
(* The positions.                                                          *)
(***************************************************************************)
(* What happens later is past every position, and no one is owed more.     *)
LEMMA TellsOn ==
  ASSUME NEW events \in Seq(Nat), NEW now \in Nat, NEW now2 \in Nat, now <= now2,
         NEW events2, events2 = events \/ events2 = Append(events, now),
         NEW k \in Key, NEW p \in Nat, NEW d,
         NEW since, NEW since2, k.user # None => since \in Nat /\ since2 \in Nat /\ since <= since2,
         Reached(events, now, k, p), Tells(events, since, k, p, d)
  PROVE  Reached(events2, now2, k, p) /\ Tells(events2, since2, k, p, d)
<1>1. /\ Len(events) \in Nat /\ Len(events2) \in Nat /\ Len(events) <= Len(events2)
      /\ DOMAIN events = 1 .. Len(events) /\ DOMAIN events2 = 1 .. Len(events2)
      /\ \A i \in DOMAIN events : events2[i] = events[i] /\ events[i] \in Nat /\ i \in DOMAIN events2
      /\ \A i \in DOMAIN events2 \ DOMAIN events : events2[i] = now /\ i > Len(events)
  <2>1. CASE events2 = events
    BY <2>1
  <2>2. CASE events2 = Append(events, now)
    <3>1. Len(events2) = Len(events) + 1 /\ Len(events) \in Nat
      BY <2>2
    <3>2. \A i \in 1 .. Len(events) : events2[i] = events[i]
      BY <2>2
    <3>3. events2[Len(events) + 1] = now
      BY <2>2
    <3>4. DOMAIN events = 1 .. Len(events) /\ DOMAIN events2 = 1 .. Len(events2)
      BY <2>2
    <3> QED
      BY <3>1, <3>2, <3>3, <3>4
  <2> QED
    BY <2>1, <2>2
<1>2. Covered(events2, k, p) = Covered(events, k, p)
  <2>1. ASSUME NEW i \in DOMAIN events2 \ DOMAIN events PROVE ~((IF k.hook = "finished" THEN events2[i] ELSE i) <= p)
    <3>1. events2[i] = now /\ i > Len(events) /\ i \in Nat
      <4>1. i \in DOMAIN events2 \ DOMAIN events
        BY <2>1
      <4>2. events2[i] = now /\ i > Len(events)
        BY <1>1, <4>1
      <4>3. i \in Nat
        <5>1. i \in DOMAIN events2 /\ DOMAIN events2 = 1 .. Len(events2) /\ Len(events2) \in Nat
          BY <1>1, <4>1
        <5> DEFINE n == Len(events2)
        <5>2. i \in 1 .. n /\ n \in Nat
          BY <5>1
        <5> HIDE DEF n
        <5> QED
          BY <5>2
      <4> QED
        BY <4>2, <4>3
    <3>2. CASE k.hook = "finished"
      BY <3>1, <3>2 DEF Reached
    <3>3. CASE k.hook # "finished"
      <4>1. p <= Len(events)
        BY <3>3 DEF Reached
      <4>2. Len(events) \in Nat
        BY <1>1
      <4>3. ~(i <= p)
        BY <3>1, <4>1, <4>2
      <4> QED
        BY <3>3, <4>3
    <3> QED
      BY <3>2, <3>3
  <2>2. Covered(events, k, p) \subseteq Covered(events2, k, p)
    BY <1>1 DEF Covered
  <2>3. Covered(events2, k, p) \subseteq Covered(events, k, p)
    <3> SUFFICES ASSUME NEW i \in Covered(events2, k, p) PROVE i \in Covered(events, k, p)
      OBVIOUS
    <3>1. i \in DOMAIN events
      BY <2>1 DEF Covered
    <3> QED
      BY <1>1, <3>1 DEF Covered
  <2> QED
    BY <2>2, <2>3
<1>3. Reached(events2, now2, k, p)
  <2>1. k.hook = "finished" => p < now2
    BY DEF Reached
  <2>2. k.hook # "finished" => p <= Len(events2)
    <3>1. k.hook # "finished" => p <= Len(events)
      BY DEF Reached
    <3>2. Len(events) \in Nat /\ Len(events2) \in Nat /\ Len(events) <= Len(events2)
      BY <1>1
    <3> QED
      BY <3>1, <3>2
  <2> QED
    BY <2>1, <2>2 DEF Reached
<1>4. ASSUME NEW i \in Covered(events, k, p), Theirs(events2, since2, k, i) PROVE Theirs(events, since, k, i)
  <2>1. i \in DOMAIN events /\ events2[i] = events[i] /\ events[i] \in Nat
    BY <1>1 DEF Covered
  <2>2. CASE k.user = None
    BY <2>2 DEF Theirs
  <2>3. CASE k.user # None
    <3>1. events[i] >= since2 /\ since \in Nat /\ since2 \in Nat /\ since <= since2
      BY <1>4, <2>1, <2>3 DEF Theirs
    <3>2. events[i] >= since
      BY <2>1, <3>1
    <3> QED
      BY <3>2 DEF Theirs
  <2> QED
    BY <2>2, <2>3
<1> QED
  BY <1>2, <1>3, <1>4 DEF Tells

(* Events are added, and the plugin's are of ever later times.             *)
LEMMA EventsStep ==
  ASSUME Types, Times, [Next]_vars
  PROVE  /\ \A k \in Key : feed'[k] = feed[k] \/ feed'[k] = Append(feed[k], clock)
         /\ \A u \in User : Since(u) \in Nat /\ Since(u)' \in Nat /\ Since(u) <= Since(u)'
<1>0. /\ clock \in Nat \ {0} /\ clock' \in Nat \ {0} /\ clock <= clock' /\ Times'
      /\ feed \in [Key -> Seq(Nat)] /\ connected \in [User -> Nat] /\ connected' \in [User -> Nat]
  BY TimesStep DEF Types
<1>1. \A k \in Key : feed'[k] = feed[k] \/ feed'[k] = Append(feed[k], clock)
  <2>1. ASSUME NEW k \in Key, Happen(k) PROVE feed' = [feed EXCEPT ![k] = Append(@, clock)]
    BY <2>1 DEF Happen
  <2>2. \/ \E k \in Key : Happen(k)
        \/ feed' = feed
    <3>1. CASE Poll \/ (\E d \in found : Start(d)) \/ StartRun \/ BeginRun \/ EndRun \/ StartUninstall \/ NextTurn
               \/ DeleteRow \/ NewLibrary \/ Install \/ (\E l \in Library : Enable(l) \/ Disable(l))
               \/ (\E hooks \in Grants : SetGrants(hooks)) \/ (\E u \in User : Connect(u) \/ Disconnect(u))
               \/ Tick \/ Stop \/ Restart \/ UNCHANGED vars
      BY <3>1 DEF Poll, Start, StartRun, BeginRun, EndRun, StartUninstall, NextTurn, DeleteRow, NewLibrary, Install, Enable,
                  Disable, SetGrants, Connect, Disconnect, Tick, Stop, Restart, vars, unworked
    <3>2. ASSUME NEW k \in Key, Deliver(k) PROVE feed' = feed
      BY <3>2 DEF Deliver, TakeTurn, Read, ReadFails, Handle, Fail, Unrun, Unrecorded, Resume
    <3> QED
      BY <3>1, <3>2 DEF Next
  <2> QED
    BY <1>0, <2>1, <2>2
<1>2. \A u \in User : \/ connected'[u] = connected[u]
                      \/ connected'[u] = clock /\ connected[u] = 0 /\ clock' = clock
                      \/ connected'[u] = 0
  <2>1. ASSUME NEW v \in User, Connect(v) \/ Disconnect(v)
        PROVE  \A u \in User : \/ connected'[u] = connected[u]
                               \/ connected'[u] = clock /\ connected[u] = 0 /\ clock' = clock
                               \/ connected'[u] = 0
    BY <1>0, <2>1 DEF Connect, Disconnect, unworked
  <2>2. \/ \E u \in User : Connect(u) \/ Disconnect(u)
        \/ DeleteRow
        \/ connected' = connected
    <3>1. CASE Poll \/ (\E d \in found : Start(d)) \/ StartRun \/ BeginRun \/ EndRun \/ StartUninstall \/ NextTurn
               \/ NewLibrary \/ Install \/ (\E l \in Library : Enable(l) \/ Disable(l)) \/ (\E hooks \in Grants : SetGrants(hooks))
               \/ (\E k \in Key : Happen(k)) \/ Tick \/ Stop \/ Restart \/ UNCHANGED vars
      BY <3>1 DEF Poll, Start, StartRun, BeginRun, EndRun, StartUninstall, NextTurn, NewLibrary, Install, Enable,
                  Disable, SetGrants, Happen, Tick, Stop, Restart, vars, admin
    <3>2. ASSUME NEW k \in Key, Deliver(k) PROVE connected' = connected
      BY <3>2 DEF Deliver, TakeTurn, Read, ReadFails, Handle, Fail, Unrun, Unrecorded, Resume, admin
    <3> QED
      BY <3>1, <3>2 DEF Next
  <2>3. DeleteRow => connected' = [u \in User |-> 0] \/ connected' = connected
    BY DEF DeleteRow
  <2> QED
    BY <2>1, <2>2, <2>3
<1>3. ASSUME NEW u \in User PROVE Since(u) \in Nat /\ Since(u)' \in Nat /\ Since(u) <= Since(u)'
  <2>1. connected[u] \in Nat /\ connected'[u] \in Nat /\ connected[u] <= clock
    BY <1>0 DEF Times
  <2>2. Since(u) \in Nat /\ Since(u) <= clock
    BY <1>0, <2>1 DEF Since
  <2>3. Since(u)' = IF connected'[u] = 0 THEN clock' ELSE connected'[u]
    BY DEF Since
  <2>4. CASE connected'[u] = 0
    BY <1>0, <2>2, <2>3, <2>4
  <2>5. CASE connected'[u] # 0 /\ connected'[u] = connected[u]
    BY <2>1, <2>2, <2>3, <2>5 DEF Since
  <2>6. CASE connected'[u] # 0 /\ connected'[u] = clock
    BY <1>0, <2>2, <2>3, <2>6
  <2> QED
    BY <1>2, <2>4, <2>5, <2>6
<1> QED
  BY <1>1, <1>3

(* What a delivery reads lies between its position and the next, all that  *)
(* the plugin is to have there, and at least one (NextBatch, After).       *)
LEMMA ReadsAll ==
  ASSUME Types, Times, NEW k \in Key, Due(k),
         NEW p, p = cursor[k].position, NEW batch, batch = NextBatch(k, p)
  PROVE  /\ After(k, batch) \in Nat /\ batch \in SUBSET Nat
         /\ p <= After(k, batch) /\ Reached(feed[k], clock, k, After(k, batch))
         /\ Positions /\ k \notin over =>
               Tells(feed[k], Since(k.user), k, After(k, batch), done[k] \cup batch)
<1> DEFINE e == feed[k]
           P == Past(k, p)
           next == After(k, batch)
<1>0. /\ p \in Nat /\ clock \in Nat \ {0} /\ e \in Seq(Nat) /\ DOMAIN e = 1 .. Len(e) /\ Len(e) \in Nat
      /\ \A i \in DOMAIN e : Place(k, i) \in Nat /\ i \in Nat /\ e[i] \in Nat
      /\ Batch \in Nat \ {0}
  <2>1. p \in Nat /\ clock \in Nat \ {0} /\ e \in Seq(Nat) /\ Batch \in Nat \ {0}
    BY HooksAssumption DEF Types
  <2>2. DOMAIN e = 1 .. Len(e) /\ Len(e) \in Nat /\ \A i \in DOMAIN e : e[i] \in Nat /\ i \in Nat
    BY <2>1
  <2> QED
    BY <2>1, <2>2 DEF Place
<1>1. P # {} /\ P \subseteq DOMAIN e /\ \A i \in P : Place(k, i) > p
  BY DEF Due, Past, Visible
<1>2. P \in SUBSET Nat /\ Least(P) \in P /\ Least(P) \in Nat /\ \A i \in P : Least(P) <= i
  <2>1. P \in SUBSET Nat
    BY <1>0, <1>1
  <2> HIDE DEF P
  <2> QED
    BY <1>1, <2>1, LeastNat
<1> HIDE DEF P
<1>3. batch = IF k.hook = "finished" THEN P ELSE {i \in P : i < Batch + Least(P)}
  BY DEF NextBatch, P
<1>4. batch \subseteq P /\ Least(P) \in batch
  BY <1>0, <1>2, <1>3
<1>5. next \in {Place(k, i) : i \in batch} /\ \A i \in batch : Place(k, i) <= next
  <2> DEFINE T == {Place(k, i) : i \in batch}
             b == clock + Len(e)
  <2>1. b \in Nat /\ \A i \in batch : Place(k, i) \in 0 .. b
    BY <1>0, <1>1, <1>4 DEF Place, Times
  <2>2. T \in SUBSET (0 .. b) /\ T # {}
    BY <1>4, <2>1
  <2>3. \E n \in T : \A m \in T : m <= n
    <3> HIDE DEF T, b
    <3> QED
      BY <2>1, <2>2, GreatestOfSome
  <2>4. \E n \in T : \A i \in batch : Place(k, i) <= n
    BY <2>3
  <2> QED
    BY <2>4 DEF After
<1> HIDE DEF next
<1>6. PICK last \in batch : next = Place(k, last)
  BY <1>5
<1>7. next \in Nat /\ p < next
  BY <1>0, <1>1, <1>4, <1>6
<1>8. Reached(e, clock, k, next)
  <2>1. k.hook = "finished" => next < clock
    BY <1>4, <1>6 DEF Place, P, Past, Visible
  <2>2. k.hook # "finished" => next <= Len(e)
    BY <1>0, <1>1, <1>4, <1>6 DEF Place
  <2> QED
    BY <2>1, <2>2 DEF Reached
<1>9. ASSUME Positions, k \notin over, NEW i \in Covered(e, k, next), Theirs(e, Since(k.user), k, i), i \notin done[k] PROVE i \in batch
  <2>1. i \in DOMAIN e /\ Place(k, i) <= next
    BY <1>9 DEF Covered, Place
  <2>2. Place(k, i) > p
    BY <1>0, <1>9, <2>1 DEF Positions, Tells, Covered, Place
  <2>3. i \in Visible(k)
    <3>1. k.hook = "finished" => e[i] < clock
      <4>1. i \in DOMAIN e /\ e[i] \in Nat
        BY <1>0, <2>1
      <4>2. k.hook = "finished" => e[i] <= next /\ next < clock
        BY <1>8, <2>1 DEF Reached, Place
      <4> QED
        BY <1>0, <1>7, <4>1, <4>2
    <3>2. k.hook = "played" => e[i] >= connected[k.user]
      BY <1>9, Keys DEF Due, Theirs, Since
    <3> QED
      BY <2>1, <3>1, <3>2 DEF Visible
  <2>4. i \in P
    BY <2>2, <2>3 DEF P, Past
  <2>5. k.hook # "finished" => i < Batch + Least(P)
    <3>1. k.hook # "finished" => last < Batch + Least(P) /\ i <= last
      BY <1>3, <1>6, <2>1 DEF Place
    <3> QED
      BY <1>0, <1>1, <1>2, <1>4, <2>1, <3>1
  <2> QED
    BY <1>3, <2>4, <2>5
<1>10. ASSUME Positions, k \notin over PROVE done[k] \cup batch \subseteq Covered(e, k, next)
  <2>1. done[k] \subseteq Covered(e, k, p)
    BY <1>10 DEF Positions, Tells
  <2>2. Covered(e, k, p) \subseteq Covered(e, k, next)
    BY <1>0, <1>7 DEF Covered
  <2>3. batch \subseteq Covered(e, k, next)
    BY <1>1, <1>4, <1>5 DEF Covered, Place
  <2> QED
    BY <2>1, <2>2, <2>3
<1> QED
  BY <1>1, <1>0, <1>4, <1>7, <1>8, <1>9, <1>10 DEF Tells, next

(* Wherever neither the position nor the run under way changes, what they  *)
(* tell stays true.                                                        *)
LEMMA PositionStays ==
  ASSUME Types, Times, Positions, [Next]_vars, NEW k \in Key, k \notin over,
         cursor'[k].position = cursor[k].position, done'[k] = done[k],
         task'[k].at = "run" /\ ~task'[k].former => task'[k] = task[k]
  PROVE  /\ Reached(feed[k], clock, k, cursor[k].position)'
         /\ Tells(feed[k], Since(k.user), k, cursor[k].position, done[k])'
         /\ task'[k].at = "run" /\ ~task'[k].former =>
               /\ task'[k].next \in Nat
               /\ cursor'[k].position <= task'[k].next /\ Reached(feed[k], clock, k, task[k].next)'
               /\ Tells(feed[k], Since(k.user), k, task[k].next, done[k] \cup task[k].batch)'
<1> DEFINE p == cursor[k].position
           e == feed[k]
           e2 == feed'[k]
           s == Since(k.user)
           s2 == Since(k.user)'
           now2 == clock'
<1>1. e \in Seq(Nat) /\ clock \in Nat /\ now2 \in Nat /\ clock <= now2 /\ p \in Nat
  BY TimesStep DEF Types
<1>2. e2 = e \/ e2 = Append(e, clock)
  BY EventsStep
<1>3. k.user # None => s \in Nat /\ s2 \in Nat /\ s <= s2
  BY EventsStep, Keys
<1>4. Reached(e, clock, k, p) /\ Tells(e, s, k, p, done[k])
  BY DEF Positions
<1>5. task[k].at = "run" /\ ~task[k].former =>
         /\ task[k].next \in Nat /\ p <= task[k].next
         /\ Reached(e, clock, k, task[k].next) /\ Tells(e, s, k, task[k].next, done[k] \cup task[k].batch)
  BY DEF Positions
<1>6. /\ Reached(feed[k], clock, k, cursor[k].position)' = Reached(e2, now2, k, p)
      /\ Tells(feed[k], Since(k.user), k, cursor[k].position, done[k])' = Tells(e2, s2, k, p, done[k])
      /\ task'[k] = task[k] =>
            /\ Reached(feed[k], clock, k, task[k].next)' = Reached(e2, now2, k, task[k].next)
            /\ Tells(feed[k], Since(k.user), k, task[k].next, done[k] \cup task[k].batch)'
               = Tells(e2, s2, k, task[k].next, done[k] \cup task[k].batch)
  BY DEF Reached, Tells, Covered, Theirs
<1> HIDE DEF p, e, e2, s, s2, now2
<1>7. ASSUME NEW n \in Nat, NEW d, Reached(e, clock, k, n), Tells(e, s, k, n, d)
      PROVE  Reached(e2, now2, k, n) /\ Tells(e2, s2, k, n, d)
  BY <1>1, <1>2, <1>3, <1>7, TellsOn, Zenon
<1>8. Reached(e2, now2, k, p) /\ Tells(e2, s2, k, p, done[k])
  BY <1>1, <1>4, <1>7
<1>9. task[k].at = "run" /\ ~task[k].former => /\ Reached(e2, now2, k, task[k].next)
                           /\ Tells(e2, s2, k, task[k].next, done[k] \cup task[k].batch)
  BY <1>5, <1>7
<1> QED
  BY <1>5, <1>6, <1>8, <1>9 DEF p

(* A run that succeeds records its batch over the position it was read     *)
(* from, or is of a former installation; a read and a row that goes tell   *)
(* as much (Finish, read).                                                 *)
LEMMA PositionsStep ==
  ASSUME Types, TurnsAreHeld, Times, Positions, [Next]_vars
  PROVE  Positions'
<1>0. /\ cursor \in [Key -> [position : Nat, failing : Nat \cup {-1}, retry : Nat]]
      /\ task \in [Key -> Task] /\ done \in [Key -> SUBSET Nat]
      /\ feed \in [Key -> Seq(Nat)] /\ clock \in Nat \ {0}
  BY DEF Types
<1>1. ASSUME over' = over,
             \A k \in Key : /\ cursor'[k].position = cursor[k].position /\ done'[k] = done[k]
                            /\ task'[k].at = "run" => task'[k] = task[k]
      PROVE  Positions'
  BY <1>1, PositionStays DEF Positions
<1>2. ASSUME NEW k \in Key, Handle(k), ~task[k].former PROVE Positions'
  <2>1. /\ task[k].at = "run" /\ ~task[k].former /\ over' = over
        /\ cursor' = [cursor EXCEPT ![k] = [position |-> task[k].next, failing |-> -1, retry |-> 0]]
        /\ done' = [done EXCEPT ![k] = done[k] \cup task[k].batch]
        /\ task' = [task EXCEPT ![k] = Idle]
        /\ UNCHANGED <<feed, clock, connected>>
    BY <1>2 DEF Handle, End, admin
  <2>2. cursor'[k].position = task[k].next /\ done'[k] = done[k] \cup task[k].batch /\ task'[k].at = "none"
    BY <1>0, <2>1 DEF Idle
  <2>3. k \notin over =>
           /\ Reached(feed[k], clock, k, task[k].next)
           /\ Tells(feed[k], Since(k.user), k, task[k].next, done[k] \cup task[k].batch)
    BY <2>1 DEF Positions
  <2>4. k \notin over =>
           /\ Reached(feed[k], clock, k, cursor[k].position)'
           /\ Tells(feed[k], Since(k.user), k, cursor[k].position, done[k])'
    BY <2>1, <2>2, <2>3 DEF Reached, Tells, Covered, Theirs, Since
  <2>5. ASSUME NEW j \in Key \ {k}
        PROVE  cursor'[j].position = cursor[j].position /\ done'[j] = done[j] /\ task'[j] = task[j]
    BY <1>0, <2>1
  <2> QED
    BY <2>1, <2>2, <2>4, <2>5, PositionStays DEF Positions
<1>11. ASSUME NEW k \in Key, Handle(k), task[k].former PROVE Positions'
  <2>1. /\ over' = over \cup {k}
        /\ \A j \in Key \ {k} : cursor'[j] = cursor[j] /\ done'[j] = done[j] /\ task'[j] = task[j]
    BY <1>0, <1>11 DEF Handle, End
  <2> QED
    BY <2>1, PositionStays DEF Positions
<1>3. ASSUME NEW k \in Key, Read(k) PROVE Positions'
  <2>1. UNCHANGED <<cursor, done, over, feed, clock, connected>>
    BY <1>3 DEF Read, history, admin
  <2>2. CASE ~stopped /\ StillDue(k)
    <3> DEFINE p == cursor[k].position
               batch == NextBatch(k, p)
               next == After(k, batch)
               t == [at |-> "run", batch |-> batch, next |-> next, former |-> FALSE]
    <3>1. Due(k) /\ task' = [task EXCEPT ![k] = t]
      BY <1>3, <2>2 DEF Read, StillDue
    <3>2. t.batch = batch /\ t.next = next
      OBVIOUS
    <3>3. /\ next \in Nat /\ p <= next /\ Reached(feed[k], clock, k, next)
          /\ k \notin over => Tells(feed[k], Since(k.user), k, next, done[k] \cup batch)
      BY <3>1, ReadsAll
    <3> HIDE DEF t, next, batch
    <3>4. task'[k] = t /\ \A j \in Key \ {k} : task'[j] = task[j]
      BY <1>0, <3>1
    <3>5. /\ task'[k].next \in Nat
          /\ cursor'[k].position <= task'[k].next /\ Reached(feed[k], clock, k, task[k].next)'
      BY <2>1, <3>2, <3>3, <3>4 DEF Reached
    <3>6. k \notin over => Tells(feed[k], Since(k.user), k, task[k].next, done[k] \cup task[k].batch)'
      BY <2>1, <3>2, <3>3, <3>4 DEF Tells, Covered, Theirs, Since
    <3>7. k \notin over =>
             /\ Reached(feed[k], clock, k, cursor[k].position)'
             /\ Tells(feed[k], Since(k.user), k, cursor[k].position, done[k])'
      BY <2>1 DEF Positions, Reached, Tells, Covered, Theirs, Since
    <3>8. \A j \in Key \ {k} : /\ cursor'[j].position = cursor[j].position /\ done'[j] = done[j]
                               /\ task'[j] = task[j]
      BY <2>1, <3>4
    <3> QED
      BY <2>1, <3>5, <3>6, <3>7, <3>8, PositionStays DEF Positions
  <2>3. CASE ~(~stopped /\ StillDue(k))
    <3>1. task' = [task EXCEPT ![k] = Idle]
      BY <1>3, <2>3 DEF Read, End
    <3> QED
      BY <1>0, <1>1, <2>1, <3>1 DEF Idle
  <2> QED
    BY <2>2, <2>3
<1>4. CASE DeleteRow
  <2>2. CASE UNCHANGED <<cursor, done, over, task>>
    BY <1>1, <2>2
  <2>3. CASE /\ cursor' = [k \in Key |-> Fresh] /\ done' = [k \in Key |-> {}]
             /\ task' = [k \in Key |-> IF task[k].at = "run" /\ k.library \notin levels
                                       THEN [task[k] EXCEPT !.former = TRUE] ELSE task[k]]
    <3>0. \A k \in Key : task'[k].at = "run" => task'[k].former
      <4>1. \A k \in Key : task[k].at = "run" => k.library \notin levels
        BY <1>4, NoneRunsAsTheRowGoes
      <4> QED
        BY <1>0, <2>3, <4>1 DEF Task, Idle
    <3> SUFFICES ASSUME NEW k \in Key
                 PROVE  /\ Reached(feed[k], clock, k, cursor[k].position)'
                        /\ Tells(feed[k], Since(k.user), k, cursor[k].position, done[k])'
      BY <3>0 DEF Positions
    <3>1. cursor'[k].position = 0 /\ done'[k] = {} /\ UNCHANGED <<feed, clock>>
      BY <1>4, <2>3 DEF Fresh, DeleteRow
    <3>2. \A i \in DOMAIN feed[k] : i \in Nat /\ feed[k][i] \in Nat /\ 1 <= i /\ 1 <= feed[k][i]
      BY <1>0 DEF Times
    <3>3. Covered(feed[k], k, 0) = {}
      BY <3>2 DEF Covered
    <3>4. Reached(feed[k], clock, k, 0)
      <4>1. Len(feed[k]) \in Nat
        BY <1>0
      <4> QED
        BY <1>0, <4>1 DEF Reached
    <3>5. Reached(feed[k], clock, k, cursor[k].position)'
      BY <3>1, <3>4 DEF Reached
    <3>6. Tells(feed[k], Since(k.user), k, cursor[k].position, done[k])'
      BY <3>1, <3>3 DEF Tells, Covered
    <3> QED
      BY <3>5, <3>6
  <2> QED
    BY <1>4, <2>2, <2>3 DEF DeleteRow, history
<1>5. CASE Tick
  <2>1. \A k \in Key : task'[k].at = "run" => task'[k] = task[k]
    BY <1>0, <1>5 DEF Tick, Task, Idle
  <2>2. over' = over /\ \A k \in Key : cursor'[k].position = cursor[k].position /\ done'[k] = done[k]
    BY <1>5 DEF Tick
  <2> QED
    BY <1>1, <2>1, <2>2
<1>6. CASE Poll \/ NewLibrary \/ Install \/ Stop \/ (\E l \in Library : Disable(l)) \/ (\E k \in Key : Happen(k))
           \/ (\E hooks \in Grants : SetGrants(hooks)) \/ (\E u \in User : Connect(u) \/ Disconnect(u))
           \/ StartRun \/ BeginRun \/ EndRun \/ StartUninstall \/ NextTurn \/ UNCHANGED vars
  <2>1. UNCHANGED <<cursor, done, over, task>>
    BY <1>6 DEF Poll, Stop, Disable, Happen, SetGrants, Connect, Disconnect, vars, unworked, NewLibrary, Install,
                StartRun, BeginRun, EndRun, StartUninstall, NextTurn, queues, history
  <2> QED
    BY <1>1, <2>1
<1>7. ASSUME NEW l \in Library, Enable(l) PROVE Positions'
  <2>1. UNCHANGED <<task, done, over>> /\ \A k \in Key : cursor'[k].position = cursor[k].position
    BY <1>0, <1>7 DEF Enable, unworked, queues
  <2> QED
    BY <1>1, <2>1
<1>8. ASSUME NEW d \in found, Start(d) PROVE Positions'
  <2>1. d.key \in Key /\ UNCHANGED <<cursor, done, over>>
    BY <1>8 DEF Types, Start, history
  <2>2. \A k \in Key : task'[k].at = "run" => task'[k] = task[k]
    BY <1>0, <1>8, <2>1 DEF Start
  <2> QED
    BY <1>1, <2>1, <2>2
<1>9. ASSUME NEW k \in Key, TakeTurn(k) \/ ReadFails(k) \/ Fail(k) \/ Unrun(k) \/ Unrecorded(k) \/ Resume(k)
      PROVE  Positions'
  <2>1. done' = done /\ over' = over
    BY <1>9 DEF TakeTurn, ReadFails, Fail, Unrun, Unrecorded, Resume, history
  <2>2. \A j \in Key : cursor'[j].position = cursor[j].position
    <3>1. CASE TakeTurn(k) \/ ReadFails(k) \/ Unrecorded(k) \/ Resume(k)
      BY <3>1 DEF TakeTurn, ReadFails, Unrecorded, Resume
    <3>2. CASE Fail(k)
      BY <1>0, <3>2 DEF Fail
    <3>3. CASE Unrun(k)
      BY <1>0, <3>3 DEF Unrun
    <3> QED
      BY <1>9, <3>1, <3>2, <3>3
  <2>3. \A j \in Key : task'[j].at = "run" => task'[j] = task[j]
    <3>1. TakeTurn(k) => task' = [task EXCEPT ![k].at = "slot"] /\ task[k].at = "turn"
      BY DEF TakeTurn
    <3>2. ~TakeTurn(k) => \/ task' = [task EXCEPT ![k] = Idle]
                          \/ task' = [task EXCEPT ![k] = [at |-> "pause", left |-> Backoff]]
      BY <1>9 DEF ReadFails, Fail, Unrun, Unrecorded, Resume, End
    <3>3. CASE TakeTurn(k)
      BY <1>0, <3>1, <3>3 DEF Task, Idle
    <3>4. CASE ~TakeTurn(k)
      BY <1>0, <3>2, <3>4 DEF Idle
    <3> QED
      BY <3>3, <3>4
  <2> QED
    BY <1>1, <2>1, <2>2, <2>3
<1>10. CASE Restart
  BY <1>1, <1>10 DEF Restart, Idle
<1> QED
  BY <1>2, <1>3, <1>4, <1>5, <1>6, <1>7, <1>8, <1>9, <1>10, <1>11 DEF Next, Deliver

-----------------------------------------------------------------------------
(***************************************************************************)
(* The waits, and the types.                                               *)
(***************************************************************************)
(* Cursors, deliveries, and what is recorded keep their types.             *)
LEMMA CursorsStep ==
  ASSUME Types, [Next]_vars
  PROVE  /\ cursor' \in [Key -> [position : Nat, failing : Nat \cup {-1}, retry : Nat]]
         /\ rest' \in [Key -> Nat]
<1>0. /\ cursor \in [Key -> [position : Nat, failing : Nat \cup {-1}, retry : Nat]]
      /\ rest \in [Key -> Nat] /\ Backoff \in Nat /\ MaxFailing \in Nat
  BY HooksAssumption DEF Types
<1>1. CASE UNCHANGED <<cursor, rest>>
  BY <1>0, <1>1
<1>2. ASSUME NEW k \in Key, Deliver(k)
      PROVE  /\ cursor' \in [Key -> [position : Nat, failing : Nat \cup {-1}, retry : Nat]]
             /\ rest' \in [Key -> Nat]
  <2>0. cursor[k].failing \in Nat \cup {-1}
    BY <1>0
  <2>1. CASE Handle(k)
    <3> DEFINE c == [position |-> task[k].next, failing |-> -1, retry |-> 0]
    <3>1. c \in [position : Nat, failing : Nat \cup {-1}, retry : Nat]
      <4>1. task[k] \in Task /\ task[k].at = "run"
        BY <2>1 DEF Handle, Types
      <4>2. task[k].next \in Nat
        BY <4>1 DEF Task, Idle
      <4> QED
        BY <4>2
    <3>2. cursor' = [cursor EXCEPT ![k] = c] /\ rest' = [rest EXCEPT ![k] = 0]
      BY <2>1 DEF Handle
    <3> HIDE DEF c
    <3> QED
      BY <1>0, <3>1, <3>2
  <2>2. CASE Fail(k)
    <3> DEFINE since == FailingFor(cursor[k].failing)
               b == BackoffAfter(since)
    <3>1. since \in Nat /\ b \in Nat
      BY <2>0, BackoffType
    <3>2. /\ cursor' = [cursor EXCEPT ![k].failing = since, ![k].retry = b]
          /\ rest' = [rest EXCEPT ![k] = Backoff]
      BY <2>2 DEF Fail
    <3> HIDE DEF since, b
    <3> QED
      BY <1>0, <3>1, <3>2
  <2>3. CASE Unrun(k)
    <3> DEFINE b == BackoffAfter(cursor[k].failing)
    <3>1. b \in Nat
      BY <2>0, BackoffType
    <3>2. cursor' = [cursor EXCEPT ![k].retry = b] /\ rest' = [rest EXCEPT ![k] = Backoff]
      BY <2>3 DEF Unrun
    <3> HIDE DEF b
    <3> QED
      BY <1>0, <3>1, <3>2
  <2>4. CASE Unrecorded(k)
    <3>1. cursor' = cursor /\ rest' = [rest EXCEPT ![k] = Backoff]
      BY <2>4 DEF Unrecorded
    <3> QED
      BY <1>0, <3>1
  <2>5. CASE TakeTurn(k) \/ Read(k) \/ ReadFails(k) \/ Resume(k)
    BY <1>1, <2>5 DEF TakeTurn, Read, ReadFails, Resume, history
  <2> QED
    BY <1>2, <2>1, <2>2, <2>3, <2>4, <2>5 DEF Deliver
<1>3. CASE DeleteRow
  <2>1. \/ UNCHANGED <<cursor, rest>>
        \/ cursor' = [k \in Key |-> Fresh] /\ rest' = [k \in Key |-> 0]
    BY <1>3 DEF DeleteRow, history
  <2>2. Fresh \in [position : Nat, failing : Nat \cup {-1}, retry : Nat]
    BY DEF Fresh
  <2> QED
    BY <1>0, <2>1, <2>2
<1>4. ASSUME NEW l \in Library, Enable(l)
      PROVE  /\ cursor' \in [Key -> [position : Nat, failing : Nat \cup {-1}, retry : Nat]]
             /\ rest' \in [Key -> Nat]
  <2>1. ASSUME NEW k \in Key
        PROVE  [cursor[k] EXCEPT !.failing = -1, !.retry = 0] \in [position : Nat, failing : Nat \cup {-1}, retry : Nat]
    BY <1>0
  <2> QED
    BY <1>0, <1>4, <2>1 DEF Enable
<1>5. CASE Tick
  <2>1. ASSUME NEW n \in Nat PROVE Nearer(n) \in Nat
    BY DEF Nearer
  <2>2. ASSUME NEW n \in Nat PROVE Older(n, MaxFailing) \in Nat
    BY <1>0 DEF Older
  <2>3. ASSUME NEW k \in Key
        PROVE  [position |-> cursor[k].position,
                failing |-> IF cursor[k].failing = -1 THEN -1 ELSE Older(cursor[k].failing, MaxFailing),
                retry |-> Nearer(cursor[k].retry)] \in [position : Nat, failing : Nat \cup {-1}, retry : Nat]
    <3>1. cursor[k].position \in Nat /\ cursor[k].retry \in Nat /\ cursor[k].failing \in Nat \cup {-1}
      BY <1>0
    <3>2. Nearer(cursor[k].retry) \in Nat
      BY <2>1, <3>1
    <3>3. (IF cursor[k].failing = -1 THEN -1 ELSE Older(cursor[k].failing, MaxFailing)) \in Nat \cup {-1}
      BY <2>2, <3>1
    <3> QED
      BY <3>1, <3>2, <3>3
  <2> QED
    BY <1>0, <1>5, <2>1, <2>3 DEF Tick
<1>6. CASE Restart
  BY <1>0, <1>6 DEF Restart
<1>7. CASE Poll \/ NewLibrary \/ Install \/ Stop \/ (\E l \in Library : Disable(l)) \/ (\E k \in Key : Happen(k))
           \/ (\E hooks \in Grants : SetGrants(hooks)) \/ (\E u \in User : Connect(u) \/ Disconnect(u))
           \/ StartRun \/ BeginRun \/ EndRun \/ StartUninstall \/ NextTurn \/ (\E d \in found : Start(d))
           \/ UNCHANGED vars
  BY <1>1, <1>7 DEF Poll, Stop, Disable, Happen, SetGrants, Connect, Disconnect, vars, NewLibrary, Install, Start,
                    StartRun, BeginRun, EndRun, StartUninstall, NextTurn, history
<1> QED
  BY <1>2, <1>3, <1>4, <1>5, <1>6, <1>7 DEF Next

(* Deliveries keep their types, and what is recorded as handled does.      *)
LEMMA TasksStep ==
  ASSUME Types, Times, [Next]_vars
  PROVE  task' \in [Key -> Task] /\ done' \in [Key -> SUBSET Nat] /\ over' \subseteq Key
<1> DEFINE Recorded == task' \in [Key -> Task] /\ done' \in [Key -> SUBSET Nat] /\ over' \subseteq Key
<1>0. task \in [Key -> Task] /\ over \subseteq Key /\ done \in [Key -> SUBSET Nat] /\ Idle \in Task
      /\ cursor \in [Key -> [position : Nat, failing : Nat \cup {-1}, retry : Nat]]
      /\ Backoff \in Nat
  BY HooksAssumption DEF Types, Task
<1>1. CASE UNCHANGED <<task, done, over>>
  BY <1>0, <1>1
<1>2. ASSUME NEW k \in Key, NEW t \in Task, task' = [task EXCEPT ![k] = t], UNCHANGED <<done, over>>
      PROVE  Recorded
  BY <1>0, <1>2
<1>3. ASSUME NEW d \in found, Start(d) PROVE Recorded
  <2>1. d.key \in Key /\ d.position \in Nat /\ UNCHANGED <<done, over>>
    BY <1>3 DEF Types, Start, history
  <2>2. [at |-> "turn", position |-> d.position] \in Task
    BY <2>1 DEF Task
  <2> QED
    BY <1>0, <1>2, <1>3, <2>1, <2>2 DEF Start
<1>4. ASSUME NEW k \in Key, TakeTurn(k) PROVE Recorded
  <2>1. task[k] \in [at : {"turn", "slot"}, position : Nat]
    BY <1>0, <1>4 DEF TakeTurn, Task, Idle
  <2>2. [task[k] EXCEPT !.at = "slot"] \in [at : {"turn", "slot"}, position : Nat]
    BY <2>1
  <2>3. [task[k] EXCEPT !.at = "slot"] \in Task
    BY <2>2 DEF Task
  <2>4. task' = [task EXCEPT ![k] = [task[k] EXCEPT !.at = "slot"]] /\ UNCHANGED <<done, over>>
    BY <1>4 DEF TakeTurn, history
  <2> QED
    BY <1>2, <2>3, <2>4
<1>5. ASSUME NEW k \in Key, Read(k) PROVE Recorded
  <2>1. UNCHANGED <<done, over>>
    BY <1>5 DEF Read, history
  <2>2. CASE ~stopped /\ StillDue(k)
    <3> DEFINE p == cursor[k].position
               batch == NextBatch(k, p)
               next == After(k, batch)
               t == [at |-> "run", batch |-> batch, next |-> next, former |-> FALSE]
    <3>1. Due(k) /\ task' = [task EXCEPT ![k] = t]
      BY <1>5, <2>2 DEF Read, StillDue
    <3>2. next \in Nat /\ batch \in SUBSET Nat
      BY <3>1, ReadsAll
    <3> HIDE DEF next, batch
    <3>3. t \in Task
      BY <3>2 DEF Task
    <3> HIDE DEF t
    <3> QED
      BY <1>2, <2>1, <3>1, <3>3
  <2>3. CASE ~(~stopped /\ StillDue(k))
    <3>1. task' = [task EXCEPT ![k] = Idle]
      BY <1>5, <2>3 DEF Read, End
    <3> QED
      BY <1>0, <1>2, <2>1, <3>1
  <2> QED
    BY <2>2, <2>3
<1>6. ASSUME NEW k \in Key, Handle(k) PROVE Recorded
  <2>1. /\ task' = [task EXCEPT ![k] = Idle] /\ task[k].at = "run" /\ over' \subseteq over \cup {k}
        /\ done' = done \/ done' = [done EXCEPT ![k] = done[k] \cup task[k].batch]
    BY <1>0, <1>6 DEF Handle, End
  <2>2. task[k].batch \in SUBSET Nat
    BY <1>0, <2>1 DEF Task, Idle
  <2> QED
    BY <1>0, <2>1, <2>2
<1>7. ASSUME NEW k \in Key, ReadFails(k) \/ Fail(k) \/ Unrun(k) \/ Unrecorded(k) \/ Resume(k)
      PROVE  Recorded
  <2>1. /\ UNCHANGED <<done, over>>
        /\ \/ task' = [task EXCEPT ![k] = Idle]
           \/ task' = [task EXCEPT ![k] = [at |-> "pause", left |-> Backoff]]
    BY <1>7 DEF ReadFails, Fail, Unrun, Unrecorded, Resume, End, history
  <2>2. [at |-> "pause", left |-> Backoff] \in Task
    BY <1>0 DEF Task
  <2> QED
    BY <1>0, <1>2, <2>1, <2>2
<1>8. CASE DeleteRow
  <2>1. task' \in [Key -> Task]
    BY <1>8, TasksAsTheRowGoes
  <2>2. (done' = done \/ done' = [k \in Key |-> {}]) /\ over' \subseteq over
    BY <1>8 DEF DeleteRow, history
  <2> QED
    BY <1>0, <2>1, <2>2
<1>9. CASE Tick
  <2>1. ASSUME NEW k \in Key, task[k].at = "pause" PROVE [task[k] EXCEPT !.left = Nearer(@)] \in Task
    <3>1. task[k] \in [at : {"pause"}, left : Nat]
      BY <1>0, <2>1 DEF Task, Idle
    <3>2. Nearer(task[k].left) \in Nat
      BY <3>1 DEF Nearer
    <3>3. [task[k] EXCEPT !.left = Nearer(@)] \in [at : {"pause"}, left : Nat]
      BY <3>1, <3>2
    <3> QED
      BY <3>3 DEF Task
  <2>2. UNCHANGED <<done, over>> /\ task' = [k \in Key |-> IF task[k].at = "pause"
                              THEN [task[k] EXCEPT !.left = Nearer(@)] ELSE task[k]]
    BY <1>9 DEF Tick
  <2> QED
    BY <1>0, <2>1, <2>2
<1>10. CASE Restart
  BY <1>0, <1>10 DEF Restart
<1>11. CASE Poll \/ NewLibrary \/ Install \/ Stop \/ (\E l \in Library : Enable(l) \/ Disable(l)) \/ (\E k \in Key : Happen(k))
           \/ (\E hooks \in Grants : SetGrants(hooks)) \/ (\E u \in User : Connect(u) \/ Disconnect(u))
           \/ StartRun \/ BeginRun \/ EndRun \/ StartUninstall \/ NextTurn \/ UNCHANGED vars
  BY <1>1, <1>11 DEF Poll, Stop, Enable, Disable, Happen, SetGrants, Connect, Disconnect, vars, unworked, NewLibrary, Install,
                StartRun, BeginRun, EndRun, StartUninstall, NextTurn, queues, history
<1> QED
  BY <1>3, <1>4, <1>5, <1>6, <1>7, <1>8, <1>9, <1>10, <1>11 DEF Next, Deliver

(* What admins, Run now, an uninstall and the poll write keeps its type.   *)
LEMMA AdminStep ==
  ASSUME Types, [Next]_vars
  PROVE  /\ installed' \in BOOLEAN /\ stopped' \in BOOLEAN
         /\ libraries \subseteq libraries' /\ libraries' \subseteq Library /\ enabled' \subseteq libraries'
         /\ granted' \subseteq Hook /\ found' \subseteq [key : Key, position : Nat]
         /\ spent' \in Nat
<1>0. /\ installed \in BOOLEAN /\ stopped \in BOOLEAN
      /\ libraries \subseteq Library /\ enabled \subseteq libraries /\ granted \subseteq Hook
      /\ found \subseteq [key : Key, position : Nat] /\ spent \in Nat
      /\ cursor \in [Key -> [position : Nat, failing : Nat \cup {-1}, retry : Nat]]
  BY DEF Types
<1>1. ASSUME NEW k \in Key, Deliver(k)
      PROVE  /\ UNCHANGED <<libraries, installed, stopped, granted, found>> /\ enabled' \subseteq enabled
             /\ spent' \in {spent, spent + 1}
  BY <1>1 DEF Deliver, TakeTurn, Read, ReadFails, Handle, Fail, Unrun, Unrecorded, Resume, Chance, admin
<1>2. CASE Poll
  <2>1. \A k \in Key : cursor[k].position \in Nat
    BY <1>0
  <2> QED
    BY <1>0, <1>2, <2>1 DEF Poll, admin
<1>3. ASSUME NEW d \in found, Start(d)
      PROVE  UNCHANGED <<admin, stopped, spent>> /\ found' \subseteq found
  BY <1>3 DEF Start
<1>4. CASE StartRun \/ BeginRun \/ EndRun \/ StartUninstall \/ NextTurn \/ (\E k \in Key : Happen(k)) \/ Tick
           \/ UNCHANGED vars
  <2>1. UNCHANGED <<libraries, installed, enabled, granted, stopped, found>> /\ spent' \in {spent, spent + 1}
    BY <1>4 DEF StartRun, BeginRun, EndRun, StartUninstall, NextTurn, Happen, Tick, vars, admin, Chance
  <2> QED
    BY <1>0, <2>1
<1>5. CASE DeleteRow \/ Install \/ Stop \/ Restart
  <2>1. UNCHANGED <<libraries, granted>> /\ enabled' \in {enabled, {}} /\ found' \in {found, {}} /\ spent' \in {spent, spent + 1}
    BY <1>5 DEF DeleteRow, Install, Stop, Restart, unworked, admin, Chance
  <2>2. installed' \in BOOLEAN /\ stopped' \in BOOLEAN
    BY <1>0, <1>5 DEF DeleteRow, Install, Stop, Restart, unworked, admin
  <2> QED
    BY <1>0, <2>1, <2>2
<1>6. CASE (\E l \in Library : Enable(l) \/ Disable(l)) \/ (\E u \in User : Connect(u) \/ Disconnect(u))
  <2>1. /\ UNCHANGED <<libraries, installed, granted, found, stopped>> /\ spent' \in {spent, spent + 1}
        /\ enabled' \subseteq libraries
    BY <1>0, <1>6, HooksAssumption DEF Enable, Disable, Connect, Disconnect, unworked, Chance
  <2> QED
    BY <1>0, <2>1
<1>7. ASSUME NEW hooks \in Grants, SetGrants(hooks)
      PROVE  /\ UNCHANGED <<libraries, installed, found, stopped>> /\ spent' \in {spent, spent + 1}
             /\ granted' \subseteq Hook /\ enabled' \subseteq enabled
  BY <1>7, HooksAssumption DEF SetGrants, unworked, Chance, Hook
<1> DEFINE Typed == /\ installed' \in BOOLEAN /\ stopped' \in BOOLEAN
                    /\ libraries \subseteq libraries' /\ libraries' \subseteq Library
                    /\ enabled' \subseteq libraries' /\ granted' \subseteq Hook
                    /\ found' \subseteq [key : Key, position : Nat]
                    /\ spent' \in Nat
<1>8. (\E k \in Key : Deliver(k)) => Typed
  BY <1>0, <1>1
<1>9. (\E d \in found : Start(d)) => Typed
  BY <1>0, <1>3 DEF admin
<1>10. (\E hooks \in Grants : SetGrants(hooks)) => Typed
  BY <1>0, <1>7
<1>11. Poll => Typed
  BY <1>2
<1>12. NewLibrary => Typed
  <2>1. NewLibrary => /\ UNCHANGED <<installed, stopped, enabled, granted, found, spent>>
                      /\ libraries \subseteq libraries' /\ libraries' \subseteq Library
    BY <1>0 DEF NewLibrary, unworked
  <2> QED
    BY <1>0, <2>1
<1> HIDE DEF Typed
<1>13. Typed
  <2>1. CASE StartRun \/ BeginRun \/ EndRun \/ StartUninstall \/ NextTurn \/ (\E k \in Key : Happen(k)) \/ Tick
             \/ UNCHANGED vars
    BY <1>4, <2>1 DEF Typed
  <2>2. CASE DeleteRow \/ Install \/ Stop \/ Restart
    BY <1>5, <2>2 DEF Typed
  <2>3. CASE (\E l \in Library : Enable(l) \/ Disable(l)) \/ (\E u \in User : Connect(u) \/ Disconnect(u))
    BY <1>6, <2>3 DEF Typed
  <2> QED
    BY <1>8, <1>9, <1>10, <1>11, <1>12, <2>1, <2>2, <2>3 DEF Next
<1> QED
  BY <1>13 DEF Typed

(* Every run is in a library, since libraries are only added.              *)
LEMMA RunsStep ==
  ASSUME Types, RunsAreInLibraries, [Next]_vars
  PROVE  RunsAreInLibraries'
<1>0. task \in [Key -> Task] /\ libraries \subseteq libraries' /\ enabled \subseteq libraries
  BY AdminStep DEF Types
<1>1. ASSUME \A k \in Key : task'[k].at = "run" => task[k].at = "run" \/ k.library \in libraries
      PROVE  RunsAreInLibraries'
  BY <1>0, <1>1 DEF RunsAreInLibraries
<1>2. CASE Poll \/ NewLibrary \/ Install \/ Stop \/ (\E l \in Library : Enable(l) \/ Disable(l))
           \/ (\E k \in Key : Happen(k)) \/ (\E hooks \in Grants : SetGrants(hooks))
           \/ (\E u \in User : Connect(u) \/ Disconnect(u))
           \/ StartRun \/ BeginRun \/ EndRun \/ StartUninstall \/ NextTurn \/ UNCHANGED vars
  <2>1. task' = task
    BY <1>2 DEF Poll, NewLibrary, Stop, Enable, Disable, Happen, SetGrants, Connect, Disconnect, vars, unworked,
                Install, StartRun, BeginRun, EndRun, StartUninstall, NextTurn, queues
  <2> QED
    BY <1>1, <2>1
<1>3. ASSUME NEW d \in found, Start(d) PROVE RunsAreInLibraries'
  <2>1. d.key \in Key
    BY DEF Types
  <2> QED
    BY <1>0, <1>1, <1>3, <2>1 DEF Start
<1>4. ASSUME NEW k \in Key, Deliver(k) PROVE RunsAreInLibraries'
  <2>1. CASE Read(k) /\ ~stopped /\ StillDue(k)
    <3>1. k.library \in libraries /\ \A j \in Key \ {k} : task'[j] = task[j]
      BY <1>0, <2>1 DEF Read, StillDue, Due
    <3> QED
      BY <1>1, <3>1
  <2>2. CASE ~(Read(k) /\ ~stopped /\ StillDue(k))
    <3>1. \/ task' = [task EXCEPT ![k] = Idle]
          \/ task' = [task EXCEPT ![k] = [at |-> "pause", left |-> Backoff]]
          \/ task' = [task EXCEPT ![k].at = "slot"] /\ task[k].at = "turn"
      BY <1>4, <2>2 DEF Deliver, TakeTurn, Read, ReadFails, Handle, Fail, Unrun, Unrecorded, Resume, End
    <3>2. \A j \in Key : task'[j].at = "run" => task[j].at = "run"
      BY <1>0, <3>1 DEF Idle, Task
    <3> QED
      BY <1>1, <3>2
  <2> QED
    BY <2>1, <2>2
<1>5. CASE DeleteRow
  BY <1>1, <1>5, TasksAsTheRowGoes
<1>6. CASE Tick
  <2>1. \A k \in Key : task'[k].at = "run" => task'[k] = task[k]
    BY <1>6 DEF Tick, Types, Task, Idle
  <2> QED
    BY <1>1, <2>1
<1>7. CASE Restart
  BY <1>1, <1>7 DEF Restart, Idle
<1> QED
  BY <1>2, <1>3, <1>4, <1>5, <1>6, <1>7 DEF Next

(* The libraries Run now and an uninstall have left are libraries.         *)
LEMMA LeftStep ==
  ASSUME Types, [Next]_vars
  PROVE  /\ manual' \in [left : SUBSET Library, runs : BOOLEAN]
         /\ uninstall' \subseteq levels' /\ levels' \subseteq libraries'
<1>0. /\ manual \in [left : SUBSET Library, runs : BOOLEAN] /\ enabled \subseteq Library
      /\ uninstall \subseteq levels /\ levels \subseteq libraries /\ libraries \subseteq libraries'
  BY AdminStep DEF Types
<1>1. CASE StartRun \/ BeginRun \/ EndRun
  <2>1. UNCHANGED <<uninstall, levels>>
    BY <1>1 DEF StartRun, BeginRun, EndRun
  <2>2. \/ manual' = [manual EXCEPT !.runs = TRUE]
        \/ \E ls \in SUBSET Library : manual' = [left |-> ls, runs |-> FALSE]
    BY <1>0, <1>1 DEF StartRun, BeginRun, EndRun, NextRun
  <2>3. manual' \in [left : SUBSET Library, runs : BOOLEAN]
    <3>1. CASE manual' = [manual EXCEPT !.runs = TRUE]
      BY <1>0, <3>1
    <3>2. ASSUME NEW ls \in SUBSET Library, manual' = [left |-> ls, runs |-> FALSE]
          PROVE  manual' \in [left : SUBSET Library, runs : BOOLEAN]
      BY <3>2
    <3> QED
      BY <2>2, <3>1, <3>2
  <2> QED
    BY <1>0, <2>1, <2>3
<1>2. CASE StartUninstall \/ NextTurn \/ DeleteRow \/ Restart
  <2>1. manual' \in {manual, NoRun} /\ uninstall' \subseteq levels' /\ levels' \subseteq libraries'
    BY <1>0, <1>2 DEF StartUninstall, NextTurn, DeleteRow, Restart
  <2>2. NoRun \in [left : SUBSET Library, runs : BOOLEAN]
    BY DEF NoRun
  <2> QED
    BY <1>0, <2>1, <2>2
<1>3. CASE Poll \/ (\E d \in found : Start(d)) \/ NewLibrary \/ Install \/ Stop \/ (\E l \in Library : Enable(l) \/ Disable(l))
           \/ (\E k \in Key : Happen(k)) \/ Tick \/ (\E hooks \in Grants : SetGrants(hooks))
           \/ (\E u \in User : Connect(u) \/ Disconnect(u)) \/ UNCHANGED vars
  BY <1>0, <1>3 DEF Poll, Start, NewLibrary, Install, Stop, Enable, Disable, Happen, Tick, SetGrants, Connect, Disconnect,
                    vars, others, unworked
<1>4. ASSUME NEW k \in Key, Deliver(k) PROVE UNCHANGED <<manual, uninstall, levels>>
  BY <1>4 DEF Deliver, TakeTurn, Read, ReadFails, Handle, Fail, Unrun, Unrecorded, Resume, others
<1>5. (\E k \in Key : Deliver(k)) => /\ manual' \in [left : SUBSET Library, runs : BOOLEAN]
                                     /\ uninstall' \subseteq levels' /\ levels' \subseteq libraries'
  BY <1>0, <1>4
<1> QED
  BY <1>1, <1>2, <1>3, <1>5 DEF Next

(* No wait is shorter than what is recorded of it, whoever ends it.        *)
LEMMA WaitsStep ==
  ASSUME Types, Types', Waits, [Next]_vars
  PROVE  Waits'
<1>0. /\ cursor \in [Key -> [position : Nat, failing : Nat \cup {-1}, retry : Nat]]
      /\ task \in [Key -> Task] /\ rest \in [Key -> Nat]
      /\ \A k \in Key : cursor[k].retry \in Nat /\ rest[k] \in Nat /\ (task[k].at = "pause" => task[k].left \in Nat)
      /\ Backoff \in Nat
  <2>1. /\ cursor \in [Key -> [position : Nat, failing : Nat \cup {-1}, retry : Nat]]
        /\ task \in [Key -> Task] /\ rest \in [Key -> Nat] /\ Backoff \in Nat
    BY HooksAssumption DEF Types
  <2>2. \A k \in Key : task[k].at = "pause" => task[k].left \in Nat
    BY <2>1 DEF Task, Idle
  <2> QED
    BY <2>1, <2>2
<1> DEFINE Waited(k) == rest'[k] <= IF task'[k].at = "pause" THEN task'[k].left ELSE cursor'[k].retry
<1>1. (\A k \in Key : Waited(k)) => Waits'
  BY DEF Waits
<1>2. ASSUME NEW k \in Key, cursor'[k] = cursor[k], rest'[k] = rest[k],
             task'[k] = task[k] \/ (task[k].at # "pause" /\ task'[k].at # "pause")
      PROVE  Waited(k)
  BY <1>2 DEF Waits
<1>3. ASSUME NEW k \in Key, rest'[k] = 0 PROVE Waited(k)
  <2>1. task'[k] \in Task /\ cursor'[k].retry \in Nat
    BY DEF Types
  <2>2. task'[k].at = "pause" => task'[k].left \in Nat
    BY <2>1 DEF Task, Idle
  <2> QED
    BY <1>3, <2>1, <2>2
<1> HIDE DEF Waited
<1>4. CASE UNCHANGED <<cursor, rest, task>>
  BY <1>1, <1>2, <1>4
<1>5. ASSUME NEW k \in Key, Deliver(k) PROVE Waits'
  <2>1. ASSUME NEW j \in Key \ {k} PROVE cursor'[j] = cursor[j] /\ rest'[j] = rest[j] /\ task'[j] = task[j]
    BY <1>0, <1>5 DEF Deliver, TakeTurn, Read, ReadFails, Handle, Fail, Unrun, Unrecorded, Resume, End, history
  <2>2. Waited(k)
    <3>1. CASE TakeTurn(k) \/ Read(k) \/ ReadFails(k)
      <4>1. UNCHANGED <<cursor, rest>> /\ task[k].at # "pause"
        BY <3>1 DEF TakeTurn, Read, ReadFails, history
      <4>2. task'[k].at # "pause"
        <5>1. CASE TakeTurn(k)
          <6>1. task[k] \in [at : {"turn", "slot"}, position : Nat] /\ task' = [task EXCEPT ![k].at = "slot"]
            BY <1>0, <5>1 DEF TakeTurn, Idle, Task
          <6> QED
            BY <1>0, <6>1
        <5>2. CASE ReadFails(k) \/ (Read(k) /\ ~(~stopped /\ StillDue(k)))
          <6>1. task' = [task EXCEPT ![k] = Idle]
            BY <5>2 DEF Read, ReadFails, End
          <6> QED
            BY <1>0, <6>1 DEF Idle
        <5>3. CASE Read(k) /\ ~stopped /\ StillDue(k)
          <6> DEFINE batch == NextBatch(k, task[k].position)
                     t == [at |-> "run", batch |-> batch, next |-> After(k, batch), former |-> FALSE]
          <6>1. task' = [task EXCEPT ![k] = t] /\ t.at = "run"
            BY <5>3 DEF Read
          <6> HIDE DEF t
          <6> QED
            BY <1>0, <6>1
        <5> QED
          BY <3>1, <5>1, <5>2, <5>3
      <4> QED
        BY <1>2, <4>1, <4>2
    <3>2. CASE Handle(k)
      BY <1>0, <1>3, <3>2 DEF Handle
    <3>3. CASE Fail(k) \/ Unrun(k)
      <4> DEFINE b == IF Fail(k) THEN BackoffAfter(FailingFor(cursor[k].failing)) ELSE BackoffAfter(cursor[k].failing)
      <4>1. cursor[k].failing \in Nat \cup {-1}
        BY <1>0
      <4>2. b \in Nat /\ Backoff <= b
        BY <4>1, BackoffType
      <4>3. task'[k].at = "none" /\ rest'[k] = Backoff
        BY <1>0, <3>3 DEF Fail, Unrun, End, Idle
      <4>4. cursor'[k].retry = b
        BY <1>0, <3>3 DEF Fail, Unrun
      <4> HIDE DEF b
      <4> QED
        BY <4>2, <4>3, <4>4 DEF Waited
    <3>4. CASE Unrecorded(k)
      <4>1. rest'[k] = Backoff /\ task'[k] = [at |-> "pause", left |-> Backoff]
        BY <1>0, <3>4 DEF Unrecorded
      <4> QED
        BY <1>0, <4>1 DEF Waited
    <3>5. CASE Resume(k)
      <4>1. rest'[k] = rest[k] /\ rest[k] <= 0
        BY <3>5 DEF Resume, Waits, history
      <4> QED
        BY <1>0, <1>3, <4>1
    <3> QED
      BY <1>5, <3>1, <3>2, <3>3, <3>4, <3>5 DEF Deliver
  <2> QED
    BY <1>1, <1>2, <2>1, <2>2
<1>6. ASSUME NEW d \in found, Start(d) PROVE Waits'
  <2>1. d.key \in Key /\ UNCHANGED <<cursor, rest>>
    BY <1>6 DEF Types, Start, history
  <2>2. ASSUME NEW k \in Key PROVE task'[k] = task[k] \/ (task[k].at # "pause" /\ task'[k].at # "pause")
    BY <1>0, <1>6, <2>1 DEF Start, Idle
  <2> QED
    BY <1>1, <1>2, <2>1, <2>2
<1>7. CASE DeleteRow
  <2>1. \A k \in Key : task'[k] = task[k] \/ (task[k].at # "pause" /\ task'[k].at # "pause")
    BY <1>7, TasksAsTheRowGoes
  <2>2. UNCHANGED <<cursor, rest>> \/ rest' = [k \in Key |-> 0]
    BY <1>7 DEF DeleteRow, history
  <2> QED
    BY <1>1, <1>2, <1>3, <2>1, <2>2
<1>8. ASSUME NEW l \in Library, Enable(l) PROVE Waits'
  <2>1. ASSUME NEW k \in Key PROVE Waited(k)
    <3>1. task'[k] = task[k]
      BY <1>8 DEF Enable, unworked, queues
    <3>2. CASE k.library = l /\ task[k].at = "pause"
      BY <1>0, <1>8, <3>1, <3>2 DEF Enable, Waits, Waited
    <3>3. CASE k.library = l /\ task[k].at # "pause"
      BY <1>3, <1>8, <3>3 DEF Enable
    <3>4. CASE k.library # l
      BY <1>2, <1>8, <3>1, <3>4 DEF Enable
    <3> QED
      BY <3>2, <3>3, <3>4
  <2> QED
    BY <1>1, <2>1
<1>9. CASE Tick
  <2>1. ASSUME NEW m \in Nat, NEW n \in Nat, m <= n PROVE Nearer(m) <= Nearer(n)
    BY <2>1 DEF Nearer
  <2>2. ASSUME NEW k \in Key PROVE Waited(k)
    <3>1. rest'[k] = Nearer(rest[k]) /\ cursor'[k].retry = Nearer(cursor[k].retry)
      BY <1>9 DEF Tick
    <3>2. CASE task[k].at = "pause"
      <4>1. task'[k].at = "pause" /\ task'[k].left = Nearer(task[k].left)
        <5>1. task[k] \in [at : {"pause"}, left : Nat]
          BY <1>0, <3>2 DEF Task, Idle
        <5>2. task'[k] = [task[k] EXCEPT !.left = Nearer(task[k].left)]
          BY <1>9, <3>2 DEF Tick
        <5> QED
          BY <5>1, <5>2
      <4>2. rest[k] <= task[k].left
        BY <3>2 DEF Waits
      <4> QED
        BY <1>0, <2>1, <3>1, <3>2, <4>1, <4>2 DEF Waited
    <3>3. CASE task[k].at # "pause"
      <4>1. task'[k] = task[k]
        BY <1>9, <3>3 DEF Tick
      <4>2. rest[k] <= cursor[k].retry
        BY <3>3 DEF Waits
      <4> QED
        BY <1>0, <2>1, <3>1, <3>3, <4>1, <4>2 DEF Waited
    <3> QED
      BY <3>2, <3>3
  <2> QED
    BY <1>1, <2>2
<1>10. CASE Restart
  <2>1. ASSUME NEW k \in Key PROVE Waited(k)
    BY <1>0, <1>10 DEF Restart, Idle, Waited
  <2> QED
    BY <1>1, <2>1
<1>11. CASE Poll \/ NewLibrary \/ Install \/ Stop \/ (\E l \in Library : Disable(l)) \/ (\E k \in Key : Happen(k))
           \/ (\E hooks \in Grants : SetGrants(hooks)) \/ (\E u \in User : Connect(u) \/ Disconnect(u))
           \/ StartRun \/ BeginRun \/ EndRun \/ StartUninstall \/ NextTurn \/ UNCHANGED vars
  BY <1>4, <1>11 DEF Poll, Stop, Disable, Happen, SetGrants, Connect, Disconnect, vars, unworked, NewLibrary, Install,
                StartRun, BeginRun, EndRun, StartUninstall, NextTurn, queues, history
<1> QED
  BY <1>5, <1>6, <1>7, <1>8, <1>9, <1>10, <1>11 DEF Next

-----------------------------------------------------------------------------
(***************************************************************************)
(* The results.                                                            *)
(***************************************************************************)
(* Every step keeps the invariant.                                         *)
LEMMA InvStep == Inv /\ [Next]_vars => Inv'
<1> SUFFICES ASSUME Inv, [Next]_vars PROVE Inv'
  OBVIOUS
<1>1. Types /\ TurnsAreHeld /\ RunsAreInLibraries /\ Times /\ Positions /\ Waits
  BY DEF Inv
<1>2. turns' \in [Library -> Seq(Waiter)] /\ TurnsAreHeld'
  BY <1>1, TurnsStep
<1>3. RunsAreInLibraries'
  BY <1>1, RunsStep
<1>4. /\ Times' /\ clock' \in Nat \ {0}
      /\ feed' \in [Key -> Seq(Nat)] /\ connected' \in [User -> Nat]
  BY <1>1, TimesStep
<1>5. Positions'
  BY <1>1, PositionsStep
<1>6. /\ cursor' \in [Key -> [position : Nat, failing : Nat \cup {-1}, retry : Nat]]
      /\ rest' \in [Key -> Nat]
  BY <1>1, CursorsStep
<1>7. task' \in [Key -> Task] /\ done' \in [Key -> SUBSET Nat] /\ over' \subseteq Key
  BY <1>1, TasksStep
<1>8. /\ installed' \in BOOLEAN /\ stopped' \in BOOLEAN
      /\ libraries' \subseteq Library /\ enabled' \subseteq libraries' /\ granted' \subseteq Hook
      /\ found' \subseteq [key : Key, position : Nat]
      /\ spent' \in Nat
  BY <1>1, AdminStep
<1>9. /\ manual' \in [left : SUBSET Library, runs : BOOLEAN]
      /\ uninstall' \subseteq levels' /\ levels' \subseteq libraries'
  BY <1>1, LeftStep
<1>10. Types'
  BY <1>2, <1>4, <1>6, <1>7, <1>8, <1>9 DEF Types
<1>11. Waits'
  BY <1>1, <1>10, WaitsStep
<1> QED
  BY <1>2, <1>3, <1>4, <1>5, <1>10, <1>11 DEF Inv

(* The inductive invariant: the types, who holds which turn, what every    *)
(* position and every run under way tells, and the waits.                  *)
THEOREM HooksInvariant == Spec => []Inv
<1>1. Inv /\ [Next]_vars => Inv'
  BY InvStep
<1> QED
  BY Starts, <1>1, PTL DEF Spec

(* Within a library the plugin does one thing at a time: two deliveries, a *)
(* delivery and Run now, or one of them and the uninstall that takes its   *)
(* data away, never run at once (turns.rs: they "take turns").             *)
OneAtATime ==
    \A l \in Library :
        LET running == {k \in Key : k.library = l /\ task[k].at \in {"slot", "run"}}
        IN  /\ \A j, k \in running : j = k
            /\ manual.runs /\ l = Least(manual.left) => running = {}
            /\ uninstall # {} /\ l \in levels \ uninstall =>
                  running = {} /\ ~(manual.runs /\ l = Least(manual.left))

(* Who runs holds the turn at the head of its library's queue, which has   *)
(* one head (turns.rs:1-5).                                                *)
THEOREM RunsTakeTurns == Spec => []OneAtATime
<1>1. Inv => OneAtATime
  <2> SUFFICES ASSUME Inv, NEW l \in Library
               PROVE  /\ \A j, k \in {k \in Key : k.library = l /\ task[k].at \in {"slot", "run"}} : j = k
                      /\ manual.runs /\ l = Least(manual.left) =>
                            {k \in Key : k.library = l /\ task[k].at \in {"slot", "run"}} = {}
                      /\ uninstall # {} /\ l \in levels \ uninstall =>
                            /\ {k \in Key : k.library = l /\ task[k].at \in {"slot", "run"}} = {}
                            /\ ~(manual.runs /\ l = Least(manual.left))
    BY DEF OneAtATime
  <2>1. \A k \in Key : k.library = l /\ task[k].at \in {"slot", "run"} => Head(turns[l]) = k
    BY DEF Inv, TurnsAreHeld, HasTurn
  <2>2. manual.runs /\ l = Least(manual.left) => Head(turns[l]) = RunNow[l]
    BY Strangers DEF Inv, TurnsAreHeld, HasTurn
  <2>3. uninstall # {} /\ l \in levels \ uninstall => Head(turns[l]) = Uninstall[l]
    BY Strangers DEF Inv, TurnsAreHeld, HasTurn
  <2>4. RunNow[l] # Uninstall[l] /\ \A k \in Key : k # RunNow[l] /\ k # Uninstall[l]
    BY Strangers
  <2> QED
    BY <2>1, <2>2, <2>3, <2>4
<1> QED
  BY <1>1, HooksInvariant, PTL

(* As the plugin's row goes no run is under way, but one in a library      *)
(* added since the uninstall read those there are (install.rs: with its    *)
(* turn in every library "held until it is gone").                         *)
RunsEndBeforeTheRowGoes ==
    [][installed /\ ~installed' =>
          \A k \in Key : task[k].at = "run" => k.library \in libraries \ levels]_vars

(* The turns an uninstall holds as the row goes (install.rs:76-83) are     *)
(* those of the libraries it read, and a run in one of these would hold    *)
(* its turn.  In one added since it need not.                              *)
THEOREM RunsEndFirst == Spec => RunsEndBeforeTheRowGoes
<1>1. Inv /\ [Next]_vars =>
         [installed /\ ~installed' =>
             \A k \in Key : task[k].at = "run" => k.library \in libraries \ levels]_vars
  <2> SUFFICES ASSUME Inv, Next, installed, ~installed', NEW k \in Key, task[k].at = "run"
               PROVE  k.library \in libraries \ levels
    OBVIOUS
  <2>1. DeleteRow
    <3>1. ASSUME NEW j \in Key, Deliver(j) PROVE installed' = installed
      BY <3>1 DEF Deliver, TakeTurn, Read, ReadFails, Handle, Fail, Unrun, Unrecorded, Resume, admin
    <3>2. CASE Poll \/ (\E d \in found : Start(d)) \/ StartRun \/ BeginRun \/ EndRun \/ StartUninstall \/ NextTurn
               \/ NewLibrary \/ Install \/ (\E l \in Library : Enable(l) \/ Disable(l)) \/ (\E c \in Key : Happen(c))
               \/ (\E hooks \in Grants : SetGrants(hooks)) \/ (\E u \in User : Connect(u) \/ Disconnect(u))
               \/ Tick \/ Stop \/ Restart
      BY <3>2 DEF Poll, Start, StartRun, BeginRun, EndRun, StartUninstall, NextTurn, NewLibrary, Install, Enable,
                  Disable, Happen, SetGrants, Connect, Disconnect, Tick, Stop, Restart, admin
    <3> QED
      BY <3>1, <3>2 DEF Next
  <2>2. k.library \notin levels
    BY <2>1, NoneRunsAsTheRowGoes DEF Inv
  <2> QED
    BY <2>2 DEF Inv, RunsAreInLibraries
<1> QED
  BY <1>1, HooksInvariant, PTL DEF Spec, RunsEndBeforeTheRowGoes

(* A position covers exactly what has been handled.                        *)
THEOREM PositionsTellTheHandled == Spec => []PositionTellsTheHandled
<1>1. Inv => PositionTellsTheHandled
  <2> SUFFICES ASSUME Inv, NEW k \in Key \ over
               PROVE  /\ done[k] \subseteq {i \in DOMAIN feed[k] : Place(k, i) <= cursor[k].position}
                      /\ \/ k.user = None /\ {i \in DOMAIN feed[k] : Place(k, i) <= cursor[k].position} \subseteq done[k]
                         \/ k.user # None /\ (\/ connected[k.user] = 0
                                              \/ {i \in DOMAIN feed[k] : Place(k, i) <= cursor[k].position}
                                                 \cap Visible(k) \subseteq done[k])
    BY DEF PositionTellsTheHandled
  <2> DEFINE covered == {i \in DOMAIN feed[k] : Place(k, i) <= cursor[k].position}
  <2>1. covered = Covered(feed[k], k, cursor[k].position)
    BY DEF Covered, Place
  <2>2. /\ done[k] \subseteq covered
        /\ \A i \in covered : Theirs(feed[k], Since(k.user), k, i) => i \in done[k]
    BY <2>1 DEF Inv, Positions, Tells
  <2>3. k.user = None => covered \subseteq done[k]
    BY <2>2 DEF Theirs
  <2>4. k.user # None /\ connected[k.user] # 0 => covered \cap Visible(k) \subseteq done[k]
    BY <2>2, Keys DEF Theirs, Since, Visible
  <2> QED
    BY <2>2, <2>3, <2>4
<1> QED
  BY <1>1, HooksInvariant, PTL

(* A wait is waited out: only a delivery that is due starts a run, and it  *)
(* is not due before its cursor's retry is.                                *)
THEOREM WaitsAreWaitedOut == Spec => RetriesWait
<1>1. Inv /\ [Next]_vars =>
         [\A k \in Key : task[k].at = "slot" /\ task'[k].at = "run" => rest[k] = 0]_vars
  <2> SUFFICES ASSUME Inv, Next, NEW k \in Key, task[k].at = "slot", task'[k].at = "run"
               PROVE  rest[k] = 0
    OBVIOUS
  <2>0. task \in [Key -> Task] /\ rest[k] \in Nat
    BY DEF Inv, Types
  <2>1. ASSUME cursor[k].retry = 0 PROVE rest[k] = 0
    <3>1. rest[k] <= cursor[k].retry
      BY DEF Inv, Waits
    <3> QED
      BY <2>0, <2>1, <3>1
  <2>2. ASSUME NEW j \in Key, Deliver(j) PROVE rest[k] = 0
    <3>1. CASE Read(j) /\ ~stopped /\ StillDue(j)
      <4>1. j # k => task'[k] = task[k]
        BY <2>0, <3>1 DEF Read
      <4> QED
        BY <2>1, <3>1, <4>1 DEF StillDue, Due
    <3>2. CASE ~(Read(j) /\ ~stopped /\ StillDue(j))
      <4>1. \/ task' = [task EXCEPT ![j] = Idle]
            \/ task' = [task EXCEPT ![j] = [at |-> "pause", left |-> Backoff]]
            \/ task' = [task EXCEPT ![j].at = "slot"] /\ task[j].at = "turn"
        BY <2>2, <3>2 DEF Deliver, TakeTurn, Read, ReadFails, Handle, Fail, Unrun, Unrecorded, Resume, End
      <4> QED
        BY <2>0, <4>1 DEF Idle
    <3> QED
      BY <3>1, <3>2
  <2>3. CASE ~\E j \in Key : Deliver(j)
    <3>1. CASE \E d \in found : Start(d)
      <4>1. PICK d \in found : Start(d)
        BY <3>1
      <4>2. d.key \in Key
        BY DEF Inv, Types
      <4> QED
        BY <2>0, <4>1, <4>2 DEF Start
    <3>2. CASE DeleteRow
      BY <3>2, TasksAsTheRowGoes DEF Inv
    <3>3. CASE Tick
      BY <2>0, <3>3 DEF Tick
    <3>4. CASE Restart
      BY <3>4 DEF Restart, Idle
    <3>5. CASE Poll \/ NewLibrary \/ Install \/ Stop \/ (\E l \in Library : Enable(l) \/ Disable(l)) \/ (\E c \in Key : Happen(c))
               \/ (\E hooks \in Grants : SetGrants(hooks)) \/ (\E u \in User : Connect(u) \/ Disconnect(u))
               \/ StartRun \/ BeginRun \/ EndRun \/ StartUninstall \/ NextTurn
      BY <3>5 DEF Poll, Stop, Enable, Disable, Happen, SetGrants, Connect, Disconnect, unworked, NewLibrary, Install,
                  StartRun, BeginRun, EndRun, StartUninstall, NextTurn, queues
    <3> QED
      BY <2>3, <3>1, <3>2, <3>3, <3>4, <3>5 DEF Next
  <2> QED
    BY <2>2, <2>3
<1> QED
  BY <1>1, HooksInvariant, PTL DEF Spec, RetriesWait
=============================================================================
