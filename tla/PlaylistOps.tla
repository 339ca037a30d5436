---------------------------- MODULE PlaylistOps ----------------------------
(***************************************************************************)
(* Edits of a list of tracks as ops (core/src/playlist.rs on the server,   *)
(* web/src/lib/playlist-ops.ts on a device), their undo, and the sparse    *)
(* keys a playlist's rows are stored under (api/playlists/keys.rs).        *)
(*                                                                         *)
(* An op's positions are a set of indexes from 1; its at is how many items *)
(* come to stand before what it puts in, the source's position from 0.     *)
(***************************************************************************)
EXTENDS Integers, FiniteSets, SequencesExt, FiniteSetsExt

\* What a list holds does not matter here.
IsList(list) == list \in Seq({list[i] : i \in DOMAIN list})

AddLast(items) == [op |-> "append", at |-> 0, positions |-> {}, items |-> items]
Add(at, items) == [op |-> "add", at |-> at, positions |-> {}, items |-> items]
Drop(positions) == [op |-> "remove", at |-> 0, positions |-> positions, items |-> <<>>]
Move(positions, at) == [op |-> "move", at |-> at, positions |-> positions, items |-> <<>>]

\* What can be sent as an op: its positions and its at are indexes, in range or not.
IsOp(op) ==
    /\ op = [op |-> op.op, at |-> op.at, positions |-> op.positions, items |-> op.items]
    /\ op.op \in {"append", "add", "remove", "move"}
    /\ op.at \in Nat /\ IsList(op.items)
    /\ op.positions \subseteq Nat \ {0} /\ IsFiniteSet(op.positions)

AreOps(ops) == IsList(ops) /\ \A i \in DOMAIN ops : IsOp(ops[i])

Ascending(positions) ==
    [i \in 1 .. Cardinality(positions) |->
        CHOOSE p \in positions : Cardinality({q \in positions : q <= p}) = i]

\* The items of list at positions, and those elsewhere, in order.
Taken(list, positions) ==
    LET at == Ascending(positions) IN [i \in DOMAIN at |-> list[at[i]]]

Without(list, positions) == Taken(list, DOMAIN list \ positions)

Spliced(list, at, items) ==
    [i \in 1 .. Len(list) + Len(items) |->
        IF i <= at THEN list[i]
        ELSE IF i <= at + Len(items) THEN items[i - at] ELSE list[i - Len(items)]]

InRange(list, op) ==
    CASE op.op = "append" -> op.items # <<>>
      [] op.op = "add"    -> op.items # <<>> /\ op.at <= Len(list)
      [] op.op = "remove" -> op.positions # {} /\ op.positions \subseteq DOMAIN list
      [] op.op = "move"   -> /\ op.positions # {} /\ op.positions \subseteq DOMAIN list
                             /\ op.at <= Len(list) - Cardinality(op.positions)

ApplyOp(list, op) ==
    CASE op.op = "append" -> Spliced(list, Len(list), op.items)
      [] op.op = "add"    -> Spliced(list, op.at, op.items)
      [] op.op = "remove" -> Without(list, op.positions)
      [] op.op = "move"   -> Spliced(Without(list, op.positions), op.at, Taken(list, op.positions))

\* Each op applies to the list as the ones before it left it.
ApplyOps(list, ops) ==
    LET left[n \in 0 .. Len(ops)] == IF n = 0 THEN list ELSE ApplyOp(left[n - 1], ops[n])
    IN  left[Len(ops)]

\* The list the k-th op applies to.
Before(list, ops, k) == ApplyOps(list, SubSeq(ops, 1, k - 1))

\* apply_ops refuses an edit any op of which is out of range.
AllInRange(list, ops) == \A k \in DOMAIN ops : InRange(Before(list, ops, k), ops[k])

-----------------------------------------------------------------------------
(***************************************************************************)
(* The ops that take an op back.                                           *)
(***************************************************************************)
\* The sets of neighbouring positions, in order.
Runs(positions) ==
    LET firsts == Ascending({p \in positions : p - 1 \notin positions})
    IN  [i \in DOMAIN firsts |->
            {p \in positions : p >= firsts[i] /\ firsts[i] .. p \subseteq positions}]

\* The moves that take runs, put in after at, back run by run.
MovesBack(runs, at) ==
    [i \in DOMAIN runs |->
        LET from == at + Cardinality(UNION {runs[j] : j \in 1 .. i - 1})
        IN  Move(from + 1 .. from + Cardinality(runs[i]), Min(runs[i]) - 1)]

GoesLeft(move) == move.at < Min(move.positions) - 1
GoesRight(move) == move.at > Min(move.positions) - 1

\* Those that go left in playlist order, then those that go right, last first.
InOrder(moves) ==
    Taken(moves, {i \in DOMAIN moves : GoesLeft(moves[i])})
        \o Reverse(Taken(moves, {i \in DOMAIN moves : GoesRight(moves[i])}))

InvertOp(before, op) ==
    CASE op.op = "append" -> << Drop(Len(before) + 1 .. Len(before) + Len(op.items)) >>
      [] op.op = "add"    -> << Drop(op.at + 1 .. op.at + Len(op.items)) >>
      [] op.op = "remove" ->
            LET runs == Runs(op.positions)
            IN  [i \in DOMAIN runs |-> Add(Min(runs[i]) - 1, Taken(before, runs[i]))]
      [] op.op = "move"   -> InOrder(MovesBack(Runs(op.positions), op.at))

\* The ops of an edit are taken back last first, each on the list it was made on.
InvertOps(list, ops) ==
    LET back[n \in 0 .. Len(ops)] ==
            IF n = 0 THEN <<>> ELSE InvertOp(Before(list, ops, n), ops[n]) \o back[n - 1]
    IN  back[Len(ops)]

-----------------------------------------------------------------------------
(***************************************************************************)
(* The key each of count items takes after an edit. stored has, of each    *)
(* item the edit did not add, the key it is stored under.                  *)
(***************************************************************************)
Extends(key, last) == key < last

\* From the runs so far that end lowest, by length, and the best run to each position: those
\* with the item at i.
Extended(stored, s, i) ==
    LET n == Cardinality({m \in DOMAIN s.tails : Extends(stored[s.tails[m]], stored[i])})
    IN  [tails |-> IF n = Len(s.tails) THEN Append(s.tails, i) ELSE [s.tails EXCEPT ![n + 1] = i],
         runs |-> [s.runs EXCEPT ![i] = Append(IF n = 0 THEN <<>> ELSE s.runs[s.tails[n]], i)]]

LongestOf(s) == IF s.tails = <<>> THEN {} ELSE ToSet(s.runs[Last(s.tails)])

\* The positions of a longest run of increasing keys: of every length, the run that ends
\* lowest is the one to go on with.
LongestRun(stored) ==
    LET present == Ascending(DOMAIN stored)
        seen[n \in 0 .. Len(present)] ==
            IF n = 0 THEN [tails |-> <<>>, runs |-> [i \in DOMAIN stored |-> <<>>]]
            ELSE Extended(stored, seen[n - 1], present[n])
    IN  LongestOf(seen[Len(present)])

\* Slip: a gap with as many keys as items to put in is room enough.
SlipStep(low, high, count) == IF high - low = count THEN 1 ELSE (high - low) \div (count + 1)

\* How far apart count new keys between two lie.
Step(low, high, count) == (high - low) \div (count + 1)

\* The keys when those at kept stay, of which below and above are the last before and the first
\* after each item, or its ends.
KeysAround(stored, kept, below, above, gap) ==
    LET StepAt(i) == Step(stored[below[i]], stored[above[i]], above[i] - below[i] - 1)
        Between == {i \in DOMAIN below \ kept : below[i] \in kept /\ above[i] \in kept}
        Key(i) ==
            CASE i \in kept -> stored[i]
              [] i \in Between -> stored[below[i]] + StepAt(i) * (i - below[i])
              [] i \notin kept /\ below[i] \in kept /\ above[i] \notin kept ->
                    stored[below[i]] + gap * (i - below[i])
              [] i \notin kept /\ below[i] \notin kept /\ above[i] \in kept ->
                    stored[above[i]] - gap * (above[i] - i)
              [] kept = {} -> gap * i
    IN  IF \E i \in Between : StepAt(i) < 1 THEN {} ELSE {[i \in DOMAIN below |-> Key(i)]}

AssignAround(stored, kept, count, gap) ==
    KeysAround(stored, kept, [i \in 1 .. count |-> Max({k \in kept : k < i} \cup {0})],
               [i \in 1 .. count |-> Min({k \in kept : k > i} \cup {count + 1})], gap)

\* The keys in order, as a set of one, or of none when a gap between two kept keys is used up.
Assign(stored, count, gap) == AssignAround(stored, LongestRun(stored), count, gap)
=============================================================================
