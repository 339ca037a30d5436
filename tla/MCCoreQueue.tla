---------------------------- MODULE MCCoreQueue ----------------------------
EXTENDS CoreQueue

CONSTANTS a, b, c1, c2

MCLength == a :> 3 @@ b :> 1
\* Small pivots and coins that move rows in both directions.
MCPivot(seed, m, i) == (seed + 2 * i) % m
MCCoin(seed, i, high) == (seed + i + high) % 2 = 0

-----------------------------------------------------------------------------
(***************************************************************************)
(* Rewind against what it promises: Previous repeated until the play is    *)
(* current.  Each step gives its copy a key of its own; rewind makes one.  *)
(***************************************************************************)
Spare == <<"k1", "k2", "k3", "k4", "k5">>
OneCopy == "k0"

Back(q, n) == FoldLeft(LAMBDA acc, k : Previous(acc, Spare[k]), q, [k \in 1 .. n |-> k])
Heard(q) == <<q.current>> \o q.manual
IsCopy(item, keys) == item.view \in keys
SameHeard(q, r) ==
    LET x == Heard(q) y == Heard(r) IN
    /\ Len(x) = Len(y)
    /\ \A n \in DOMAIN x :
          \/ x[n] = y[n] /\ ~IsCopy(x[n], {OneCopy})
          \/ /\ IsCopy(x[n], {OneCopy}) /\ IsCopy(y[n], Range(Spare))
             /\ SourceRow(q, x[n]) = SourceRow(r, y[n])
SameRest(q, r) ==
    /\ q.order = r.order /\ q.cursor = r.cursor /\ q.history = r.history
    /\ q.nextPlay = r.nextPlay /\ q.sources = r.sources /\ q.adjusted = r.adjusted

\* Going back to a play in one edit leaves the queue that Previous would, repeated until the
\* play is current: the same rows, places and History, and copies where it would make copies
\* (rewind.rs:62-63).
RewindIsPreviousRepeated ==
    LET plays == Plays(queue) IN
    \A n \in DOMAIN plays :
        LET went  == Rewind(queue, plays[n], OneCopy)
            steps == Back(queue, Len(plays) - n + 1)
        IN  SameHeard(went, steps) /\ SameRest(went, steps)

-----------------------------------------------------------------------------
Spans == INSTANCE SpanLists
SpansOf(rows) == Spans!Normal([n \in DOMAIN rows |-> Spans!Single(rows[n])])
ReadAs(spans, rows) == Spans!IsNormal(spans) /\ Spans!Rows(spans) = rows

\* The spans the code keeps read the rows they stand for, whatever is spliced in, cut out, taken
\* or looked for: no row is lost, read twice or shifted where a span is split or two spans are
\* joined, and the list stays the one the rows have (spans.rs:93-95).
SpansReadTheRows ==
    LET order == queue.order
        spans == SpansOf(order)
        even  == {r \in 0 .. Len(order) - 1 : r % 2 = 0}
    IN  /\ ReadAs(spans, order)
        /\ \A at \in 0 .. Len(order) :
              ReadAs(Spans!Splice(spans, at, SpansOf(queue.manual)), Splice(order, at, queue.manual))
        /\ \A from \in {0, queue.cursor} : \A to \in from .. Len(order) :
              ReadAs(Spans!Cut(spans, from, to), SubSeq(order, 1, from) \o From(order, to + 1))
        /\ ReadAs(Spans!WithoutRows(spans, even), Picked(order, {r \in DOMAIN order : r % 2 = 0}))
        /\ \A row \in Range(order) : Spans!Find(spans, row.view, row.pos) = Find(order, row) - 1
=============================================================================
