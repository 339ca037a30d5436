------------------------------ MODULE SpanLists ------------------------------
(***************************************************************************)
(* Span lists (crates/core/src/queue/spans.rs): the rows of a queue as     *)
(* spans of consecutive positions of a view, so that a list of 500,000     *)
(* tracks is one span.  No span is empty and no two neighbours could be    *)
(* one.  The running lengths, which only make the search for a row fast,   *)
(* are left out.  Rows and positions count from 0, as in the code.         *)
(***************************************************************************)
EXTENDS Integers, SequencesExt

SpanOf(view, start, len) == [view |-> view, start |-> start, len |-> len]

\* SpanList::len, and start_of: the row where span i starts.
RowCount(spans) == FoldLeft(LAMBDA n, s : n + s.len, 0, spans)
StartOf(spans, i) == RowCount(SubSeq(spans, 1, i - 1))

Continues(s, t) == s.view = t.view /\ s.start + s.len = t.start

\* Slip: any span of the view continues one.
SlipJoin(list, s) ==
    IF list # <<>> /\ Last(list).view = s.view
    THEN [list EXCEPT ![Len(list)].len = @ + s.len]
    ELSE Append(list, s)
Join(list, s) ==
    IF list # <<>> /\ Continues(Last(list), s)
    THEN [list EXCEPT ![Len(list)].len = @ + s.len]
    ELSE Append(list, s)
NonEmpty(spans) == SelectSeq(spans, LAMBDA s : s.len > 0)
\* SpanList::normalize.
Normal(spans) == FoldLeft(Join, <<>>, NonEmpty(spans))

(***************************************************************************)
(* SpanList::slice: the spans that rows from .. to - 1 read.  split_at     *)
(* cuts the span that holds a row in two, so what it leaves on either side *)
(* is a slice.                                                             *)
(***************************************************************************)
Larger(m, n)  == IF m > n THEN m ELSE n
Smaller(m, n) == IF m < n THEN m ELSE n
Part(spans, i, from, to) ==
    LET first == StartOf(spans, i)
        skip  == Larger(from - first, 0)
    IN  SpanOf(spans[i].view, spans[i].start + skip,
               Smaller(to - first, spans[i].len) - skip)
Slice(spans, from, to) == NonEmpty([i \in DOMAIN spans |-> Part(spans, i, from, to)])
SliceFrom(spans, from) == Slice(spans, from, RowCount(spans))

\* SpanList::splice, and remove (Cut).
Splice(spans, at, new) == Normal(Slice(spans, 0, at) \o new \o SliceFrom(spans, at))
Cut(spans, from, to) == Normal(Slice(spans, 0, from) \o SliceFrom(spans, to))

\* SpanList::get for every row: what each reads.
ReadBy(s) == [k \in 1 .. s.len |-> [view |-> s.view, pos |-> s.start + k - 1]]
Rows(spans) == FlattenSeq([i \in DOMAIN spans |-> ReadBy(spans[i])])
Single(row) == SpanOf(row.view, row.pos, 1)

\* The rows of a list at the indices in a set, in order, a span each.
Picked(spans, rows) ==
    LET all == Rows(spans)
        kept == SelectSeq([r \in 1 .. Len(all) |-> r - 1], LAMBDA r : r \in rows)
    IN  [i \in DOMAIN kept |-> Single(all[kept[i] + 1])]
\* SpanList::remove_rows: what is left once they are removed.
WithoutRows(spans, rows) == Normal(Picked(spans, (0 .. RowCount(spans) - 1) \ rows))

(***************************************************************************)
(* SpanList::find and find_sorted: the first row that reads a position of  *)
(* a view, or NoRow.                                                       *)
(***************************************************************************)
NoRow == -1
Reads(s, view, pos) == s.view = view /\ s.start <= pos /\ pos < s.start + s.len
Find(spans, view, pos) ==
    LET found == {i \in DOMAIN spans : Reads(spans[i], view, pos)} IN
    IF found = {} THEN NoRow
    ELSE LET i == CHOOSE i \in found : \A j \in found : i <= j
         IN  StartOf(spans, i) + pos - spans[i].start

\* What the code keeps of every list (spans.rs:93-95).
IsNormal(spans) ==
    /\ \A i \in DOMAIN spans : spans[i].len > 0
    /\ \A i \in 1 .. Len(spans) - 1 : ~Continues(spans[i], spans[i + 1])
=============================================================================
