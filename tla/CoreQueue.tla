----------------------------- MODULE CoreQueue -----------------------------
(***************************************************************************)
(* An account's queue as every device and the server keep it               *)
(* (crates/core/src/queue): rows that read frozen lists and copies, a      *)
(* cursor, a seeded shuffle read row by row, and History as runs of plays. *)
(* Each edit is a function of the queue, as in the code, so that one edit  *)
(* can be compared with another repeated; an edit that is refused leaves   *)
(* the queue as it was.                                                    *)
(*                                                                         *)
(* A list is its rows here; SpanLists shows that the spans the code keeps  *)
(* read them.  What the code computes in ranges to be fast (a sweep that   *)
(* finds many items, the positions a shuffle holds, the newest plays only) *)
(* is given by the rows it stands for.  Track IDs, hashes and recipes,     *)
(* which no edit reads, are left out.  Positions count from 0, as in the   *)
(* code, and rows of a list from 1.                                        *)
(***************************************************************************)
EXTENDS Permutation, Functions, FiniteSets

CONSTANTS
    SourceKey,     \* the keys devices give lists
    CopyKey,       \* the keys devices give copies
    Length,        \* SourceKey -> how many rows its list has, at least one
    Seed,          \* the seeds devices choose
    None,          \* no item, no seed
    HistoryRuns,   \* HISTORY_RUNS
    Starts,        \* the lists a queue may start from
    MaxRows,       \* bound: the rows of the context
    MaxPlays,      \* bound: plays recorded
    MaxAdjusted,   \* bound: edits that add, remove, move or forget
    MaxBoth        \* bound: plays and those edits together

ASSUME QueueAssumption ==
    /\ SourceKey \cap CopyKey = {} /\ Starts \subseteq SourceKey
    /\ Length \in [SourceKey -> Nat \ {0}]
    /\ HistoryRuns \in Nat \ {0} /\ {MaxRows, MaxPlays, MaxAdjusted, MaxBoth} \subseteq Nat

VARIABLES
    queue,    \* QueueState
    adjusted  \* how many edits have adjusted it, which the bound counts
vars == <<queue, adjusted>>

Shuffle == "shuffle"  \* the view of the context's shuffle
Row(view, pos) == [view |-> view, pos |-> pos]
NoItem == Row(None, 0)
\* SpanList::slice: the rows of a list from one on.
From(rows, n) == SubSeq(rows, n, Len(rows))
Picked(rows, S) == LET kept == SelectSeq([n \in DOMAIN rows |-> n], LAMBDA n : n \in S)
                   IN  [k \in DOMAIN kept |-> rows[kept[k]]]
Splice(rows, n, new) == SubSeq(rows, 1, n) \o new \o From(rows, n + 1)
Find(rows, row) == IF row \in Range(rows) THEN CHOOSE n \in DOMAIN rows : rows[n] = row ELSE 0

\* The permutation of m rows, each way, worked out once.
Permutes   == [s \in Seed, m \in 0 .. MaxRows |-> [p \in 0 .. m - 1 |-> Permute(s, m, p)]]
Unpermutes == [s \in Seed, m \in 0 .. MaxRows |-> [p \in 0 .. m - 1 |-> Unpermute(s, m, p)]]

-----------------------------------------------------------------------------
(***************************************************************************)
(* Reading (read.rs).  An item is a row of a list or a copy; item_of: a    *)
(* shuffle's row plays the row of the base that the permutation gives it.  *)
(***************************************************************************)
Shuffled(q) == q.seed # None
BaseRow(q, pos) == Permutes[q.seed, Len(q.base)][pos] + 1
Items(q, rows) ==
    [n \in DOMAIN rows |->
        IF rows[n].view = Shuffle THEN q.base[BaseRow(q, rows[n].pos)] ELSE rows[n]]
Playing(q) == IF q.current = NoItem THEN <<>> ELSE <<q.current>>
UpNext(q)  == q.manual \o Items(q, From(q.order, q.cursor + 1))

\* order_row_of: the context's row that plays an item, the passed ones included.
ShuffleRow(q, b) ==
    IF b = 0 THEN 0
    ELSE Find(q.order, Row(Shuffle, Unpermutes[q.seed, Len(q.base)][b - 1]))
OrderRow(q, item) ==
    LET n == Find(q.order, item) IN
    IF n # 0 \/ ~Shuffled(q) THEN n ELSE ShuffleRow(q, Find(q.base, item))

\* find_item: where an item is in Up Next, or 0.
InUpNext(q, row) == IF row > q.cursor THEN Len(q.manual) + row - q.cursor ELSE 0
FindItem(q, item) ==
    IF item \in Range(q.manual) THEN Find(q.manual, item) ELSE InUpNext(q, OrderRow(q, item))

HasKey(q, key) == key \in q.sources \cup DOMAIN q.copies
\* source_range: the source's row that a row of a list or a copy reads.
SourceRow(q, item) ==
    IF item.view \in DOMAIN q.copies THEN q.copies[item.view][item.pos + 1] ELSE item

-----------------------------------------------------------------------------
(***************************************************************************)
(* clean_up: what nothing refers to goes.                                  *)
(***************************************************************************)
Views(rows) == {rows[n].view : n \in DOMAIN rows}
\* Slip: History is forgotten.
SlipReferred(q) == {q.current.view} \cup Views(q.manual) \cup Views(q.order) \cup Views(q.base)
Referred(q) ==
    {q.current.view} \cup Views(q.manual) \cup Views(q.order) \cup Views(q.base)
        \cup Views(q.history)

CleanUp(q) ==
    LET used   == Referred(q)
        copied == DOMAIN q.copies \cap used
    IN  [q EXCEPT !.copies = [k \in copied |-> q.copies[k]],
                  !.sources = @ \cap (used \cup UNION {Views(q.copies[k]) : k \in copied})]

(***************************************************************************)
(* History (history.rs): runs of consecutive plays of consecutive          *)
(* positions of a view.  record_plays, then trim_history; what the rows of *)
(* a shuffle play is recorded as the items.                                *)
(***************************************************************************)
Run(no, item) == [first |-> no, view |-> item.view, start |-> item.pos, len |-> 1]
EndOf(run) == run.first + run.len
PlaysOf(run) == [n \in 1 .. run.len |->
                    [no |-> run.first + n - 1, item |-> Row(run.view, run.start + n - 1)]]
Plays(q) == FlattenSeq([i \in DOMAIN q.history |-> PlaysOf(q.history[i])])

Continued(run, no, item) ==
    EndOf(run) = no /\ run.view = item.view /\ run.start + run.len = item.pos
Record(h, no, item) ==
    IF h # <<>> /\ Continued(Last(h), no, item)
    THEN [h EXCEPT ![Len(h)].len = @ + 1]
    ELSE Append(h, Run(no, item))
NonEmpty(runs) == SelectSeq(runs, LAMBDA r : r.len > 0)
Trim(h) == IF Len(h) > HistoryRuns THEN From(h, Len(h) - HistoryRuns + 1) ELSE h
Recorded(q, items, h) ==
    [q EXCEPT !.history = Trim(h), !.nextPlay = @ + Len(items)]
RecordPlays(q, items) ==
    LET h == FoldLeftDomain(LAMBDA acc, n : Record(acc, q.nextPlay + n - 1, items[n]),
                            q.history, items)
    IN  IF Len(h) > HistoryRuns THEN CleanUp(Recorded(q, items, h)) ELSE Recorded(q, items, h)

\* match_play and find_play: the run that holds the play, which must have played the item.
RunOf(q, play) ==
    LET holds == {i \in DOMAIN q.history : play \in Range(PlaysOf(q.history[i]))}
    IN  IF holds = {} THEN 0 ELSE CHOOSE i \in holds : TRUE

\* take_play: the play leaves its run, which it splits.
Cut(run, no) ==
    NonEmpty(<<[run EXCEPT !.len = no - run.first],
               [run EXCEPT !.first = no + 1, !.start = @ + no + 1 - run.first,
                           !.len = EndOf(run) - no - 1]>>)
TakePlay(q, i, no) ==
    [q EXCEPT !.history = Trim(SubSeq(@, 1, i - 1) \o Cut(@[i], no) \o From(@, i + 1))]

-----------------------------------------------------------------------------
(***************************************************************************)
(* Finding, taking and putting rows (edit.rs).  A row of Up Next is in the *)
(* Manual Queue or, past the cursor, in the context.  A track that         *)
(* Previous put in the Manual Queue holds a passed place in the context    *)
(* too, which it loses with its row unless it stays in the Manual Queue.   *)
(***************************************************************************)
Gone == [in |-> "gone", at |-> 0]
SpotOf(q, i) ==
    IF i <= Len(q.manual) THEN [in |-> "manual", at |-> i - 1]
    ELSE [in |-> "order", at |-> q.cursor + i - Len(q.manual) - 1]
Spot(q, anchor, moving) ==
    CASE anchor.at = "manualStart" -> [in |-> "manual", at |-> 0]
      [] anchor.at = "manualEnd"   -> [in |-> "manual", at |-> Len(q.manual)]
      [] anchor.at = "contextEnd"  -> [in |-> "order", at |-> Len(q.order)]
      [] anchor.at = "before" ->
           IF anchor.item \in Range(UpNext(q)) \ moving
           THEN SpotOf(q, FindItem(q, anchor.item)) ELSE Gone

Put(q, spot, rows) ==
    IF spot.in = "manual" THEN [q EXCEPT !.manual = Splice(@, spot.at, rows)]
    ELSE [q EXCEPT !.order = Splice(@, spot.at, rows)]

\* passed_rows: the passed places of the Manual Queue's rows.
PassedRows(q, items) == {OrderRow(q, x) : x \in items \cap Range(q.manual)} \cap 1 .. q.cursor

(***************************************************************************)
(* take: the rows of these items of Up Next, as they are read, and the     *)
(* queue without them.                                                     *)
(***************************************************************************)
AheadRows(q, items) == {OrderRow(q, x) : x \in items} \cap (q.cursor + 1) .. Len(q.order)
TakenRows(q, items) ==
    SelectSeq(q.manual, LAMBDA x : x \in items) \o Picked(q.order, AheadRows(q, items))
Without(q, items, passed) ==
    [q EXCEPT !.manual = SelectSeq(@, LAMBDA x : x \notin items),
              !.order = Picked(@, DOMAIN @ \ (passed \cup AheadRows(q, items))),
              !.cursor = @ - Cardinality(passed)]
TakeOut(q, items, keepPassed) ==
    Without(q, items, IF keepPassed THEN {} ELSE PassedRows(q, items))

-----------------------------------------------------------------------------
(***************************************************************************)
(* The edits of Up Next (edit.rs).                                         *)
(***************************************************************************)
RowsOf(key) == [n \in 1 .. Length[key] |-> Row(key, n - 1)]
Started(key, at, repeat) ==
    [sources |-> {key}, copies |-> [k \in {} |-> <<>>],
     manual |-> <<>>, order |-> RowsOf(key), cursor |-> at + 1,
     current |-> Row(key, at), history |-> <<>>, nextPlay |-> 0,
     seed |-> None, base |-> <<>>, repeat |-> repeat, adjusted |-> FALSE]

Start(q, key, at) ==
    IF HasKey(q, key) \/ at >= Length[key] THEN q ELSE Started(key, at, q.repeat)

Add(q, key, anchor) ==
    LET spot == Spot(q, anchor, {}) IN
    IF spot = Gone \/ HasKey(q, key) THEN q
    ELSE Put([q EXCEPT !.sources = @ \cup {key}, !.adjusted = TRUE], spot, RowsOf(key))

\* resolve: the named items that are in Up Next.
Resolve(q, items) == items \cap Range(UpNext(q))

RemoveItems(q, items) ==
    IF Resolve(q, items) = {} THEN q
    ELSE CleanUp([TakeOut(q, Resolve(q, items), FALSE) EXCEPT !.adjusted = TRUE])

\* The anchor is found again once the rows are taken.  The Manual Queue records items.
Moved(q, left, anchor, rows, toManual) ==
    [Put(left, Spot(left, anchor, {}), IF toManual THEN Items(q, rows) ELSE rows)
        EXCEPT !.adjusted = TRUE]
MoveItems(q, items, anchor) ==
    LET moving   == Resolve(q, items)
        target   == Spot(q, anchor, moving)
        toManual == target.in = "manual"
    IN  IF target = Gone \/ moving = {} THEN q
        ELSE Moved(q, TakeOut(q, moving, toManual), anchor, TakenRows(q, moving), toManual)

\* The rows ahead of the item leave Up Next and, like the item playing, become plays.
JumpOver(q, i, upNext) ==
    RecordPlays([q EXCEPT !.manual = From(@, i + 1), !.current = upNext[i],
                          !.cursor = IF i > Len(q.manual) THEN @ + i - Len(q.manual) ELSE @],
                Playing(q) \o SubSeq(upNext, 1, i - 1))
Jump(q, item) ==
    IF FindItem(q, item) = 0 THEN q ELSE JumpOver(q, FindItem(q, item), UpNext(q))

\* A shuffle turned on with nothing left to play shuffles the lap that starts.
ShuffleRows(m) == [n \in 1 .. m |-> Row(Shuffle, n - 1)]
ShuffleNextLap(q) ==
    IF Shuffled(q) /\ q.base = <<>>
    THEN [q EXCEPT !.base = q.order, !.order = ShuffleRows(Len(q.order))]
    ELSE q
NewLap(q) ==
    IF UpNext(q) = <<>> /\ q.repeat = "all" THEN ShuffleNextLap([q EXCEPT !.cursor = 0]) ELSE q
Advance(q) ==
    CASE q.manual # <<>> -> [q EXCEPT !.manual = Tail(@), !.current = Head(q.manual)]
      [] q.manual = <<>> /\ q.cursor < Len(q.order) ->
           [q EXCEPT !.cursor = @ + 1, !.current = Items(q, q.order)[q.cursor + 1]]
      [] OTHER -> [q EXCEPT !.current = NoItem]
PlayNext(q) == RecordPlays(Advance(NewLap(q)), Playing(q))

SetRepeat(q, mode) == [q EXCEPT !.repeat = mode]

-----------------------------------------------------------------------------
(***************************************************************************)
(* Plays taken out of History and queued again (history.rs).  A play named *)
(* twice has gone by the second time.                                      *)
(***************************************************************************)
TakeEach(q, plays) ==
    FoldSet(LAMBDA p, acc : IF RunOf(acc, p) = 0 THEN acc ELSE TakePlay(acc, RunOf(acc, p), p.no),
            q, plays)
RemovePlays(q, plays) ==
    IF \A p \in plays : RunOf(q, p) = 0 THEN q
    ELSE CleanUp([TakeEach(q, plays) EXCEPT !.adjusted = TRUE])

WithCopy(q, key, rows) == [q EXCEPT !.copies = @ @@ (key :> rows)]

Requeue(q, play, key) ==
    IF RunOf(q, play) = 0 \/ HasKey(q, key) THEN q
    ELSE CleanUp([WithCopy(TakePlay(q, RunOf(q, play), play.no), key, <<SourceRow(q, play.item)>>)
                     EXCEPT !.manual = <<Row(key, 0)>> \o @, !.adjusted = TRUE])

(***************************************************************************)
(* previous.rs: the last play becomes current and the item that played is  *)
(* at the front of Up Next: in the context, if it is what was just passed  *)
(* and the Manual Queue is empty.                                          *)
(***************************************************************************)
LastPlayed(q) == LET run == Last(q.history) IN Row(run.view, run.start + run.len - 1)
PopPlay(h) == NonEmpty([h EXCEPT ![Len(h)].len = @ - 1])
JustPassed(q) == q.cursor > 0 /\ Items(q, q.order)[q.cursor] = q.current

\* Slip: the cursor moves back whatever waits in the Manual Queue.
SlipReturn(q) ==
    IF q.current # NoItem /\ JustPassed(q) THEN [q EXCEPT !.cursor = @ - 1]
    ELSE [q EXCEPT !.manual = Playing(q) \o @]
Return(q) ==
    IF q.current # NoItem /\ q.manual = <<>> /\ JustPassed(q) THEN [q EXCEPT !.cursor = @ - 1]
    ELSE [q EXCEPT !.manual = Playing(q) \o @]

PlayAgain(q, x, copied, key) ==
    IF copied THEN [WithCopy(q, key, <<SourceRow(q, x)>>) EXCEPT !.current = Row(key, 0)]
    ELSE [q EXCEPT !.current = x]
StepBackTo(q, x, copied, key) ==
    IF copied /\ HasKey(q, key) THEN q
    ELSE PlayAgain([Return(q) EXCEPT !.history = PopPlay(@)], x, copied, key)
Previous(q, key) ==
    IF q.history = <<>> THEN q
    ELSE LET x == LastPlayed(q)
         IN  StepBackTo(q, x, q.current = x \/ FindItem(q, x) # 0, key)

-----------------------------------------------------------------------------
(***************************************************************************)
(* rewind.rs: back to a play in one edit.  heard is the target and the     *)
(* plays after it, oldest first.                                           *)
(***************************************************************************)
HeardSince(q, no) == LET plays == SelectSeq(Plays(q), LAMBDA p : p.no >= no)
                     IN  [n \in DOMAIN plays |-> plays[n].item]
Before(h, i, no) == NonEmpty(SubSeq(h, 1, i - 1) \o <<[h[i] EXCEPT !.len = no - h[i].first]>>)

(***************************************************************************)
(* Phase 1: how many rows the cursor moves back over, the item playing and *)
(* then the newest plays, as far as the context read backwards matches;    *)
(* only with an empty Manual Queue.                                        *)
(***************************************************************************)
Matching(items, rows) ==
    CHOOSE n \in 0 .. Len(items) :
        /\ n <= Len(rows) /\ SubSeq(rows, 1, n) = SubSeq(items, 1, n)
        /\ n < Len(items) /\ n < Len(rows) => rows[n + 1] # items[n + 1]
MatchedBack(q, heard) ==
    IF q.manual # <<>> THEN 0
    ELSE Matching(Playing(q) \o Reverse(Tail(heard)),
                  Reverse(SubSeq(Items(q, q.order), 1, q.cursor)))

(***************************************************************************)
(* split_held: a play comes back as a copy if Up Next holds its item by    *)
(* then, or a later play does.                                             *)
(***************************************************************************)
\* Slip: only what Up Next holds counts.
SlipCopiedPlays(held, heard) == {n \in DOMAIN heard : heard[n] \in held}
CopiedPlays(held, heard) ==
    {n \in DOMAIN heard : heard[n] \in held \cup {heard[k] : k \in n + 1 .. Len(heard)}}

\* Phase 2: the rest go to the front of the Manual Queue, the first of them to play.
Requeued(q, key, heard, old, copied) ==
    LET back == [n \in DOMAIN heard |->
                    IF n \in copied THEN Row(key, Cardinality({k \in copied : k < n}))
                    ELSE heard[n]]
        went == [q EXCEPT !.manual = Tail(back) \o old \o @, !.current = Head(back)]
    IN  IF copied = {} THEN went
        ELSE WithCopy(went, key, [n \in 1 .. Cardinality(copied) |->
                                     SourceRow(q, Picked(heard, copied)[n])])
\* shuffle_held: a row read through the shuffle is held while its place is still ahead.
HeldBy(q, old) == Range(old \o UpNext(q))
GoneBack(q, before, key, heard, old) ==
    LET copied == CopiedPlays(HeldBy(q, old), heard) IN
    IF copied # {} /\ HasKey(q, key) THEN before ELSE Requeued(q, key, heard, old, copied)
MovedBack(q, key, heard, matched, left) ==
    GoneBack([q EXCEPT !.history = left, !.cursor = @ - matched], q, key,
             IF matched = 0 THEN heard
             ELSE SubSeq(heard, 1, Len(heard) + Len(Playing(q)) - matched),
             IF matched = 0 THEN Playing(q) ELSE <<>>)
RewindTo(q, i, no, key, heard) ==
    MovedBack(q, key, heard, MatchedBack(q, heard), Before(q.history, i, no))
Rewind(q, play, key) ==
    IF RunOf(q, play) = 0 THEN q
    ELSE RewindTo(q, RunOf(q, play), play.no, key, HeardSince(q, play.no))

-----------------------------------------------------------------------------
(***************************************************************************)
(* Shuffle and unshuffle (shuffle.rs).                                     *)
(***************************************************************************)
ShuffleOn(q, seed) ==
    IF Shuffled(q) THEN q
    ELSE [q EXCEPT !.seed = seed, !.base = From(q.order, q.cursor + 1),
                   !.order = SubSeq(@, 1, q.cursor) \o ShuffleRows(Len(@) - q.cursor)]

\* The rows of the context that read the shuffle, and the base's row each of them plays.
BaseRows(q) == [n \in {m \in DOMAIN q.order : q.order[m].view = Shuffle} |->
                   BaseRow(q, q.order[n].pos)]

\* The pivot, a row of the base: where the item playing is, or the last row passed.
PivotRow(q, at) ==
    IF q.current \in Range(q.base) THEN Find(q.base, q.current)
    ELSE LET passed == {n \in DOMAIN at : n <= q.cursor}
         IN  IF passed = {} THEN 0 ELSE at[Max(passed)]

(***************************************************************************)
(* Tracks of the Manual Queue whose passed place natural order would put   *)
(* after the pivot: they are left out of Up Next and stay passed.          *)
(***************************************************************************)
\* Slip: they are put back in natural order.
SlipWaiting(q, at, pivot) == {}
Waiting(q, at, pivot) == {n \in DOMAIN at : at[n] > pivot /\ q.base[at[n]] \in Range(q.manual)}

\* What is put before row b of the base: the rows queued since that it followed, or that were
\* before the whole shuffle; the end, Len(q.base) + 1, for those that no row of it followed.
AnchorOf(q, at, pivot, n) ==
    LET after == {m \in DOMAIN at : m > n} IN
    IF {m \in DOMAIN at : m < n} = {} THEN pivot + 1
    ELSE IF after = {} THEN Len(q.base) + 2
    ELSE Max({at[Min(after)], pivot + 1})

Natural(q, at, pivot, waiting) ==
    LET items    == Items(q, q.order)
        queued   == DOMAIN q.order \ DOMAIN at
        behind   == {n \in queued : n <= q.cursor}
        leading  == {n \in behind : \A m \in DOMAIN at : n < m}
        live     == {at[n] : n \in DOMAIN at \ waiting}
        Base(b)  == IF b \in live THEN <<q.base[b]>> ELSE <<>>
        Added(b) == Picked(items, {n \in queued \ behind : AnchorOf(q, at, pivot, n) = b})
        passed   == Picked(items, leading)
                        \o Picked(q.base, live \cap 1 .. pivot)
                        \o Picked(items, (behind \ leading) \cup waiting)
        ahead    == FlattenSeq([n \in 1 .. Len(q.base) + 2 - pivot |->
                                   Added(pivot + n) \o Base(pivot + n)])
    IN  CleanUp([q EXCEPT !.order = passed \o ahead, !.cursor = Len(passed),
                          !.seed = None, !.base = <<>>])
Unshuffle(q, at, pivot) == Natural(q, at, pivot, Waiting(q, at, pivot))
ShuffleOff(q) ==
    IF Shuffled(q) THEN Unshuffle(q, BaseRows(q), PivotRow(q, BaseRows(q))) ELSE q

-----------------------------------------------------------------------------
(***************************************************************************)
(* One action for each edit.  Devices name items of Up Next and plays of   *)
(* History; what names anything else is ignored or refused.  A queue is at *)
(* first the one a start made.                                             *)
(***************************************************************************)
Sets(S)    == {{x, y} : x \in S, y \in S}
Anchors(q) == {[at |-> "manualStart"], [at |-> "manualEnd"], [at |-> "contextEnd"]}
                  \cup {[at |-> "before", item |-> x] : x \in Range(UpNext(q))}
Becomes(q) == queue' = q /\ Len(q.order) <= MaxRows
Within(edits, plays) == edits <= MaxAdjusted /\ plays <= MaxPlays /\ edits + plays <= MaxBoth
Plain(q)   == Becomes(q) /\ Within(adjusted, queue'.nextPlay) /\ UNCHANGED adjusted
Adjusts(q) == /\ Within(adjusted + 1, queue.nextPlay)
              /\ Becomes(q) /\ queue' # queue /\ adjusted' = adjusted + 1

Init == \E key \in Starts : \E at \in 0 .. Length[key] - 1 :
            queue = Started(key, at, "off") /\ adjusted = 0

StartQueue == \E key \in Starts : \E at \in 0 .. Length[key] - 1 : Plain(Start(queue, key, at))
AddSource == \E key \in SourceKey : \E anchor \in Anchors(queue) : Adjusts(Add(queue, key, anchor))
RemoveFromUpNext == \E items \in Sets(Range(UpNext(queue))) : Adjusts(RemoveItems(queue, items))
MoveInUpNext == \E items \in Sets(Range(UpNext(queue))) : \E anchor \in Anchors(queue) :
    Adjusts(MoveItems(queue, items, anchor))
JumpTo == \E item \in Range(UpNext(queue)) : Plain(Jump(queue, item))
Step == Plain(PlayNext(queue))
RemoveFromHistory == \E plays \in Sets(Range(Plays(queue))) : Adjusts(RemovePlays(queue, plays))
QueueAgain == \E play \in Range(Plays(queue)) : \E key \in CopyKey : Adjusts(Requeue(queue, play, key))
StepBack == \E key \in CopyKey : Plain(Previous(queue, key))
GoBack == \E play \in Range(Plays(queue)) : \E key \in CopyKey : Plain(Rewind(queue, play, key))
TurnShuffleOn == \E seed \in Seed : Plain(ShuffleOn(queue, seed))
TurnShuffleOff == Plain(ShuffleOff(queue))
ChangeRepeat == \E mode \in {"off", "all"} : Plain(SetRepeat(queue, mode))

Next == StartQueue \/ AddSource \/ RemoveFromUpNext \/ MoveInUpNext \/ JumpTo \/ Step
        \/ RemoveFromHistory \/ QueueAgain \/ StepBack \/ GoBack
        \/ TurnShuffleOn \/ TurnShuffleOff \/ ChangeRepeat
Spec == Init /\ [][Next]_vars

-----------------------------------------------------------------------------
(***************************************************************************)
(* What every edit must keep (tests.rs, assert_invariants).                *)
(***************************************************************************)
LengthOf(q, key) == IF key \in q.sources THEN Length[key] ELSE Len(q.copies[key])
Readable(q, row) ==
    IF row.view = Shuffle THEN row.pos < Len(q.base)
    ELSE HasKey(q, row.view) /\ row.pos < LengthOf(q, row.view)
Listed(q) == Range(q.manual) \cup Range(q.order) \cup Range(q.base) \cup Range(Playing(q))
                 \cup {p.item : p \in Range(Plays(q))}

\* The fields have their types, only the context reads the shuffle, and History holds the newest
\* runs in the order played (state.rs:225-251, history.rs:65-71).
TypeOK ==
    /\ queue.sources \subseteq SourceKey /\ DOMAIN queue.copies \subseteq CopyKey
    /\ \A key \in DOMAIN queue.copies : Views(queue.copies[key]) \subseteq SourceKey
    /\ Shuffle \notin Views(queue.manual \o queue.base \o queue.history \o Playing(queue))
    /\ queue.cursor \in 0 .. Len(queue.order) /\ queue.nextPlay \in Nat
    /\ queue.seed \in Seed \cup {None} /\ (queue.seed = None => queue.base = <<>>)
    /\ queue.repeat \in {"off", "all"} /\ queue.adjusted \in BOOLEAN /\ adjusted \in Nat
    /\ LET h == queue.history IN
       /\ Len(h) <= HistoryRuns
       /\ \A i \in DOMAIN h : h[i].len > 0 /\ EndOf(h[i]) <= queue.nextPlay
       /\ \A i \in 1 .. Len(h) - 1 : EndOf(h[i]) <= h[i + 1].first

\* Whatever the order of edits, every row still reads a track: of a list or copy that clean-up
\* kept, or of the shuffle's base; and what clean-up should have dropped is gone, though only
\* some edits clean up (rewind.rs:78, previous.rs:51, history.rs:44).
KeepsWhatIsRead ==
    /\ \A row \in Listed(queue) : Readable(queue, row)
    /\ \A key \in DOMAIN queue.copies : \A row \in Range(queue.copies[key]) : Readable(queue, row)
    /\ CleanUp(queue) = queue

\* Shuffle is undone by unshuffling at once, whatever was played, moved or put back before
\* (shuffle.rs:259-270).
UnshuffleUndoes ==
    ~Shuffled(queue) => \A seed \in Seed : ShuffleOff(ShuffleOn(queue, seed)) = queue

-----------------------------------------------------------------------------
Promise == INSTANCE QueueItems WITH
    KeptPlays <- HistoryRuns,
    manual    <- queue.manual,
    context   <- Items(queue, queue.order),
    cursor    <- queue.cursor,
    current   <- queue.current,
    plays     <- Plays(queue),
    nextPlay  <- queue.nextPlay,
    repeat    <- queue.repeat,
    shuffled  <- IF ~Shuffled(queue) THEN "off" ELSE IF queue.base = <<>> THEN "due" ELSE "on",
    natural   <- queue.base,
    taken     <- IF Shuffled(queue)
                 THEN Range(queue.base) \ Range(Picked(queue.base, Range(BaseRows(queue)))) ELSE {}

\* Every edit of the queue is the edit of its items that it promises.
KeepsItsPromise == Promise!Spec
=============================================================================
