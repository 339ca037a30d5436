----------------------------- MODULE QueueItems -----------------------------
(***************************************************************************)
(* What an account's queue promises its listener, edit by edit             *)
(* (crates/core/src/queue/edit.rs:129-139 and the comments of each edit),  *)
(* in items: no spans or views, no permutation, no lists to keep or clean  *)
(* up.  CoreQueue implements it.  The number a shuffle gives a row and the *)
(* plays a full History lets go of are left open.                          *)
(***************************************************************************)
EXTENDS Integers, SequencesExt, Functions

CONSTANTS NoItem, KeptPlays  \* how many of the newest plays History keeps at least

VARIABLES
    manual,    \* the Manual Queue
    context,   \* the context, and how much of it is passed
    cursor,
    current,   \* the item playing, or NoItem
    plays,     \* History, oldest first: a number and an item each
    nextPlay,
    repeat,
    shuffled,  \* "off", "on", or "due": the lap that starts next is shuffled
    natural,   \* the rows that were ahead when shuffle was turned on
    taken      \* those that an edit took out of the shuffle since
vars == <<manual, context, cursor, current, plays, nextPlay, repeat, shuffled, natural, taken>>
settings == <<repeat, shuffled, natural, taken>>
history  == <<plays, nextPlay>>

Passed == SubSeq(context, 1, cursor)
Ahead  == SubSeq(context, cursor + 1, Len(context))
Coming == manual \o Ahead
Playing == IF current = NoItem THEN <<>> ELSE <<current>>
Known == ToSet(manual) \cup ToSet(context) \cup ToSet(natural) \cup {current}
             \cup {plays[n].item : n \in DOMAIN plays}

Without(s, S) == SelectSeq(s, LAMBDA x : x \notin S)
Within(s, S)  == SelectSeq(s, LAMBDA x : x \in S)
Insert(s, n, new) == SubSeq(s, 1, n) \o new \o SubSeq(s, n + 1, Len(s))
Reordered(s, t) == Len(s) = Len(t) /\ ToSet(s) = ToSet(t)

\* History takes the plays of these items, and may let go of the oldest it has.
Keeps(all) ==
    \E n \in 0 .. Len(all) :
        /\ plays' = SubSeq(all, n + 1, Len(all))
        /\ n > 0 => Len(plays') >= KeptPlays
Played(items) ==
    /\ nextPlay' = nextPlay + Len(items)
    /\ Keeps(plays \o [n \in DOMAIN items |-> [no |-> nextPlay + n - 1, item |-> items[n]]])

Ordered(passed, ahead) == context' = passed \o ahead /\ cursor' = Len(passed)
Takes(items) == taken' = taken \cup (items \cap ToSet(natural))

-----------------------------------------------------------------------------
Begun(list, at) ==
    /\ manual = <<>> /\ context = list /\ cursor = at + 1 /\ current = list[at + 1]
    /\ plays = <<>> /\ nextPlay = 0 /\ shuffled = "off" /\ natural = <<>> /\ taken = {}
Init == cursor \in DOMAIN context /\ Begun(context, cursor - 1)

\* A start replaces the queue and keeps how it repeats.
Start == nextPlay' = 0 /\ plays' = <<>> /\ manual' = <<>>
         /\ cursor' \in DOMAIN context' /\ Begun(context, cursor - 1)' /\ repeat' = repeat

\* New rows go together to one place of Up Next.
Add ==
    /\ Len(Coming') > Len(Coming)
    /\ UNCHANGED <<current, history, settings>>
    /\ \/ /\ UNCHANGED <<context, cursor>> /\ manual' # manual
          /\ \E n \in 0 .. Len(manual) :
                LET new == SubSeq(manual', n + 1, n + Len(manual') - Len(manual))
                IN  manual' = Insert(manual, n, new) /\ ToSet(new) \cap Known = {}
       \/ /\ UNCHANGED <<manual, cursor>> /\ context' # context
          /\ \E n \in cursor .. Len(context) :
                LET new == SubSeq(context', n + 1, n + Len(context') - Len(context))
                IN  context' = Insert(context, n, new) /\ ToSet(new) \cap Known = {}

\* What is removed leaves Up Next, and with it the passed place it had in the context.
RemoveRows ==
    /\ Len(Coming') < Len(Coming)
    /\ UNCHANGED <<current, history, repeat, shuffled, natural>>
    /\ LET gone == ToSet(Coming) \ ToSet(Coming') IN
       /\ Takes(gone) /\ manual' = Without(manual, gone)
       /\ Ordered(Without(Passed, gone \cap ToSet(manual)), Without(Ahead, gone))

\* What is moved keeps its order; moved within the Manual Queue it keeps its passed place.
Move ==
    /\ Len(Coming') = Len(Coming)
    /\ UNCHANGED <<current, history, repeat, shuffled, natural>>
    /\ \E first \in {manual}, ahead \in {Ahead}, passed \in {Passed}, to \in {manual'} :
         /\ ToSet(Coming') = ToSet(first \o ahead)
         /\ \E moved \in SUBSET ToSet(first \o ahead) :
              \E rows \in {Within(first \o ahead, moved)},
                 rest \in {Without(first, moved)}, left \in {Without(ahead, moved)} :
                \/ /\ Len(to) = Len(rest) + Len(rows)
                   /\ \E n \in 0 .. Len(rest) : to = Insert(rest, n, rows)
                   /\ Ordered(passed, left) /\ Takes(moved \cap ToSet(ahead))
                \/ /\ to = rest /\ Takes(moved \cap ToSet(first))
                   /\ \E n \in 0 .. Len(left) :
                        Ordered(Without(passed, moved \cap ToSet(first)), Insert(left, n, rows))

\* Everything ahead of the item becomes plays, like the item that was playing.
Jump ==
    /\ UNCHANGED settings
    /\ \E n \in DOMAIN Coming :
         /\ current' = Coming[n]
         /\ manual' = SubSeq(manual, n + 1, Len(manual))
         /\ UNCHANGED context
         /\ cursor' = cursor + (IF n > Len(manual) THEN n - Len(manual) ELSE 0)
         /\ Played(Playing \o SubSeq(Coming, 1, n - 1))

Step ==
    /\ Played(Playing) /\ UNCHANGED repeat
    /\ \/ /\ manual # <<>>
          /\ current' = Head(manual) /\ manual' = Tail(manual)
          /\ UNCHANGED <<context, cursor, shuffled, natural, taken>>
       \/ /\ manual = <<>> /\ Ahead # <<>>
          /\ current' = Head(Ahead) /\ cursor' = cursor + 1
          /\ UNCHANGED <<manual, context, shuffled, natural, taken>>
       \/ /\ Coming = <<>> /\ repeat = "all" /\ context # <<>>
          /\ cursor' = 1 /\ current' = context'[1] /\ UNCHANGED manual
          /\ IF shuffled = "due"
             THEN /\ Reordered(context', context) /\ natural' = context
                  /\ shuffled' = "on" /\ taken' = {}
             ELSE UNCHANGED <<context, shuffled, natural, taken>>
       \/ /\ Coming = <<>> /\ (repeat # "all" \/ context = <<>>)
          /\ current' = NoItem /\ UNCHANGED <<manual, context, cursor, shuffled, natural, taken>>

-----------------------------------------------------------------------------
Forget ==
    /\ UNCHANGED <<manual, context, cursor, current, nextPlay, settings>>
    /\ \E kept \in SUBSET ToSet(plays) : Keeps(SelectSeq(plays, LAMBDA p : p \in kept))

\* A play goes to the front of Up Next as a new item.
Requeue ==
    /\ UNCHANGED <<context, cursor, current, nextPlay, settings>>
    /\ manual' # <<>> /\ Tail(manual') = manual /\ Head(manual') \notin Known
    /\ \E n \in DOMAIN plays : Keeps(RemoveAt(plays, n))

\* Back to play n, which Previous does to the last: it plays, then everything heard after it in
\* the order heard, then the item that was playing, then Up Next as it was.  A play whose item is
\* heard again comes back as a new item, so that an item stays one row.
Back(n) ==
    /\ UNCHANGED <<nextPlay, context, settings>>
    /\ plays' = SubSeq(plays, 1, n - 1)
    /\ cursor' <= cursor /\ (manual # <<>> => cursor' = cursor)
    /\ LET left == Len(plays) - n + 1 IN
       \E before \in {[k \in 1 .. left |-> plays[n + k - 1].item] \o Playing \o Coming},
          after \in {<<current'>> \o Coming'} :
         /\ Len(after) = Len(before) /\ IsInjective(after)
         /\ \A k \in DOMAIN before :
              IF k <= left /\ \E j \in k + 1 .. Len(before) : before[j] = before[k]
              THEN after[k] \notin Known ELSE after[k] = before[k]
GoBack == Len(plays') < Len(plays) /\ \E n \in DOMAIN plays : Back(n)

-----------------------------------------------------------------------------
Shuffle ==
    /\ shuffled = "off" /\ shuffled' = IF Ahead = <<>> THEN "due" ELSE "on"
    /\ natural' = Ahead /\ taken' = {}
    /\ Reordered(Ahead', Ahead) /\ Ordered(Passed, Ahead')
    /\ UNCHANGED <<manual, current, history, repeat>>

(***************************************************************************)
(* The rows that were shuffled go back to their natural order, those up to *)
(* the item playing, or else up to the last one passed, as passed; but a   *)
(* track that waits in the Manual Queue stays passed.  Rows queued since   *)
(* stay passed, in the order passed, or ahead.                             *)
(***************************************************************************)
Place(x) == CHOOSE n \in DOMAIN natural : natural[n] = x
Base == (ToSet(natural) \ taken) \cap ToSet(context)
Turn ==
    LET passed == Within(Passed, Base) IN
    IF current \in ToSet(natural) THEN Place(current)
    ELSE IF passed = <<>> THEN 0 ELSE Place(Last(passed))
InNaturalOrder(s) == \A i, j \in DOMAIN s : i < j => Place(s[i]) < Place(s[j])
Unshuffle ==
    LET base    == Base
        waiting == {x \in base \cap ToSet(manual) : Place(x) > Turn}
        before  == {x \in base : Place(x) <= Turn}
    IN  /\ shuffled # "off" /\ shuffled' = "off" /\ natural' = <<>> /\ taken' = {}
        /\ UNCHANGED <<manual, current, history, repeat>>
        /\ Reordered(context', context)
        /\ ToSet(Passed') = (ToSet(Passed) \ base) \cup before \cup waiting
        /\ InNaturalOrder(Within(Passed', before)) /\ InNaturalOrder(Within(Ahead', base))
        /\ Without(Passed', base) = Without(Passed, base)

Repeat == repeat' # repeat
          /\ UNCHANGED <<manual, context, cursor, current, history, shuffled, natural, taken>>

Next == Start \/ Add \/ RemoveRows \/ Move \/ Jump \/ Step \/ Forget \/ Requeue \/ GoBack
        \/ Shuffle \/ Unshuffle \/ Repeat
Spec == Init /\ [][Next]_vars
=============================================================================
