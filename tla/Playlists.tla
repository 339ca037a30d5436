----------------------------- MODULE Playlists -----------------------------
(***************************************************************************)
(* One playlist: the server's rows and the handler of editPlaylist         *)
(* (api/playlists/edit.rs, idempotency.rs, items.rs), and a page that      *)
(* shows its edits at once and sends them one at a time                    *)
(* (web/src/lib/playlist.svelte.ts).  Other devices edit it too.           *)
(*                                                                         *)
(* A handler reads and plans off the writer, and writes in one transaction *)
(* that checks again; it runs on when its client gives up.  An item is its *)
(* track, details are left out but for the version an edit of them takes,  *)
(* and only tracks are added, as a page adds them.                         *)
(***************************************************************************)
EXTENDS PlaylistOps

CONSTANTS
    First,      \* the playlist's tracks when the page loads it
    Addable,    \* the tracks the page may add, which the library may purge
    LaterOps,   \* bound: what a user may do of it after the first edit, and Undo
    OtherOps,   \* the lists of ops other devices may send
    KeyGap,     \* how far apart keys start
    PageSize,   \* how many items a page of a list holds
    Tries,      \* how often the page tries to load the list, 3
    MaxEdits,   \* bound: edits made on the page
    MaxOthers,  \* bound: edits sent by other devices
    MaxMishaps   \* bound: requests given up or failed, days passed, tracks purged, the delete

ASSUME PlaylistAssumption ==
    /\ PageSize \in Nat \ {0} /\ KeyGap \in Nat \ {0}
    /\ IsList(First)
    /\ \A op \in LaterOps : IsOp(op)
    /\ \A ops \in OtherOps : AreOps(ops)

VARIABLES
    rows,       \* playlist_items: key -> track
    version,
    deleted,
    library,    \* the addable tracks still in it
    answers,    \* idempotency_keys: the version each edit of the page's made
    requests,   \* handlers, and requests on their way to one
    page,       \* EditablePlaylist
    undo,       \* the last edit's undo
    lists,      \* history: what the edits applied made of the list, by version
    applied,    \* history: the edits applied, in order
    dropped,    \* history: edits the page said were not applied
    swept,      \* history: whether the answers have been swept
    spent       \* edits, others and mishaps so far

server == <<rows, version, deleted, library, answers>>
history == <<lists, applied, swept>>
playlistVars == <<server, requests, page, undo, history, dropped, spent>>

NoEdit == 0
Edit == 1 .. MaxEdits
NoUndo == [ops |-> <<>>, back |-> <<>>, made |-> FALSE]

\* The track of each row, in order.
Listed(rows_) == LET keys == Ascending(DOMAIN rows_) IN [i \in DOMAIN keys |-> rows_[keys[i]]]

Spaced(items) == LET keys == {KeyGap * i : i \in DOMAIN items}
                 IN  [k \in keys |-> items[k \div KeyGap]]

PlaylistInit ==
    /\ rows = Spaced(First) /\ version = 1 /\ deleted = FALSE /\ library = Addable /\ answers = <<>>
    /\ requests = {}
    /\ page = [version |-> 1, items |-> First, shown |-> First, queue |-> <<>>, doing |-> "idle",
               attempt |-> 0, read |-> <<>>, after |-> {}, at |-> 0, tries |-> 0]
    /\ undo = NoUndo
    /\ lists = <<First>> /\ applied = <<>> /\ dropped = {} /\ swept = FALSE
    /\ spent = [edits |-> 0, others |-> 0, mishaps |-> 0]

Spend(what, bound) == spent[what] < bound /\ spent' = [spent EXCEPT ![what] = @ + 1]
Mishap == Spend("mishaps", MaxMishaps)

-----------------------------------------------------------------------------
(***************************************************************************)
(* What an edit writes: the keys of the rows to delete, and the rows to    *)
(* insert.                                                                 *)
(***************************************************************************)
Adds(ops) == UNION {ToSet(ops[i].items) : i \in DOMAIN ops}

\* The keys of the rows in order.
Keys == Ascending(DOMAIN rows)

\* The items with the keys they are stored under, which an item added has none of.
Stored(keys) == [i \in DOMAIN keys |-> [key |-> {keys[i]}, track |-> rows[keys[i]]]]
Unstored(items) == [i \in DOMAIN items |-> [key |-> {}, track |-> items[i]]]

\* The plan that leaves the items of after under one of keys, or renumbers them all.
PlanUnder(after, keys) ==
    LET moved(key) == {i \in DOMAIN after : after[i].key # {key[i]}}
        stay(key)  == UNION {after[i].key : i \in DOMAIN after \ moved(key)}
    IN  IF keys = {}
        THEN [delete |-> DOMAIN rows, insert |-> Spaced([i \in DOMAIN after |-> after[i].track])]
        ELSE LET key == CHOOSE k \in keys : TRUE
             IN  [delete |-> DOMAIN rows \ stay(key),
                  insert |-> [k \in {key[i] : i \in moved(key)} |->
                                after[CHOOSE i \in moved(key) : key[i] = k].track]]

PlanFor(after) ==
    LET stored == [i \in {j \in DOMAIN after : after[j].key # {}} |->
                      CHOOSE k \in after[i].key : TRUE]
    IN  PlanUnder(after, Assign(stored, Len(after), KeyGap))

\* The ops are applied to the items with the keys they are stored under, which says what an
\* edit adds and what it moves.
Plan(ops) ==
    IF ops = <<>> THEN [delete |-> {}, insert |-> <<>>]
    ELSE PlanFor(ApplyOps(Stored(Keys),
                          [i \in DOMAIN ops |-> [ops[i] EXCEPT !.items = Unstored(@)]]))

NoPlan == [delete |-> {}, insert |-> <<>>]

Request(edit, attempt, ops, base) ==
    [edit |-> edit, attempt |-> attempt, ops |-> ops, base |-> base, planned |-> FALSE,
     plan |-> NoPlan]

-----------------------------------------------------------------------------
(***************************************************************************)
(* The page.                                                               *)
(***************************************************************************)
\* The ops a user may make of a list.
UserOps(list) ==
    LET some == (SUBSET DOMAIN list) \ {{}}
        at(n) == {Add(n, <<track>>) : track \in Addable}
                    \cup {Move(positions, n) : positions \in some}
    IN  {Drop(positions) : positions \in some} \cup UNION {at(n) : n \in 0 .. Len(list)}

\* EditablePlaylist.#edit.
Make(ops) ==
    /\ Spend("edits", MaxEdits)
    /\ page' = [page EXCEPT !.shown = ApplyOps(@, ops),
                   !.queue = Append(@, [edit |-> spent'.edits, ops |-> ops])]
    /\ undo' = [ops |-> InvertOps(page.shown, ops), back |-> page.shown, made |-> TRUE]
    /\ UNCHANGED <<server, requests, history, dropped>>

UserEdit ==
    \E op \in IF spent.edits = 0 THEN UserOps(page.shown) ELSE LaterOps :
        InRange(page.shown, op) /\ Make(<<op>>)

UserUndo == undo.made /\ undo.ops # <<>> /\ Make(undo.ops)

\* EditablePlaylist.#send, of the first edit queued, against the version confirmed.
Send ==
    /\ page.doing = "idle" /\ page.queue # <<>>
    /\ page' = [page EXCEPT !.doing = "asking"]
    /\ requests' = requests \cup {Request(Head(page.queue).edit, page.attempt,
                                          Head(page.queue).ops, page.version)}
    /\ UNCHANGED <<server, undo, history, dropped, spent>>

\* The page hears nothing of a request, which may arrive yet, run on, or have been lost.
GiveUp ==
    /\ page.doing = "asking" /\ Mishap
    /\ page' = [page EXCEPT !.doing = "idle", !.attempt = @ + 1]
    /\ \/ UNCHANGED requests
       \/ requests' = {r \in requests : r.attempt # page.attempt \/ r.planned}
    /\ UNCHANGED <<server, undo, history, dropped>>

\* EditablePlaylist.#reset: everything pending is dropped.
Reset(at) ==
    [page EXCEPT !.version = at.version, !.items = at.items, !.shown = at.items, !.queue = <<>>,
        !.doing = "idle", !.read = <<>>, !.after = {}, !.at = 0, !.tries = 0, !.attempt = @ + 1]

Forgets(at) ==
    /\ page' = Reset(at) /\ undo' = NoUndo
    /\ dropped' = dropped \cup {page.queue[i].edit : i \in DOMAIN page.queue}

\* What the page does with the answer to request r, if it still waits for it.
PageHears(r, answer) ==
    IF page.doing # "asking" \/ r.attempt # page.attempt
    THEN UNCHANGED <<page, undo, dropped>>
    ELSE CASE answer.ok ->
                /\ page' = [page EXCEPT !.version = answer.version,
                               !.items = ApplyOps(@, Head(page.queue).ops),
                               !.queue = Tail(@), !.doing = "idle", !.attempt = @ + 1]
                /\ UNCHANGED <<undo, dropped>>
           [] ~answer.ok /\ answer.conflict ->
                page' = [page EXCEPT !.doing = "reloading"] /\ UNCHANGED <<undo, dropped>>
           [] ~answer.ok /\ ~answer.conflict -> Forgets(page)

-----------------------------------------------------------------------------
(***************************************************************************)
(* The handler of editPlaylist.                                            *)
(***************************************************************************)
Ok(v) == [ok |-> TRUE, version |-> v, conflict |-> FALSE]
Conflict == [ok |-> FALSE, version |-> 0, conflict |-> TRUE]
Refused == [ok |-> FALSE, version |-> 0, conflict |-> FALSE]

Ends(r, answer) == requests' = requests \ {r} /\ PageHears(r, answer)

\* Answer::find.
Known(r) == r.edit \in DOMAIN answers

\* fresh: the tracks it adds are there.
Fresh(r) == Adds(r.ops) \cap Addable \subseteq library

\* plan: 422 unless they are, and the ops apply to the items there are.
MayPlan(r) == Fresh(r) /\ AllInRange(Listed(rows), r.ops)

\* at: 404 for a playlist that is gone, 409 for another version.
At(r) == IF deleted THEN {Refused} ELSE IF version # r.base THEN {Conflict} ELSE {}

\* Slip: the version is checked before a stored answer is looked for.
SlipAnswersTo(r) == IF At(r) # {} THEN At(r) ELSE IF Known(r) THEN {Ok(answers[r.edit])} ELSE {}

\* What a retry answered already, or a playlist gone or changed, is told.
AnswersTo(r) == IF Known(r) THEN {Ok(answers[r.edit])} ELSE At(r)

\* The read, which plans the edit unless something is in its way.
Read(r) ==
    /\ ~r.planned
    /\ \/ \E answer \in AnswersTo(r) \cup {no \in {Refused} : AnswersTo(r) = {} /\ ~MayPlan(r)} :
            Ends(r, answer)
       \/ /\ AnswersTo(r) = {} /\ MayPlan(r)
          /\ requests' = (requests \ {r})
                            \cup {[r EXCEPT !.planned = TRUE, !.plan = Plan(r.ops)]}
          /\ UNCHANGED <<page, undo, dropped>>
    /\ UNCHANGED <<server, history, spent>>

\* Slip: a plan is written whatever the version is by now.
SlipMayWrite(r) == ~deleted /\ Fresh(r)

MayWrite(r) == ~deleted /\ Fresh(r) /\ version = r.base

\* write: deletes before inserts, and the version.
ApplyEdit(plan, ops, edit) ==
    /\ rows' = [k \in DOMAIN plan.insert \cup (DOMAIN rows \ plan.delete) |->
                    IF k \in DOMAIN plan.insert THEN plan.insert[k] ELSE rows[k]]
    /\ version' = version + 1
    /\ lists' = Append(lists, ApplyOps(lists[version], ops))
    /\ applied' = Append(applied, edit)

\* The write, in one transaction with the answer stored for a retry.
Write(r) ==
    /\ r.planned /\ ~Known(r) /\ MayWrite(r)
    /\ ApplyEdit(r.plan, r.ops, r.edit)
    /\ answers' = [e \in DOMAIN answers \cup {r.edit} |->
                      IF e = r.edit THEN version + 1 ELSE answers[e]]
    /\ Ends(r, Ok(version + 1))
    /\ UNCHANGED <<deleted, library, swept, spent>>

\* The write finds the edit made, or cannot be made: a purged track is planned for again.
WriteEnds(r) ==
    /\ r.planned
    /\ \/ \E answer \in AnswersTo(r) : (Known(r) \/ Fresh(r)) /\ Ends(r, answer)
       \/ /\ ~Known(r) /\ ~Fresh(r)
          /\ requests' = (requests \ {r}) \cup {[r EXCEPT !.planned = FALSE, !.plan = NoPlan]}
          /\ UNCHANGED <<page, undo, dropped>>
    /\ UNCHANGED <<server, history, spent>>

\* A read or write that fails is answered 500, which the page tries again.
HandlerFails(r) ==
    /\ Mishap /\ requests' = requests \ {r}
    /\ page' = IF page.doing = "asking" /\ r.attempt = page.attempt
               THEN [page EXCEPT !.doing = "idle", !.attempt = @ + 1] ELSE page
    /\ UNCHANGED <<server, undo, history, dropped>>

-----------------------------------------------------------------------------
(***************************************************************************)
(* loadPlaylist, after a conflict: the items a page at a time, and then    *)
(* the playlist, which must be at the version the items are of.            *)
(***************************************************************************)
Again ==
    IF page.tries = Tries - 1 THEN Forgets(page)
    ELSE /\ page' = [page EXCEPT !.tries = @ + 1, !.read = <<>>, !.after = {}, !.at = 0]
         /\ UNCHANGED <<undo, dropped>>

\* A cursor names the version of the page it follows.
Expired == page.at # 0 /\ page.at # version

\* listItems, from one read. What it returns is at version `at`, and goes on after a key.
ReadItems ==
    LET keys == Ascending({k \in DOMAIN rows : \A last \in page.after : k > last})
        more == Len(keys) > PageSize
        some == IF more THEN SubSeq(keys, 1, PageSize) ELSE keys
    IN  /\ page.doing = "reloading" /\ ~deleted
        /\ \/ Expired /\ Again
           \/ /\ ~Expired
              /\ page' = [page EXCEPT !.read = @ \o [i \in DOMAIN some |-> rows[some[i]]],
                             !.at = version,
                             !.after = IF more THEN {some[PageSize]} ELSE {},
                             !.doing = IF more THEN @ ELSE "read"]
              /\ UNCHANGED <<undo, dropped>>
        /\ UNCHANGED <<server, requests, history, spent>>

ReadHeader ==
    /\ page.doing = "read" /\ ~deleted
    /\ \/ page.at = version /\ Forgets([version |-> version, items |-> page.read])
       \/ /\ page.at # version
          /\ IF page.tries = Tries - 1 THEN Forgets(page)
             ELSE /\ page' = [page EXCEPT !.tries = @ + 1, !.read = <<>>, !.after = {}, !.at = 0,
                                 !.doing = "reloading"]
                  /\ UNCHANGED <<undo, dropped>>
    /\ UNCHANGED <<server, requests, history, spent>>

\* It cannot be read: shown as last confirmed.
LoadFails ==
    /\ page.doing \in {"reloading", "read"}
    /\ \/ deleted /\ UNCHANGED spent
       \/ ~deleted /\ Mishap
    /\ Forgets(page)
    /\ UNCHANGED <<server, requests, history>>

-----------------------------------------------------------------------------
(***************************************************************************)
(* Everything else.                                                        *)
(***************************************************************************)
\* Another device's edit, without a key, read and written with nothing in between.
OtherEdit ==
    /\ Spend("others", MaxOthers) /\ ~deleted
    /\ \E ops \in OtherOps :
        /\ AllInRange(Listed(rows), ops)
        /\ ApplyEdit(Plan(ops), ops, NoEdit)
    /\ UNCHANGED <<deleted, library, answers, requests, page, undo, dropped, swept>>

\* Retention keeps the tracks the playlist holds.
Purge ==
    /\ Mishap
    /\ \E track \in library :
        /\ track \notin Range(rows)
        /\ library' = library \ {track}
    /\ UNCHANGED <<rows, version, deleted, answers, requests, page, undo, history, dropped>>

\* A day passes.
Sweep ==
    /\ Mishap /\ answers # <<>> /\ answers' = <<>> /\ swept' = TRUE
    /\ UNCHANGED <<rows, version, deleted, library, requests, page, undo, lists, applied, dropped>>

Delete ==
    /\ Mishap /\ ~deleted /\ deleted' = TRUE /\ rows' = <<>>
    /\ UNCHANGED <<version, library, answers, requests, page, undo, history, dropped>>

PlaylistNext ==
    \/ UserEdit \/ UserUndo \/ Send \/ GiveUp
    \/ \E r \in requests : Read(r) \/ Write(r) \/ WriteEnds(r) \/ HandlerFails(r)
    \/ ReadItems \/ ReadHeader \/ LoadFails
    \/ OtherEdit \/ Purge \/ Sweep \/ Delete

PlaylistSpec == PlaylistInit /\ [][PlaylistNext]_playlistVars

-----------------------------------------------------------------------------
(* The rows, in the order of their keys, are what the edits applied made   *)
(* of the list, whatever was planned meanwhile, renumbered or moved, and   *)
(* no row to insert meets one that stays (keys.rs, Plan and write).        *)
ListIsWhatEditsMade ==
    ~deleted =>
        /\ DOMAIN rows \subseteq Int /\ IsFiniteSet(DOMAIN rows)
        /\ Listed(rows) = lists[version]
        /\ \A r \in requests : r.planned /\ r.base = version =>
            DOMAIN r.plan.insert \cap (DOMAIN rows \ r.plan.delete) = {}

(* What the page has as confirmed is the playlist at that version, though  *)
(* it applies its own edits to it, retries them, and reads the list a page *)
(* at a time while others edit it (EditablePlaylist.#send, loadPlaylist).  *)
ConfirmedIsStored == page.items = lists[page.version]

(* An edit is applied once, whatever was sent again, and one the page says *)
(* was not applied was not; only a retry a day late may be told so of an   *)
(* edit that was (Idempotency-Key, CONFLICT_MESSAGE).                      *)
DroppedIsNotApplied ==
    /\ \A i, j \in DOMAIN applied : applied[i] = applied[j] /\ applied[i] # NoEdit => i = j
    /\ dropped \cap {applied[i] : i \in DOMAIN applied} # {} => swept
=============================================================================
