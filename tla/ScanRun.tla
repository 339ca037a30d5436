------------------------------ MODULE ScanRun ------------------------------
(***************************************************************************)
(* One scan of a library at a time, as crates/scanner/src/scan.rs runs it: *)
(* the walk of each root, the batches it flushes with its cursor, what it  *)
(* marks missing, and how it resumes; and the hourly sweep of the server   *)
(* (db/retention/catalog.rs), which purges what stayed missing.  Files     *)
(* come and go and roots are unmounted and mounted at any step.            *)
(*                                                                         *)
(* Each folder holds at most one audio file, and is on disk while it or a  *)
(* folder below it holds one.  Left out: symlinks, excludes, files that    *)
(* change, and problems.  A graceful stop is a flush and then Halt.        *)
(* The stack of the walk, whose folders are pushed in reverse order, is    *)
(* the set of them, visited in order.                                      *)
(***************************************************************************)
EXTENDS Scopes, FiniteSets

CONSTANTS
    Folder,       \* the folders that ever hold a file, roots included
    Held,         \* those whose track a playlist holds
    NewScans,     \* the scans asked for, each the sequence of its scopes
    Window,       \* how many days a missing track is kept
    MaxDay,       \* bound: days
    MaxChanges,   \* bound: files and mounts that change
    MaxStops      \* bound: crashes, stops and store failures

ASSUME PrefixAssumption == \A p \in Path : \A n \in 0 .. Len(p) : SubSeq(p, 1, n) \in Path
ASSUME FolderAssumption ==
    /\ Folder \subseteq [root : Root, path : Path]
    /\ \A f \in Folder, p \in Path : StartsWith(f.path, p) => [f EXCEPT !.path = p] \in Folder
ASSUME HeldAssumption == Held \subseteq Folder
ASSUME NewScansAssumption == NewScans \subseteq Seq(Scope) \ {<<>>}
ASSUME RunBoundsAssumption == {Window, MaxDay, MaxChanges, MaxStops} \subseteq Nat /\ MaxDay >= 1

VARIABLES
    day, mounted, files, changes, stops,  \* the host: the roots mounted, the files on disk
    index,      \* the track of each folder's file: none, present or missing
    since,      \* tracks.missing_since
    walkedAt,   \* library_roots.walked_at
    state, scopes, began, saved,          \* the scan's row, saved its cursor
    phase,      \* where the scan is
    cursor,     \* Scan.cursor in memory
    scope,      \* the index of the scope in hand
    resume,     \* Walk.resume_after: a path, or none
    stack,      \* Walk.stack: the folders still to visit
    listing,    \* the folder in hand, as it listed
    marks,      \* the tracks still to be marked missing
    batch,      \* Writer.batch
    unanswered  \* the scopes whose root did not answer
(***************************************************************************)
(* History, read by no guard.                                              *)
(***************************************************************************)
VARIABLES
    disturbed,  \* the folders that changed since the scan began: their file, their root, or a folder
                \* on the way to them, came or went, or their track was purged
    gone,       \* the folders whose file was off the disk at some time since the scan began
    flapped,    \* the roots mounted again with one of their folders in hand
    skipped,    \* the scopes of the row that did not answer, in this run of it or an earlier one
    looked,     \* when the last scan that walked each whole root began
    mistaken    \* the roots whose walkedAt a scan set that had skipped them before a resume

host    == <<day, mounted, files, changes, stops>>
row     == <<state, scopes, began, saved>>
store   == <<index, since, walkedAt>>
memory  == <<phase, cursor, scope, resume, stack, listing, marks, batch, unanswered>>
history == <<disturbed, gone, flapped, skipped, looked, mistaken>>
vars    == <<host, row, store, memory, history>>

Never == 0
Day   == 1 .. MaxDay

Start == [index |-> 1, after |-> {}]
NoBatch == [added |-> {}, returned |-> {}, missing |-> {}]
Unlisted == [path |-> <<>>, file |-> FALSE, folders |-> {}]

Idle == /\ phase = "idle" /\ cursor = Start /\ scope = 1 /\ resume = {} /\ stack = {}
        /\ listing = Unlisted /\ marks = {} /\ batch = NoBatch /\ unanswered = {}

Forget == /\ phase' = "idle" /\ cursor' = Start /\ scope' = 1 /\ resume' = {} /\ stack' = {}
          /\ listing' = Unlisted /\ marks' = {} /\ batch' = NoBatch /\ unanswered' = {}

Init ==
    /\ day = 1 /\ mounted = Root /\ files \in SUBSET Folder /\ changes = 0 /\ stops = 0
    /\ index = [f \in Folder |-> "none"] /\ since = [f \in Folder |-> Never]
    /\ walkedAt = [r \in Root |-> Never]
    /\ state = "none" /\ scopes = <<>> /\ began = Never /\ saved = Start
    /\ Idle
    /\ disturbed = {} /\ gone = {} /\ flapped = {} /\ skipped = {}
    /\ looked = [r \in Root |-> Never] /\ mistaken = {}

Within(f, r, p) == f.root = r /\ StartsWith(f.path, p)

\* What can be seen of root r: nothing of one that is not mounted.
Shown(r) == IF r \in mounted THEN {f \in files : f.root = r} ELSE {}

\* check_root: a root that lists empty counts as not mounted.
Answers(r) == Shown(r) # {}

TheRoot == scopes[scope].root
InHand(p) == [root |-> TheRoot, path |-> p]

\* The folders directly in p that lead to one of F.
Children(p, F) ==
    {q \in Path : /\ Len(q) = Len(p) + 1 /\ StartsWith(q, p)
                  /\ \E f \in F : Within(f, TheRoot, q)}

-----------------------------------------------------------------------------
(***************************************************************************)
(* Batches (writer.rs, and the store's apply): what the scan found since   *)
(* the last flush is written with its cursor, or not at all.               *)
(***************************************************************************)
\* Slip: a flush in the middle of a folder saves the cursor past it.
SlipCursorInHand ==
    IF phase \in {"listed", "read", "mark"}
    THEN [index |-> scope, after |-> {listing.path}] ELSE cursor

CursorToSave == cursor

\* The track of f once the batch is applied: added, then marked missing, then back.
Applied(f) ==
    LET upserted == IF f \in batch.added THEN "present" ELSE index[f]
        marked   == IF f \in batch.missing /\ upserted = "present" THEN "missing" ELSE upserted
    IN IF f \in batch.returned /\ marked = "missing" THEN "present" ELSE marked

Persist(c) ==
    /\ saved' = c
    /\ batch' = NoBatch
    /\ index' = [f \in Folder |-> Applied(f)]
    /\ since' = [f \in Folder |-> IF Applied(f) # "missing" THEN Never
                                  ELSE IF index[f] = "missing" THEN since[f] ELSE day]

\* A checkpoint in the middle of the walk: the batch is full, or has waited.
Flush ==
    /\ phase \in {"walk", "listed", "mark"}
    /\ Persist(CursorToSave)
    /\ UNCHANGED <<host, walkedAt, state, scopes, began, phase, cursor, scope, resume, stack,
                   listing, marks, unanswered, history>>

-----------------------------------------------------------------------------
(***************************************************************************)
(* The walk of one scope (discover.rs, Walk) and what process_directory    *)
(* and reconcile.rs make of each folder it lists.                          *)
(***************************************************************************)
\* Walk::cursor_position: where a folder lies from the one a resumed walk goes on after.
Position(p, c) ==
    IF StartsWith(c, p) THEN "ancestor" ELSE IF PathBefore(p, c) THEN "done" ELSE "after"

PositionOf(p) == IF resume = {} THEN "after" ELSE Position(p, CHOOSE c \in resume : TRUE)

ToVisit(p) == IF scopes[scope].depth = "subtree" THEN Children(p, Shown(TheRoot)) ELSE {}

\* The folder on top of the stack, the first of them in the order of the walk.
Visiting(p) == phase = "walk" /\ p \in stack /\ \A q \in stack \ {p} : PathBefore(p, q)

\* A folder the interrupted run was done with, or, of a root that is not mounted, one that
\* cannot be listed: reported, and passed over with its tracks as they are.
PassFolder(p) ==
    /\ Visiting(p)
    /\ PositionOf(p) = "done" \/ TheRoot \notin mounted
    /\ stack' = stack \ {p}
    /\ UNCHANGED <<host, row, store, phase, cursor, scope, resume, listing, marks, batch,
                   unanswered, history>>

DescendOnly(p) ==
    /\ Visiting(p) /\ PositionOf(p) = "ancestor"
    /\ stack' = (stack \ {p}) \cup ToVisit(p)
    /\ UNCHANGED <<host, row, store, phase, cursor, scope, resume, listing, marks, batch,
                   unanswered, history>>

\* A folder that has gone, as all do when the root has, lists as empty.
ListFolder(p) ==
    /\ Visiting(p) /\ PositionOf(p) = "after"
    /\ stack' = (stack \ {p}) \cup ToVisit(p)
    /\ listing' = [path |-> p, file |-> InHand(p) \in Shown(TheRoot),
                   folders |-> Children(p, Shown(TheRoot))]
    /\ phase' = "listed"
    /\ UNCHANGED <<host, row, store, cursor, scope, resume, marks, batch, unanswered, history>>

\* process_file: a known file is as the index has it, or back; a new one is read.
FileFound(f) ==
    CASE index[f] = "missing"                      -> [batch EXCEPT !.returned = @ \cup {f}]
      [] index[f] = "none" /\ f \in Shown(f.root) -> [batch EXCEPT !.added = @ \cup {f}]
      [] OTHER                                     -> batch

Known == {f \in Folder : f.root = TheRoot /\ index[f] # "none"}

\* The folders in it that hold tracks and that it no longer lists.
Vanished == Children(listing.path, Known) \ listing.folders

\* reconcile::unlisted and mark: the tracks in the folder, and below folders in it, that it
\* no longer lists.
NoLongerListed ==
    {f \in Known : /\ index[f] = "present"
                   /\ \/ f.path = listing.path /\ ~listing.file
                      \/ \E q \in Vanished : StartsWith(f.path, q)}

ReadFolder ==
    /\ phase = "listed"
    /\ batch' = IF listing.file THEN FileFound(InHand(listing.path)) ELSE batch
    /\ marks' = NoLongerListed
    /\ phase' = IF NoLongerListed = {} /\ Vanished = {} THEN "mark" ELSE "read"
    /\ UNCHANGED <<host, row, store, cursor, scope, resume, stack, listing, unanswered, history>>

\* Slip: the root is not asked again before its tracks are marked.
SlipMarkUnasked == TRUE

\* Nothing is marked unless the root still answers.
MayMark == Answers(TheRoot)

Reconcile ==
    /\ phase = "read"
    /\ phase' = IF MayMark THEN "mark" ELSE "left"
    /\ UNCHANGED <<host, row, store, cursor, scope, resume, stack, listing, marks, batch,
                   unanswered, history>>

Mark == \E f \in marks :
    /\ phase = "mark"
    /\ marks' = marks \ {f}
    /\ batch' = [batch EXCEPT !.missing = @ \cup {f}]
    /\ UNCHANGED <<host, row, store, phase, cursor, scope, resume, stack, listing, unanswered,
                   history>>

FolderDone ==
    /\ phase = "mark" /\ marks = {}
    /\ cursor' = [index |-> scope, after |-> {listing.path}]
    /\ phase' = "walk" /\ listing' = Unlisted
    /\ UNCHANGED <<host, row, store, scope, resume, stack, marks, batch, unanswered, history>>

-----------------------------------------------------------------------------
(***************************************************************************)
(* The scan (run_scan, scan_scopes).                                       *)
(***************************************************************************)
\* A scan of S begins: a new one, or one that replaces what an interrupted one left.
Begin(S) ==
    /\ phase = "idle"
    /\ state = "running" => CoversAll(ToSet(S), ToSet(scopes))
    /\ phase' = "scope"
    /\ state' = "running" /\ scopes' = S /\ began' = day /\ saved' = Start
    /\ disturbed' = {f \in Folder : f.root \notin mounted} /\ gone' = Folder \ files
    /\ flapped' = {} /\ skipped' = {}
    /\ UNCHANGED <<host, store, cursor, scope, resume, stack, listing, marks, batch, unanswered,
                   looked, mistaken>>

\* A restart takes an interrupted scan up at its cursor.
Resume ==
    /\ phase = "idle" /\ state = "running"
    /\ phase' = "scope" /\ cursor' = saved /\ scope' = saved.index
    /\ UNCHANGED <<host, row, store, resume, stack, listing, marks, batch, unanswered, history>>

NextScope == scope' = scope + 1 /\ phase' = "scope"

\* The scope is left for a retry.
LeaveScope ==
    /\ NextScope
    /\ unanswered' = unanswered \cup {scope} /\ skipped' = skipped \cup {scope}

SkipScope ==
    /\ phase = "scope" /\ scope <= Len(scopes) /\ ~Answers(TheRoot)
    /\ LeaveScope
    /\ UNCHANGED <<host, row, store, cursor, resume, stack, listing, marks, batch, disturbed,
                   gone, flapped, looked, mistaken>>

WalkScope ==
    /\ phase = "scope" /\ scope <= Len(scopes) /\ Answers(TheRoot)
    /\ phase' = "walk" /\ stack' = {scopes[scope].path}
    /\ resume' = IF cursor.index = scope THEN cursor.after ELSE {}
    /\ UNCHANGED <<host, row, store, cursor, scope, listing, marks, batch, unanswered, history>>

\* The root went with one of its folders in hand.
RootLeft ==
    /\ phase = "left"
    /\ Persist(cursor)
    /\ LeaveScope
    /\ stack' = {} /\ listing' = Unlisted /\ marks' = {} /\ resume' = {}
    /\ UNCHANGED <<host, walkedAt, state, scopes, began, cursor, disturbed, gone, flapped, looked,
                   mistaken>>

WalkEnds ==
    /\ phase = "walk" /\ stack = {}
    /\ Persist(cursor)
    /\ phase' = "check" /\ resume' = {}
    /\ UNCHANGED <<host, walkedAt, state, scopes, began, cursor, scope, stack, listing, marks,
                   unanswered, history>>

MissScope ==
    /\ phase = "check" /\ ~Answers(TheRoot)
    /\ LeaveScope
    /\ UNCHANGED <<host, row, store, cursor, resume, stack, listing, marks, batch, disturbed,
                   gone, flapped, looked, mistaken>>

AfterScope(k) == [index |-> k + 1, after |-> {}]

IsWholeRoot(s) == Covers(s, RootScope(s.root))

PassScope ==
    /\ phase = "check" /\ Answers(TheRoot)
    /\ NextScope
    /\ cursor' = AfterScope(scope) /\ saved' = AfterScope(scope)
    /\ looked' = IF IsWholeRoot(scopes[scope]) THEN [looked EXCEPT ![TheRoot] = began] ELSE looked
    /\ UNCHANGED <<host, store, state, scopes, began, resume, stack, listing, marks, batch,
                   unanswered, disturbed, gone, flapped, skipped, mistaken>>

\* Slip: a scan of one folder counts as a walk of its root.
SlipAnyScope(S) == {S[k].root : k \in DOMAIN S}

\* Scans::save: the roots a completed scan marks as walked.
WholeRoots(S) == {S[k].root : k \in {j \in DOMAIN S : IsWholeRoot(S[j])}}

EndScan ==
    /\ phase = "scope" /\ scope > Len(scopes)
    /\ state' = IF unanswered = {} THEN "completed" ELSE "suspended"
    /\ walkedAt' = [r \in Root |-> IF unanswered = {} /\ r \in WholeRoots(scopes)
                                   THEN began ELSE walkedAt[r]]
    /\ mistaken' = IF unanswered = {} THEN mistaken \cup {scopes[k].root : k \in skipped}
                   ELSE mistaken
    /\ Forget
    /\ UNCHANGED <<host, scopes, began, saved, index, since, disturbed, gone, flapped, skipped,
                   looked>>

\* The process ends, or is asked to: the row is left running at its last cursor.
Halt ==
    /\ phase # "idle" /\ stops < MaxStops /\ stops' = stops + 1
    /\ Forget
    /\ UNCHANGED <<day, mounted, files, changes, row, store, history>>

\* Writer::fail and suspend, also after a panic.
StoreFails ==
    /\ phase # "idle" /\ stops < MaxStops /\ stops' = stops + 1
    /\ state' = "suspended"
    /\ Forget
    /\ UNCHANGED <<day, mounted, files, changes, scopes, began, saved, store, history>>

-----------------------------------------------------------------------------
(***************************************************************************)
(* The sweep, and the host.                                                *)
(***************************************************************************)
\* catalog::MISSING, for one track.
Purgeable(f) ==
    /\ index[f] = "missing" /\ f \notin Held
    /\ since[f] + Window < day /\ since[f] + Window < walkedAt[f.root]

Sweep == \E f \in Folder :
    /\ Purgeable(f)
    /\ index' = [index EXCEPT ![f] = "none"] /\ since' = [since EXCEPT ![f] = Never]
    /\ disturbed' = disturbed \cup {f}
    /\ UNCHANGED <<host, row, memory, walkedAt, gone, flapped, skipped, looked, mistaken>>

MayChange == changes < MaxChanges /\ changes' = changes + 1

\* Those that change with the file of f: f, and all that are reached through a folder that
\* only this file keeps on disk.
ChangeWith(f) ==
    {f} \cup {g \in Folder : \E p \in Path :
                 /\ Within(f, g.root, p) /\ StartsWith(g.path, p)
                 /\ \A h \in files \ {f} : ~Within(h, g.root, p)}

FileComes == \E f \in Folder \ files :
    /\ MayChange
    /\ files' = files \cup {f}
    /\ disturbed' = disturbed \cup ChangeWith(f)
    /\ UNCHANGED <<day, mounted, stops, row, store, memory, gone, flapped, skipped, looked, mistaken>>

FileGoes == \E f \in files :
    /\ MayChange
    /\ files' = files \ {f}
    /\ disturbed' = disturbed \cup ChangeWith(f) /\ gone' = gone \cup {f}
    /\ UNCHANGED <<day, mounted, stops, row, store, memory, flapped, skipped, looked, mistaken>>

Unmount == \E r \in mounted :
    /\ MayChange
    /\ mounted' = mounted \ {r}
    /\ disturbed' = disturbed \cup {f \in Folder : f.root = r}
    /\ UNCHANGED <<day, files, stops, row, store, memory, gone, flapped, skipped, looked, mistaken>>

Mount == \E r \in Root \ mounted :
    /\ MayChange
    /\ mounted' = mounted \cup {r}
    /\ flapped' = IF phase \in {"listed", "read"} /\ TheRoot = r THEN flapped \cup {r} ELSE flapped
    /\ UNCHANGED <<day, files, stops, row, store, memory, disturbed, gone, skipped, looked, mistaken>>

Tomorrow ==
    /\ day < MaxDay /\ day' = day + 1
    /\ UNCHANGED <<mounted, files, changes, stops, row, store, memory, history>>

Next ==
    \/ \E S \in NewScans : Begin(S)
    \/ Resume \/ SkipScope \/ WalkScope \/ RootLeft \/ WalkEnds \/ MissScope \/ PassScope
    \/ EndScan \/ Halt \/ StoreFails
    \/ \E p \in Path : PassFolder(p) \/ DescendOnly(p) \/ ListFolder(p)
    \/ ReadFolder \/ Reconcile \/ Mark \/ FolderDone \/ Flush
    \/ Sweep \/ FileComes \/ FileGoes \/ Unmount \/ Mount \/ Tomorrow

Spec == Init /\ [][Next]_vars

-----------------------------------------------------------------------------
Cursor == [index : 1 .. Len(scopes) + 1, after : SUBSET Path]

\* The types, and that the cursor in memory is never behind the row's.
TypeOK ==
    /\ day \in Day /\ mounted \subseteq Root /\ files \subseteq Folder
    /\ changes \in 0 .. MaxChanges /\ stops \in 0 .. MaxStops
    /\ index \in [Folder -> {"none", "present", "missing"}]
    /\ since \in [Folder -> Day \cup {Never}]
    /\ walkedAt \in [Root -> Day \cup {Never}] /\ looked \in [Root -> Day \cup {Never}]
    /\ state \in {"none", "running", "completed", "suspended"}
    /\ scopes \in NewScans \cup {<<>>} /\ began \in Day \cup {Never}
    /\ phase \in {"idle", "scope", "walk", "listed", "read", "mark", "left", "check"}
    /\ cursor \in Cursor /\ saved \in Cursor /\ scope \in 1 .. Len(scopes) + 1
    /\ resume \subseteq Path /\ stack \subseteq Path
    /\ listing \in [path : Path, file : BOOLEAN, folders : SUBSET Path]
    /\ marks \subseteq Folder /\ batch \in [{"added", "returned", "missing"} -> SUBSET Folder]
    /\ unanswered \subseteq skipped /\ skipped \subseteq DOMAIN scopes
    /\ disturbed \subseteq Folder /\ gone \subseteq Folder /\ flapped \cup mistaken \subseteq Root
    /\ phase = "idle" => Idle

\* Folder f is one that scope s visits.
Visits(s, f) ==
    /\ f.root = s.root
    /\ IF s.depth = "subtree" THEN StartsWith(f.path, s.path) ELSE f.path = s.path

\* Cursor c is past path p of the scope numbered k.
Behind(c, k, p) ==
    \/ k < c.index
    \/ k = c.index /\ \E last \in c.after : p = last \/ PathBefore(p, last)

(* No crash, stop or failure, at any step, leaves the row past work it has *)
(* not persisted: every folder behind the saved cursor that has been left  *)
(* alone since the scan began is indexed as it is on disk, its track       *)
(* present or not, so a resume or a completed scan misses none             *)
(* (design/scanning.md: "the cursor names only folders whose every file is *)
(* persisted").  Left alone: a folder deleted while the scan is            *)
(* interrupted, and all below it, keep their tracks, as the design says.   *)
PassedFoldersAreIndexed ==
    \A k \in DOMAIN scopes \ skipped, f \in Folder \ disturbed :
        (Visits(scopes[k], f) /\ Behind(saved, k, f.path)) =>
            (index[f] = "present" <=> f \in files)

(* A share that drops in the middle of a walk marks none of its tracks     *)
(* missing: a track whose file stayed on disk goes missing only if its     *)
(* root was mounted again between a folder's listing and the check.        *)
DroppedRootsMarkNothing ==
    [][\A f \in Folder \ gone :
          (index[f] # "missing" /\ index'[f] = "missing") => f.root \in flapped]_vars

(* A track is purged only once a scan that began when its window was up    *)
(* has walked its whole root (design/database.md: "a mark that a dropped   *)
(* share or a scan's mistake left is never purged before the root has been *)
(* walked again").                                                         *)
Purged(f) == index[f] = "missing" /\ index'[f] = "none"
PurgedOnlyAfterWalk ==
    [][\A f \in Folder : Purged(f) => since[f] + Window < looked[f.root]]_vars

(* So it is, but for a root that a resumed scan took for walked when an    *)
(* earlier run of the scan had skipped it.                                 *)
PurgedAfterWalkOrMistake ==
    [][\A f \in Folder : Purged(f) => \/ since[f] + Window < looked[f.root]
                                      \/ f.root \in mistaken]_vars
=============================================================================
