--------------------------- MODULE BackgroundProofs ---------------------------
(***************************************************************************)
(* What holds of every scan and of every background decode.                *)
(*                                                                         *)
(* The scans first, however deep the library, however many roots, scopes,  *)
(* changes, crashes and days there are: the saved cursor is past nothing   *)
(* that is not in the index, a share that drops marks nothing missing, and *)
(* the sweep purges only what a walk confirmed.  On the types rest three   *)
(* invariants, one for each of the properties: Dates, Excuses and Indexed. *)
(*                                                                         *)
(* Then the decodes, for any number of libraries, jobs, files and threads: *)
(* no file is with two threads, none is decoded anew once its result is    *)
(* stored, and however many passes a library's jobs run, or hang in, a     *)
(* thread is left for the other libraries.                                 *)
(***************************************************************************)
EXTENDS ScanRun, Jobs, FiniteSetTheorems, NaturalsInduction, WellFoundedInduction, TLAPS

Walking == {"walk", "listed", "read", "mark"}

\* Where the scan is, and how its cursor lies.
Bearings ==
    /\ phase = "idle" => Idle
    /\ phase # "idle" => state = "running" /\ cursor.index <= scope
    /\ phase \in Walking \cup {"left", "check"} => scope \in DOMAIN scopes
    /\ phase \in {"scope", "check"} => batch = NoBatch
    /\ phase \in {"scope", "walk", "check"} => marks = {}
    /\ phase = "listed" /\ listing.file => InHand(listing.path) \in Folder
    /\ \A k \in DOMAIN scopes : cursor.index <= k /\ k < scope => k \in skipped

Shape == TypeOK /\ Bearings

-----------------------------------------------------------------------------
\* What a walk of its root is taken for is one, or a mistake.
Dates ==
    /\ began <= day
    /\ \A r \in Root : walkedAt[r] <= began /\ looked[r] <= began
    /\ \A r \in Root : walkedAt[r] <= looked[r] \/ r \in mistaken
    /\ \A k \in DOMAIN scopes \ skipped :
          (k < scope \/ k < saved.index) /\ IsWholeRoot(scopes[k]) => looked[scopes[k].root] = began

-----------------------------------------------------------------------------
\* What excuses that folder f is taken for missing, once the root is asked again.
Settled(f) == f \in gone \/ f.root \in flapped
Excused(f) == Settled(f) \/ f.root \notin mounted

\* The folder q in the folder p.
ChildOf(q, p) == Len(q) = Len(p) + 1 /\ StartsWith(q, p)

\* Whatever is to be marked missing has been off the disk, or its root came and went.
Excuses ==
    /\ state = "running" => Folder \ files \subseteq gone
    /\ \A f \in batch.missing : Settled(f)
    /\ phase = "listed" => \A f \in Folder :
          (f.root = TheRoot /\ ~Excused(f)) =>
              /\ f.path = listing.path => listing.file
              /\ \A q \in Path : ChildOf(q, listing.path) /\ StartsWith(f.path, q) => q \in listing.folders
    /\ phase = "read" => \A f \in marks : f.root = TheRoot /\ Excused(f)
    /\ phase = "mark" => \A f \in marks : Settled(f)

-----------------------------------------------------------------------------
Alone == Folder \ disturbed

OnDisk(r, p) == \E g \in files : Within(g, r, p)

\* Path p is where a walk of scope s decides on folder f: the lowest on the way to it that
\* is on disk, or the scope's own.
Meets(s, f, p) ==
    /\ StartsWith(f.path, p) /\ StartsWith(p, s.path)
    /\ p = s.path \/ OnDisk(f.root, p)
    /\ \A q \in Path : ChildOf(q, p) /\ StartsWith(f.path, q) => ~OnDisk(f.root, q)

\* What of f is in the index, or will be once the batch is written, is as it is on disk.
Kept(f)    == index[f] = "present" <=> f \in files
Written(f) == Applied(f) = "present" <=> f \in files

\* The folders alone that scope s visits and decides on at p.
Decided(s, f, p) == f \in Alone /\ Visits(s, f) /\ Meets(s, f, p)

Ahead(p) == \E q \in stack : StartsWith(p, q)

AtHand(f, p) ==
    \/ phase = "listed" /\ p = listing.path
    \/ phase \in {"read", "mark"} /\ f \in marks

\* Folders left alone: their roots are mounted, and what is noted of them is so.
StillThere == \A f \in Alone : f.root \in mounted

TrueNotes ==
    \A f \in Alone : /\ f \in batch.missing \cup marks => f \notin files
                     /\ f \in batch.added \cup batch.returned => f \in files

UpTo(p, c) == p = c \/ PathBefore(p, c)

\* Cursor c is past path p of the scope numbered k, which was not skipped.
Past(c, k, p) ==
    \/ k < c.index /\ k \notin skipped
    \/ k = c.index /\ \E last \in c.after : UpTo(p, last)

\* What a cursor is past is done, and what that of a resumed walk was.
PassedIsDone ==
    \A k \in DOMAIN scopes, f \in Alone, p \in Path :
        Decided(scopes[k], f, p) => /\ Past(saved, k, p) => Kept(f)
                                    /\ Past(cursor, k, p) => Written(f)

ResumedIsDone ==
    phase \in Walking => \A f \in Alone, p \in Path, c \in resume :
        Decided(scopes[scope], f, p) /\ UpTo(p, c) => Written(f)

\* A folder is listed as it is, as far as folders left alone are concerned.
TrueListing ==
    phase = "listed" => \A f \in Alone : f.root = TheRoot =>
        /\ f.path = listing.path => (listing.file <=> f \in files)
        /\ \A q \in Path : ChildOf(q, listing.path) /\ StartsWith(f.path, q) =>
              (q \in listing.folders <=> OnDisk(f.root, q))

\* The stack lies in the scope, and after the folder in hand.
StackInOrder ==
    phase \in Walking =>
        /\ \A q \in stack : StartsWith(q, scopes[scope].path)
        /\ phase # "walk" => \A q \in stack : PathBefore(listing.path, q)

\* Whatever the walk of the scope in hand has not decided yet lies ahead of it.
RestIsAhead ==
    phase \in Walking => \A f \in Alone, p \in Path :
        Decided(scopes[scope], f, p) => Written(f) \/ Ahead(p) \/ AtHand(f, p)

WalkedIsDone ==
    phase = "check" => \A f \in Alone, p \in Path : Decided(scopes[scope], f, p) => Written(f)

Indexed ==
    /\ StillThere /\ TrueNotes /\ PassedIsDone /\ ResumedIsDone
    /\ TrueListing /\ StackInOrder /\ RestIsAhead /\ WalkedIsDone

-----------------------------------------------------------------------------
(* What the proofs need of the constants, and of an absent one.            *)
LEMMA Constants ==
  /\ Path \subseteq Seq(Nat) /\ <<>> \in Path /\ Root \subseteq Nat
  /\ Folder \subseteq [root : Root, path : Path]
  /\ NewScans \subseteq Seq(Scope) \ {<<>>}
  /\ Window \in Nat /\ MaxDay \in Nat /\ MaxDay >= 1 /\ MaxChanges \in Nat /\ MaxStops \in Nat
  BY RootAssumption, PathAssumption, FolderAssumption, NewScansAssumption, RunBoundsAssumption
  DEF RootAssumption, PathAssumption, FolderAssumption, NewScansAssumption, RunBoundsAssumption

(* The scopes of a scan, and the one in hand.                              *)
LEMMA ScopesOfAScan ==
  ASSUME TypeOK
  PROVE  /\ scopes \in Seq(Scope) /\ Len(scopes) \in Nat /\ DOMAIN scopes = 1 .. Len(scopes)
         /\ scope \in Nat /\ scope >= 1 /\ scope <= Len(scopes) + 1
         /\ \A k \in DOMAIN scopes :
               /\ scopes[k] \in Scope /\ scopes[k].root \in Root /\ scopes[k].path \in Path
               /\ scopes[k].depth \in {"subtree", "directory"}
         /\ \A c \in Cursor : c.index \in Nat /\ c.index >= 1 /\ c.index <= Len(scopes) + 1
<1>1. scopes \in Seq(Scope)
  BY Constants DEF TypeOK
<1>2. Len(scopes) \in Nat /\ DOMAIN scopes = 1 .. Len(scopes)
  BY <1>1
<1>3. \A k \in DOMAIN scopes : scopes[k] \in Scope
  BY <1>1
<1> QED
  BY <1>1, <1>2, <1>3 DEF TypeOK, Scope, Cursor

(* Flushing leaves the index and the days of the missing of their types.   *)
LEMMA PersistTypes ==
  ASSUME TypeOK, NEW c, Persist(c)
  PROVE  /\ index' \in [Folder -> {"none", "present", "missing"}]
         /\ since' \in [Folder -> Day \cup {Never}]
         /\ batch' = NoBatch /\ saved' = c
         /\ \A f \in Folder : index'[f] = Applied(f)
<1>1. \A f \in Folder : Applied(f) \in {"none", "present", "missing"}
  BY DEF Applied, TypeOK
<1>2. day \in Day /\ \A f \in Folder : since[f] \in Day \cup {Never}
  BY DEF TypeOK
<1> QED
  BY <1>1, <1>2 DEF Persist

(* An empty batch is one.                                                  *)
LEMMA NoBatchType == NoBatch \in [{"added", "returned", "missing"} -> SUBSET Folder]
  BY DEF NoBatch

(* An end, of whatever kind, leaves the memory of the scan idle.           *)
LEMMA ForgetTypes ==
  ASSUME Forget
  PROVE  /\ Idle' /\ phase' = "idle" /\ resume' \subseteq Path /\ stack' \subseteq Path
         /\ listing' \in [path : Path, file : BOOLEAN, folders : SUBSET Path]
         /\ marks' \subseteq Folder /\ batch' \in [{"added", "returned", "missing"} -> SUBSET Folder]
         /\ cursor' = Start /\ scope' = 1 /\ unanswered' = {}
  BY Constants DEF Forget, Idle, Unlisted, NoBatch

(* Every state has the types, and its cursor and batch in place.           *)
LEMMA ShapeStarts == Init => Shape
<1> SUFFICES ASSUME Init PROVE Shape
  OBVIOUS
<1>1. /\ day \in Day /\ 0 \in Nat
  BY Constants DEF Init, Day
<1>2. scopes = <<>> /\ Len(scopes) = 0 /\ DOMAIN scopes = {} /\ 1 .. Len(scopes) + 1 = {1}
  BY DEF Init
<1>3. /\ listing \in [path : Path, file : BOOLEAN, folders : SUBSET Path]
      /\ batch \in [{"added", "returned", "missing"} -> SUBSET Folder]
  BY Constants DEF Init, Idle, Unlisted, NoBatch
<1>4. saved \in Cursor /\ cursor \in Cursor /\ scope \in 1 .. Len(scopes) + 1
  BY <1>2 DEF Init, Idle, Cursor, Start
<1>5. TypeOK
  BY <1>1, <1>2, <1>3, <1>4, Constants DEF Init, Idle, TypeOK, Never
<1>6. Bearings
  BY <1>2 DEF Init, Idle, Bearings, Walking
<1> QED
  BY <1>5, <1>6 DEF Shape

-----------------------------------------------------------------------------
\* The steps of the walk of a scope, of a scan from scope to scope, and of all else.
WalkStep ==
    \/ \E p \in Path : PassFolder(p) \/ DescendOnly(p) \/ ListFolder(p)
    \/ ReadFolder \/ Reconcile \/ Mark \/ FolderDone \/ Flush

ScanStep ==
    \/ \E S \in NewScans : Begin(S)
    \/ Resume \/ SkipScope \/ WalkScope \/ RootLeft \/ WalkEnds \/ MissScope \/ PassScope
    \/ EndScan \/ Halt \/ StoreFails

HostStep == Sweep \/ FileComes \/ FileGoes \/ Unmount \/ Mount \/ Tomorrow

(* A step is one of the walk, of the scan around it, or of the host.       *)
LEMMA Steps == Next <=> WalkStep \/ ScanStep \/ HostStep
  BY DEF Next, WalkStep, ScanStep, HostStep

(* What a folder leads to is on the disk, and in the library.              *)
LEMMA ToVisitTypes ==
  ASSUME NEW p \in Path
  PROVE  ToVisit(p) \subseteq Path /\ Children(p, Shown(TheRoot)) \subseteq Path
  BY DEF ToVisit, Children

(* A step of the walk keeps the types and the place.                       *)
LEMMA ShapeWalks ==
  ASSUME Shape, WalkStep
  PROVE  Shape'
<1> USE DEF Shape
<1>0. /\ phase \in {"walk", "listed", "read", "mark"} /\ phase # "idle" /\ scope \in DOMAIN scopes
      /\ UNCHANGED <<host, state, scopes, began, scope, unanswered, history, walkedAt>>
  BY DEF WalkStep, PassFolder, Visiting, DescendOnly, ListFolder, ReadFolder, Reconcile, Mark,
         FolderDone, Flush, Persist, row, store, Bearings, Walking
<1>1. ASSUME NEW p \in Path, PassFolder(p) PROVE Shape'
  <2>1. TypeOK'
    BY <1>0, <1>1 DEF PassFolder, TypeOK, Cursor, Idle, host, row, store, history
  <2>2. Bearings'
    BY <1>0, <1>1 DEF PassFolder, Bearings, Visiting, host, row, store, history
  <2> QED
    BY <2>1, <2>2
<1>2. ASSUME NEW p \in Path, DescendOnly(p) PROVE Shape'
  <2>1. TypeOK'
    BY <1>0, <1>2, ToVisitTypes DEF DescendOnly, TypeOK, Cursor, Idle, host, row, store, history
  <2>2. Bearings'
    BY <1>0, <1>2 DEF DescendOnly, Bearings, Visiting, host, row, store, history
  <2> QED
    BY <2>1, <2>2
<1>3. ASSUME NEW p \in Path, ListFolder(p) PROVE Shape'
  <2>1. /\ listing' = [path |-> p, file |-> InHand(p) \in Shown(TheRoot),
                       folders |-> Children(p, Shown(TheRoot))]
        /\ phase' = "listed" /\ stack' \subseteq Path
    BY <1>3, ToVisitTypes DEF ListFolder, TypeOK
  <2>2. listing' \in [path : Path, file : BOOLEAN, folders : SUBSET Path]
    BY <2>1, ToVisitTypes
  <2>3. TypeOK'
    BY <1>0, <1>3, <2>1, <2>2 DEF ListFolder, TypeOK, Cursor, Idle, host, row, store, history
  <2>4. listing'.file => InHand(listing.path)' \in Folder
    BY <1>0, <2>1 DEF Shown, InHand, TheRoot, TypeOK
  <2>5. Bearings'
    BY <1>0, <1>3, <2>1, <2>4 DEF ListFolder, Bearings, Visiting, host, row, store, history
  <2> QED
    BY <2>3, <2>5
<1>4. CASE ReadFolder
  <2>1. batch' \in [{"added", "returned", "missing"} -> SUBSET Folder]
    BY <1>4 DEF ReadFolder, FileFound, Bearings, TypeOK
  <2>2. marks' \subseteq Folder /\ phase' \in {"read", "mark"}
    BY <1>4 DEF ReadFolder, NoLongerListed, Known
  <2>3. TypeOK'
    BY <1>0, <1>4, <2>1, <2>2 DEF ReadFolder, TypeOK, Cursor, Idle, host, row, store, history
  <2>4. Bearings'
    BY <1>0, <1>4, <2>2 DEF ReadFolder, Bearings, host, row, store, history
  <2> QED
    BY <2>3, <2>4
<1>5. CASE Reconcile
  <2>1. TypeOK'
    BY <1>0, <1>5 DEF Reconcile, TypeOK, Cursor, Idle, host, row, store, history
  <2>2. Bearings'
    BY <1>0, <1>5 DEF Reconcile, Bearings, host, row, store, history
  <2> QED
    BY <2>1, <2>2
<1>6. CASE Mark
  <2>1. PICK f \in marks : Mark!(f)
    BY <1>6 DEF Mark
  <2>2. TypeOK'
    BY <1>0, <2>1 DEF TypeOK, Cursor, Idle, host, row, store, history
  <2>3. phase = "mark" /\ UNCHANGED <<phase, state, scopes, scope, cursor, skipped>>
    BY <2>1 DEF row, history
  <2>4. Bearings'
    BY <1>0, <2>3 DEF Bearings, Walking
  <2> QED
    BY <2>2, <2>4
<1>7. CASE FolderDone
  <2>1. cursor' = [index |-> scope, after |-> {listing.path}] /\ cursor' \in Cursor
        /\ listing' \in [path : Path, file : BOOLEAN, folders : SUBSET Path]
    BY <1>0, <1>7, Constants, ScopesOfAScan DEF FolderDone, TypeOK, Cursor, Unlisted
  <2>2. TypeOK'
    BY <1>0, <1>7, <2>1 DEF FolderDone, TypeOK, Cursor, Idle, host, row, store, history
  <2>3. scope \in Nat /\ DOMAIN scopes \subseteq Nat
    BY ScopesOfAScan
  <2>4. phase' = "walk" /\ marks' = {} /\ UNCHANGED <<state, scopes, scope, skipped>> /\ cursor'.index = scope
    BY <1>7, <2>1 DEF FolderDone, row, history
  <2>5. state = "running"
    BY <1>0 DEF Bearings
  <2>6. \A k \in DOMAIN scopes' : ~(cursor'.index <= k /\ k < scope')
    BY <2>3, <2>4
  <2>7. /\ phase' = "walk" /\ marks' = {} /\ state' = "running" /\ cursor'.index <= scope'
        /\ scope' \in DOMAIN scopes'
    BY <1>0, <2>3, <2>4, <2>5
  <2>8. Bearings'
    BY <2>6, <2>7 DEF Bearings, Walking
  <2> QED
    BY <2>2, <2>8
<1>8. CASE Flush
  <2>1. /\ index' \in [Folder -> {"none", "present", "missing"}]
        /\ since' \in [Folder -> Day \cup {Never}]
        /\ batch' = NoBatch /\ saved' = cursor
    BY <1>8, PersistTypes DEF Flush, CursorToSave
  <2>2. TypeOK'
    BY <1>0, <1>8, <2>1 DEF Flush, TypeOK, Cursor, Idle, NoBatch, host, row, store, history
  <2>3. Bearings'
    BY <1>0, <1>8, <2>1 DEF Flush, Bearings, InHand, TheRoot, host, row, store, history, Walking
  <2> QED
    BY <2>2, <2>3
<1> QED
  BY <1>1, <1>2, <1>3, <1>4, <1>5, <1>6, <1>7, <1>8 DEF WalkStep

(* A scope left, passed or begun leaves the types and the place as they are. *)
LEMMA ShapeScans ==
  ASSUME Shape, ScanStep
  PROVE  Shape'
<1> USE DEF Shape
<1>0. /\ scopes \in Seq(Scope) /\ Len(scopes) \in Nat /\ DOMAIN scopes = 1 .. Len(scopes)
      /\ scope \in Nat /\ scope >= 1 /\ scope <= Len(scopes) + 1
      /\ \A c \in Cursor : c.index \in Nat /\ c.index >= 1 /\ c.index <= Len(scopes) + 1
      /\ cursor \in Cursor /\ saved \in Cursor
  BY ScopesOfAScan DEF TypeOK
<1>1. ASSUME NEW S \in NewScans, Begin(S) PROVE Shape'
  <2>1. S \in Seq(Scope) /\ Len(S) \in Nat
    BY Constants
  <2>2. Start \in [index : 1 .. Len(S) + 1, after : SUBSET Path] /\ 1 \in 1 .. Len(S) + 1
    BY <2>1 DEF Start
  <2>3. /\ Idle /\ scopes' = S /\ saved' = Start /\ cursor' = Start /\ scope' = 1
        /\ unanswered' = {} /\ skipped' = {} /\ began' = day /\ phase' = "scope"
        /\ batch' = NoBatch /\ marks' = {} /\ state' = "running"
    BY <1>1 DEF Begin, Bearings, Idle
  <2>4. saved' \in Cursor' /\ cursor' \in Cursor' /\ scope' \in 1 .. Len(scopes') + 1
    BY <2>2, <2>3 DEF Cursor
  <2>5. TypeOK'
    BY <1>1, <2>3, <2>4 DEF Begin, TypeOK, host, store
  <2>6. cursor'.index = 1 /\ scope' = 1 /\ DOMAIN scopes' \subseteq Nat
    BY <2>1, <2>3 DEF Start
  <2>7. \A k \in DOMAIN scopes' : ~(cursor'.index <= k /\ k < scope')
    BY <2>6
  <2>8. Bearings'
    BY <2>3, <2>6, <2>7 DEF Bearings, Walking
  <2> QED
    BY <2>5, <2>8
<1>2. CASE Resume
  <2>1. /\ Idle /\ state = "running" /\ phase' = "scope" /\ cursor' = saved /\ scope' = saved.index
        /\ batch' = NoBatch /\ marks' = {} /\ UNCHANGED <<host, row, store, history>>
        /\ UNCHANGED <<resume, stack, listing, unanswered>>
    BY <1>2 DEF Resume, Bearings, Idle
  <2>2. scope' \in 1 .. Len(scopes') + 1 /\ cursor' \in Cursor' /\ saved' \in Cursor'
    BY <1>0, <2>1 DEF Cursor, row
  <2>3. TypeOK'
    BY <2>1, <2>2 DEF TypeOK, NoBatch, host, row, store, history
  <2>4. /\ cursor'.index = scope' /\ scope' \in Nat /\ DOMAIN scopes' \subseteq Nat
        /\ state' = "running"
    BY <1>0, <2>1 DEF row
  <2>5. \A k \in DOMAIN scopes' : ~(cursor'.index <= k /\ k < scope')
    BY <2>4
  <2>6. Bearings'
    BY <2>1, <2>4, <2>5 DEF Bearings, Walking
  <2> QED
    BY <2>3, <2>6
<1>3. ASSUME scope \in DOMAIN scopes, LeaveScope, Persist(cursor) \/ UNCHANGED <<saved, index, since, batch>>,
             phase # "idle", phase = "left" \/ (batch = NoBatch /\ marks = {}),
             marks' = marks \/ marks' = {}, phase = "left" => marks' = {},
             phase = "left" => Persist(cursor),
             resume' = resume \/ resume' = {}, stack' = stack \/ stack' = {},
             listing' = listing \/ listing' = Unlisted,
             UNCHANGED <<host, walkedAt, state, scopes, began, cursor, disturbed, gone, flapped,
                         looked, mistaken>>
      PROVE  Shape'
  <2>1. /\ index' \in [Folder -> {"none", "present", "missing"}]
        /\ since' \in [Folder -> Day \cup {Never}]
        /\ batch' = NoBatch \/ batch' = batch
        /\ saved' \in Cursor /\ (phase = "left" => batch' = NoBatch)
    BY <1>0, <1>3, PersistTypes DEF TypeOK
  <2>2. scope' = scope + 1 /\ scope' \in 1 .. Len(scopes') + 1
    BY <1>0, <1>3 DEF LeaveScope, NextScope
  <2>3. /\ unanswered' \subseteq skipped' /\ skipped' = skipped \cup {scope} /\ phase' = "scope"
        /\ skipped' \subseteq DOMAIN scopes
    BY <1>3 DEF LeaveScope, NextScope, TypeOK
  <2>4. /\ resume' \subseteq Path /\ stack' \subseteq Path /\ marks' \subseteq Folder
        /\ listing' \in [path : Path, file : BOOLEAN, folders : SUBSET Path]
        /\ batch' \in [{"added", "returned", "missing"} -> SUBSET Folder]
    <3>1. Unlisted \in [path : Path, file : BOOLEAN, folders : SUBSET Path]
      BY Constants DEF Unlisted
    <3>2. NoBatch \in [{"added", "returned", "missing"} -> SUBSET Folder]
      BY NoBatchType
    <3>3. listing' \in [path : Path, file : BOOLEAN, folders : SUBSET Path]
      BY <1>3, <3>1 DEF TypeOK
    <3>4. batch' \in [{"added", "returned", "missing"} -> SUBSET Folder]
      BY <2>1, <3>2 DEF TypeOK
    <3>5. resume' \subseteq Path /\ stack' \subseteq Path /\ marks' \subseteq Folder
      BY <1>3 DEF TypeOK
    <3> QED
      BY <3>3, <3>4, <3>5
  <2>5. saved' \in Cursor' /\ cursor' \in Cursor'
    BY <1>0, <1>3, <2>1 DEF Cursor
  <2>6. TypeOK'
    BY <1>3, <2>1, <2>2, <2>3, <2>4, <2>5 DEF TypeOK, host
  <2>7. \A k \in DOMAIN scopes' : cursor'.index <= k /\ k < scope' => k \in skipped'
    BY <1>0, <1>3, <2>2, <2>3 DEF Bearings
  <2>8. state' = "running" /\ cursor'.index <= scope' /\ batch' = NoBatch /\ marks' = {}
    BY <1>0, <1>3, <2>1, <2>2 DEF Bearings
  <2>9. Bearings'
    BY <2>3, <2>7, <2>8 DEF Bearings, Walking
  <2> QED
    BY <2>6, <2>9
<1>4. CASE SkipScope
  <2>1. scope \in DOMAIN scopes
    BY <1>0, <1>4 DEF SkipScope
  <2> QED
    BY <1>3, <1>4, <2>1 DEF SkipScope, Bearings, row, store
<1>5. CASE WalkScope
  <2>1. scope \in DOMAIN scopes /\ scopes[scope].path \in Path
    BY <1>0, <1>5, ScopesOfAScan DEF WalkScope
  <2>2. resume' \subseteq Path /\ stack' \subseteq Path
    BY <1>0, <1>5, <2>1 DEF WalkScope, Cursor
  <2>3. TypeOK'
    BY <1>5, <2>2 DEF WalkScope, TypeOK, Cursor, host, row, store, history
  <2>4. Bearings'
    BY <1>5, <2>1 DEF WalkScope, Bearings, Walking, host, row, store, history
  <2> QED
    BY <2>3, <2>4
<1>6. CASE RootLeft
  <2>1. scope \in DOMAIN scopes
    BY <1>6 DEF RootLeft, Bearings, Walking
  <2>2. /\ LeaveScope /\ Persist(cursor) /\ phase = "left" /\ marks' = {} /\ resume' = {}
        /\ stack' = {} /\ listing' = Unlisted
        /\ UNCHANGED <<host, walkedAt, state, scopes, began, cursor, disturbed, gone, flapped,
                       looked, mistaken>>
    BY <1>6 DEF RootLeft
  <2>3. phase # "idle" /\ (phase = "left" \/ (batch = NoBatch /\ marks = {}))
    BY <2>2
  <2> QED
    BY <1>3, <2>1, <2>2, <2>3
<1>7. CASE WalkEnds
  <2>1. /\ index' \in [Folder -> {"none", "present", "missing"}]
        /\ since' \in [Folder -> Day \cup {Never}]
        /\ batch' = NoBatch /\ saved' = cursor
        /\ batch' \in [{"added", "returned", "missing"} -> SUBSET Folder]
    BY <1>7, PersistTypes, NoBatchType DEF WalkEnds
  <2>2. TypeOK'
    <3>1. saved' \in Cursor' /\ cursor' \in Cursor' /\ scope' \in 1 .. Len(scopes') + 1
      BY <1>0, <1>7, <2>1 DEF WalkEnds, Cursor
    <3> QED
      BY <1>7, <2>1, <3>1 DEF WalkEnds, TypeOK, host, history
  <2>3. phase = "walk" /\ phase' = "check" /\ UNCHANGED <<state, scopes, scope, cursor, skipped, marks>>
    BY <1>7 DEF WalkEnds, history
  <2>4. marks' = {}
    BY <2>3 DEF Bearings
  <2>5. Bearings'
    BY <2>1, <2>3, <2>4 DEF Bearings, Walking
  <2> QED
    BY <2>2, <2>5
<1>8. CASE MissScope
  <2>1. scope \in DOMAIN scopes
    BY <1>8 DEF MissScope, Bearings
  <2> QED
    BY <1>3, <1>8, <2>1 DEF MissScope, Bearings, row, store
<1>9. CASE PassScope
  <2>1. scope \in DOMAIN scopes /\ AfterScope(scope) \in Cursor
    BY <1>0, <1>9 DEF PassScope, Bearings, AfterScope, Cursor
  <2>2. /\ saved' = AfterScope(scope) /\ cursor' = AfterScope(scope) /\ scope' = scope + 1
        /\ phase' = "scope" /\ scope' \in 1 .. Len(scopes) + 1 /\ cursor'.index = scope'
    BY <1>0, <1>9, <2>1 DEF PassScope, NextScope, AfterScope
  <2>3. looked' \in [Root -> Day \cup {Never}]
    BY <1>9 DEF PassScope, TypeOK
  <2>4. TypeOK'
    BY <1>9, <2>1, <2>2, <2>3 DEF PassScope, TypeOK, Cursor, host, store
  <2>5. \A k \in DOMAIN scopes' : ~(cursor'.index <= k /\ k < scope')
    BY <1>0, <1>9, <2>2 DEF PassScope
  <2>6. state' = "running" /\ batch' = NoBatch /\ marks' = {} /\ cursor'.index <= scope'
    BY <1>0, <1>9, <2>2 DEF PassScope, Bearings
  <2>7. Bearings'
    BY <2>2, <2>5, <2>6 DEF Bearings, Walking
  <2> QED
    BY <2>4, <2>7
<1>10. ASSUME Forget, UNCHANGED <<index, since, scopes, began, saved, disturbed, gone, flapped,
                                  skipped, looked>>,
              walkedAt' \in [Root -> Day \cup {Never}], mistaken' \subseteq Root,
              day' = day, mounted' = mounted, files' = files, changes' = changes,
              stops' \in 0 .. MaxStops,
              state' \in {"none", "running", "completed", "suspended"}
       PROVE  Shape'
  <2>1. /\ Idle' /\ phase' = "idle" /\ resume' \subseteq Path /\ stack' \subseteq Path
        /\ listing' \in [path : Path, file : BOOLEAN, folders : SUBSET Path]
        /\ marks' \subseteq Folder /\ batch' \in [{"added", "returned", "missing"} -> SUBSET Folder]
        /\ cursor' = Start /\ scope' = 1 /\ unanswered' = {}
    BY <1>10, ForgetTypes
  <2>2. cursor' \in Cursor' /\ saved' \in Cursor' /\ scope' \in 1 .. Len(scopes') + 1
    BY <1>0, <1>10, <2>1 DEF Cursor, Start
  <2>3. TypeOK'
    BY <1>10, <2>1, <2>2 DEF TypeOK
  <2>4. Bearings'
    BY <1>0, <1>10, <2>1 DEF Bearings, Walking, Start
  <2> QED
    BY <2>3, <2>4
<1>11. CASE EndScan
  <2>1. /\ walkedAt' \in [Root -> Day \cup {Never}]
        /\ state' \in {"none", "running", "completed", "suspended"}
    BY <1>11 DEF EndScan, TypeOK
  <2>2. mistaken' \subseteq Root
    BY <1>11, ScopesOfAScan DEF EndScan, TypeOK
  <2> QED
    BY <1>10, <1>11, <2>1, <2>2 DEF EndScan, TypeOK, host
<1>12. CASE Halt \/ StoreFails
  <2>1. stops' \in 0 .. MaxStops
    BY <1>12, Constants DEF Halt, StoreFails, TypeOK
  <2> QED
    BY <1>10, <1>12, <2>1 DEF Halt, StoreFails, TypeOK, row, store, history
<1> QED
  BY <1>1, <1>2, <1>4, <1>5, <1>6, <1>7, <1>8, <1>9, <1>11, <1>12 DEF ScanStep

(* Nothing the host or the sweep does touches the scan or its row.         *)
LEMMA HostFrame ==
  ASSUME HostStep
  PROVE  UNCHANGED <<row, walkedAt, memory, skipped, looked, mistaken>>
<1>1. Sweep => UNCHANGED <<row, walkedAt, memory, skipped, looked, mistaken>>
  BY DEF Sweep
<1>2. FileComes \/ FileGoes \/ Unmount \/ Mount \/ Tomorrow =>
          UNCHANGED <<row, walkedAt, memory, skipped, looked, mistaken>>
  BY DEF FileComes, FileGoes, Unmount, Mount, Tomorrow, store, history
<1> QED
  BY <1>1, <1>2 DEF HostStep

(* So does a step of the disk, of the clock, of the process or the sweep.  *)
LEMMA ShapeHosts ==
  ASSUME Shape, HostStep
  PROVE  Shape'
<1>0. /\ UNCHANGED <<state, scopes, began, saved, walkedAt, phase, cursor, scope, resume, stack>>
      /\ UNCHANGED <<listing, marks, batch, unanswered, skipped, looked, mistaken>>
  BY HostFrame DEF row, memory
<1>1. Bearings'
  <2>1. Idle' = Idle /\ InHand(listing.path)' = InHand(listing.path)
    BY <1>0 DEF Idle, InHand, TheRoot
  <2> QED
    BY <1>0, <2>1 DEF Shape, Bearings
<1>2. CASE Sweep
  <2>1. /\ index' \in [Folder -> {"none", "present", "missing"}]
        /\ since' \in [Folder -> Day \cup {Never}] /\ disturbed' \subseteq Folder
    BY <1>2 DEF Sweep, Shape, TypeOK
  <2> QED
    BY <1>0, <1>1, <1>2, <2>1 DEF Sweep, Shape, TypeOK, Cursor, Idle, host
<1>3. CASE FileComes
  <2>1. files' \subseteq Folder /\ disturbed' \subseteq Folder /\ changes' \in 0 .. MaxChanges
    BY <1>3, Constants DEF FileComes, ChangeWith, MayChange, Shape, TypeOK
  <2> QED
    BY <1>0, <1>1, <1>3, <2>1 DEF FileComes, Shape, TypeOK, Cursor, Idle, store
<1>4. CASE FileGoes
  <2>1. /\ files' \subseteq Folder /\ disturbed' \subseteq Folder /\ changes' \in 0 .. MaxChanges
        /\ gone' \subseteq Folder
    BY <1>4, Constants DEF FileGoes, ChangeWith, MayChange, Shape, TypeOK
  <2> QED
    BY <1>0, <1>1, <1>4, <2>1 DEF FileGoes, Shape, TypeOK, Cursor, Idle, store
<1>5. CASE Unmount
  <2>1. mounted' \subseteq Root /\ disturbed' \subseteq Folder /\ changes' \in 0 .. MaxChanges
    BY <1>5, Constants DEF Unmount, MayChange, Shape, TypeOK
  <2> QED
    BY <1>0, <1>1, <1>5, <2>1 DEF Unmount, Shape, TypeOK, Cursor, Idle, store
<1>6. CASE Mount
  <2>1. mounted' \subseteq Root /\ flapped' \subseteq Root /\ changes' \in 0 .. MaxChanges
    BY <1>6, Constants DEF Mount, MayChange, Shape, TypeOK
  <2> QED
    BY <1>0, <1>1, <1>6, <2>1 DEF Mount, Shape, TypeOK, Cursor, Idle, store
<1>7. CASE Tomorrow
  <2>1. day' \in Day
    BY <1>7, Constants DEF Tomorrow, Shape, TypeOK, Day
  <2> QED
    BY <1>0, <1>1, <1>7, <2>1 DEF Tomorrow, Shape, TypeOK, Cursor, Idle, store, history
<1> QED
  BY <1>2, <1>3, <1>4, <1>5, <1>6, <1>7 DEF HostStep

(* Nothing changes when nothing does.                                      *)
LEMMA ShapeStutters ==
  ASSUME Shape, UNCHANGED vars
  PROVE  Shape'
  BY DEF Shape, TypeOK, Bearings, Idle, InHand, TheRoot, Cursor, vars, host, row, store, memory, history

(* Every step keeps the types, and the cursor and the batch in place.      *)
LEMMA ShapeStep == Shape /\ [Next]_vars => Shape'
  BY ShapeWalks, ShapeScans, ShapeHosts, ShapeStutters, Steps

(* Type correctness of the host, the index, the row and the scan, and the  *)
(* place of the cursor: it is never past the scope in hand, and between it *)
(* and that scope are only skipped ones (run_scan, Writer).                *)
THEOREM ScanShape == Spec => []Shape
<1>1. Init => Shape
  BY ShapeStarts
<1>2. Shape /\ [Next]_vars => Shape'
  BY ShapeStep
<1> QED
  BY <1>1, <1>2, PTL DEF Spec

-----------------------------------------------------------------------------
(***************************************************************************)
(* The dates.                                                              *)
(***************************************************************************)
(* At first nothing is missing, and no root was walked.                    *)
LEMMA DatesStart == Init => Dates
<1> SUFFICES ASSUME Init PROVE Dates
  OBVIOUS
<1>1. DOMAIN scopes = {} /\ began = 0 /\ day = 1 /\ \A r \in Root : walkedAt[r] = 0 /\ looked[r] = 0
  BY DEF Init, Never
<1> QED
  BY <1>1 DEF Dates

(* A root is told walked by a walk alone, and a missing track by its day.  *)
LEMMA DatesStep ==
  ASSUME Shape, Dates, [Next]_vars
  PROVE  Dates'
<1> USE DEF Shape
<1>0. /\ scopes \in Seq(Scope) /\ Len(scopes) \in Nat /\ DOMAIN scopes = 1 .. Len(scopes)
      /\ scope \in Nat /\ scope >= 1 /\ scope <= Len(scopes) + 1
      /\ \A c \in Cursor : c.index \in Nat /\ c.index >= 1 /\ c.index <= Len(scopes) + 1
      /\ cursor \in Cursor /\ saved \in Cursor
      /\ \A k \in DOMAIN scopes : scopes[k].root \in Root
      /\ day \in Nat /\ began \in Nat
      /\ \A r \in Root : walkedAt[r] \in Nat /\ looked[r] \in Nat
  BY ScopesOfAScan DEF TypeOK, Day, Never
<1>1. ASSUME UNCHANGED <<scopes, began, walkedAt, looked>>, day <= day', skipped \subseteq skipped',
             mistaken \subseteq mistaken',
             \A k \in DOMAIN scopes \ skipped' :
                 k < scope' \/ k < saved'.index => k < scope \/ k < saved.index
      PROVE  Dates'
  <2>1. day' \in Nat
    BY <1>0, ShapeStep DEF TypeOK, Day
  <2>2. began' <= day'
    BY <1>0, <1>1, <2>1 DEF Dates
  <2>3. \A r \in Root : /\ walkedAt'[r] <= began' /\ looked'[r] <= began'
                        /\ walkedAt'[r] <= looked'[r] \/ r \in mistaken'
    BY <1>1 DEF Dates
  <2>4. ASSUME NEW k \in DOMAIN scopes' \ skipped', k < scope' \/ k < saved'.index,
               IsWholeRoot(scopes'[k])
        PROVE  looked'[scopes'[k].root] = began'
    BY <1>1, <2>4 DEF Dates
  <2> QED
    BY <2>2, <2>3, <2>4 DEF Dates
<1>2. CASE WalkStep
  <2>1. UNCHANGED <<scopes, began, walkedAt, looked, day, skipped, mistaken, scope>>
    BY <1>2 DEF WalkStep, PassFolder, DescendOnly, ListFolder, ReadFolder, Reconcile, Mark,
                FolderDone, Flush, host, row, store, history
  <2>2. saved' = saved \/ (saved' = cursor /\ phase # "idle")
    BY <1>2 DEF WalkStep, PassFolder, DescendOnly, ListFolder, ReadFolder, Reconcile, Mark,
                FolderDone, Flush, Persist, CursorToSave, row
  <2>3. ASSUME NEW k \in DOMAIN scopes, k < saved'.index PROVE k < scope \/ k < saved.index
    <3>1. k \in Nat /\ saved.index \in Nat /\ cursor.index \in Nat
      BY <1>0, <2>3
    <3>2. CASE saved' = saved
      BY <2>3, <3>2
    <3>3. CASE saved' = cursor /\ cursor.index <= scope
      BY <1>0, <2>3, <3>1, <3>3
    <3> QED
      BY <2>2, <3>2, <3>3 DEF Bearings
  <2> QED
    BY <1>0, <1>1, <2>1, <2>3
<1>3. CASE HostStep
  <2>1. UNCHANGED <<scopes, began, walkedAt, looked, skipped, mistaken, scope, saved>>
    BY <1>3, HostFrame DEF row, memory
  <2>2. day <= day'
    BY <1>0, <1>3 DEF HostStep, Sweep, FileComes, FileGoes, Unmount, Mount, Tomorrow, host
  <2> QED
    BY <1>1, <2>1, <2>2
<1>4. ASSUME NEW S \in NewScans, Begin(S) PROVE Dates'
  <2>1. /\ scopes' = S /\ saved'.index = 1 /\ scope' = 1 /\ began' = day /\ day' = day
        /\ UNCHANGED <<walkedAt, looked, mistaken>>
    BY <1>4 DEF Begin, Start, Bearings, Idle, host, store
  <2>2. DOMAIN scopes' = 1 .. Len(scopes')
    BY <2>1, Constants
  <2>3. \A k \in DOMAIN scopes' : ~(k < scope' \/ k < saved'.index)
    BY <2>1, <2>2
  <2>4. \A r \in Root : walkedAt[r] <= day /\ looked[r] <= day
    BY <1>0 DEF Dates
  <2> QED
    BY <1>0, <2>1, <2>3, <2>4 DEF Dates
<1>5. CASE Resume \/ WalkScope \/ Halt \/ StoreFails
  <2>1. UNCHANGED <<scopes, began, walkedAt, looked, day, skipped, mistaken, saved>>
    BY <1>5 DEF Resume, WalkScope, Halt, StoreFails, host, row, store, history
  <2>2. scope' \in {scope, saved.index, 1}
    BY <1>5 DEF Resume, WalkScope, Halt, StoreFails, Forget
  <2>3. ASSUME NEW k \in DOMAIN scopes, k < scope' \/ k < saved'.index
        PROVE  k < scope \/ k < saved.index
    BY <1>0, <2>1, <2>2, <2>3
  <2> QED
    BY <1>0, <1>1, <2>1, <2>3
<1>6. CASE SkipScope \/ RootLeft \/ MissScope \/ WalkEnds
  <2>1. UNCHANGED <<scopes, began, walkedAt, looked, day, mistaken>>
    BY <1>6 DEF SkipScope, RootLeft, MissScope, WalkEnds, host, row, store, history
  <2>2. \/ scope' = scope /\ skipped' = skipped
        \/ scope' = scope + 1 /\ skipped' = skipped \cup {scope}
    BY <1>6 DEF SkipScope, RootLeft, MissScope, WalkEnds, LeaveScope, NextScope, history
  <2>3. saved' = saved \/ (saved' = cursor /\ phase # "idle")
    BY <1>6 DEF SkipScope, RootLeft, MissScope, WalkEnds, Persist, row
  <2>4. ASSUME NEW k \in DOMAIN scopes \ skipped', k < scope' \/ k < saved'.index
        PROVE  k < scope \/ k < saved.index
    <3>1. saved'.index = saved.index \/ saved'.index <= scope
      BY <2>3 DEF Bearings
    <3>2. k < scope' => k < scope
      BY <1>0, <2>2, <2>4
    <3>3. k \in Nat /\ saved.index \in Nat /\ saved'.index \in Nat
      BY <1>0, <2>3, <2>4
    <3> QED
      BY <1>0, <2>4, <3>1, <3>2, <3>3
  <2> QED
    BY <1>0, <1>1, <2>1, <2>2, <2>4
<1>7. CASE PassScope
  <2>1. /\ UNCHANGED <<scopes, began, walkedAt, day, mistaken, skipped>>
        /\ scope' = scope + 1 /\ saved'.index = scope + 1 /\ scope \in DOMAIN scopes
        /\ TheRoot = scopes[scope].root
        /\ looked' = IF IsWholeRoot(scopes[scope]) THEN [looked EXCEPT ![TheRoot] = began] ELSE looked
    BY <1>7 DEF PassScope, NextScope, AfterScope, Bearings, Walking, TheRoot, host, store
  <2>2. looked \in [Root -> Day \cup {Never}]
    BY DEF TypeOK
  <2>3. \A r \in Root : looked'[r] = looked[r] \/ looked'[r] = began
    BY <2>1, <2>2
  <2>4. began' <= day'
    BY <2>1 DEF Dates
  <2>5. \A r \in Root : /\ walkedAt'[r] <= began' /\ looked'[r] <= began'
                        /\ walkedAt'[r] <= looked'[r] \/ r \in mistaken'
    BY <1>0, <2>1, <2>3 DEF Dates
  <2>6. ASSUME NEW k \in DOMAIN scopes' \ skipped', k < scope' \/ k < saved'.index,
               IsWholeRoot(scopes'[k])
        PROVE  looked'[scopes'[k].root] = began'
    <3>1. k \in DOMAIN scopes \ skipped /\ (k < scope \/ k = scope) /\ scopes[k].root \in Root
      BY <1>0, <2>1, <2>6
    <3>2. CASE k < scope
      BY <2>1, <2>3, <2>6, <3>1, <3>2 DEF Dates
    <3>3. CASE k = scope
      BY <2>1, <2>2, <2>6, <3>1, <3>3
    <3> QED
      BY <3>1, <3>2, <3>3
  <2> QED
    BY <2>4, <2>5, <2>6 DEF Dates
<1>8. CASE EndScan
  <2>1. /\ UNCHANGED <<scopes, began, looked, day, skipped, saved>> /\ scope > Len(scopes)
        /\ scope' = 1 /\ mistaken \subseteq mistaken'
        /\ \A r \in Root : \/ walkedAt'[r] = walkedAt[r]
                           \/ /\ walkedAt'[r] = began /\ r \in WholeRoots(scopes)
                              /\ \A k \in skipped : scopes[k].root \in mistaken'
    BY <1>8 DEF EndScan, Forget, host
  <2>2. began' <= day'
    BY <2>1 DEF Dates
  <2>3. ASSUME NEW r \in Root
        PROVE  /\ walkedAt'[r] <= began' /\ looked'[r] <= began'
               /\ walkedAt'[r] <= looked'[r] \/ r \in mistaken'
    <3>1. CASE walkedAt'[r] = walkedAt[r]
      BY <2>1, <3>1 DEF Dates
    <3>2. ASSUME walkedAt'[r] = began, r \in WholeRoots(scopes),
                 \A k \in skipped : scopes[k].root \in mistaken'
          PROVE  /\ walkedAt'[r] <= began' /\ looked'[r] <= began'
                 /\ walkedAt'[r] <= looked'[r] \/ r \in mistaken'
      <4>1. PICK k \in DOMAIN scopes : IsWholeRoot(scopes[k]) /\ r = scopes[k].root
        BY <3>2 DEF WholeRoots
      <4>2. k < scope
        BY <1>0, <2>1
      <4>3. k \notin skipped => looked[r] = began
        BY <4>1, <4>2 DEF Dates
      <4>4. looked[r] <= began
        BY DEF Dates
      <4> QED
        BY <1>0, <2>1, <3>2, <4>1, <4>3, <4>4
    <3> QED
      BY <2>1, <3>1, <3>2
  <2>4. \A k \in DOMAIN scopes : k < scope
    BY <1>0, <2>1
  <2>5. \A k \in DOMAIN scopes' \ skipped' :
            IsWholeRoot(scopes'[k]) => looked'[scopes'[k].root] = began'
    BY <2>1, <2>4 DEF Dates
  <2> QED
    BY <2>2, <2>3, <2>5 DEF Dates
<1>9. CASE UNCHANGED vars
  BY <1>9 DEF vars, host, row, store, memory, history, Dates
<1> QED
  BY <1>2, <1>3, <1>4, <1>5, <1>6, <1>7, <1>8, <1>9, Steps DEF ScanStep

(* A root is taken for walked on a day only if a scan that began that day  *)
(* walked it whole, or skipped it before it was resumed (Scans::save).     *)
THEOREM ScanDates == Spec => []Dates
<1>1. Init => Dates
  BY DatesStart
<1>2. Shape /\ Dates /\ [Next]_vars => Dates'
  BY DatesStep
<1> QED
  BY <1>1, <1>2, ScanShape, PTL DEF Spec

(* Only a flush and the sweep change the index.                            *)
LEMMA IndexSteps ==
  ASSUME [Next]_vars
  PROVE  Sweep \/ (\E c : Persist(c)) \/ index' = index
<1>1. Flush \/ RootLeft \/ WalkEnds => \E c : Persist(c)
  BY DEF Flush, RootLeft, WalkEnds
<1>2. (WalkStep /\ ~Flush) => index' = index
  BY DEF WalkStep, PassFolder, DescendOnly, ListFolder, ReadFolder, Reconcile, Mark, FolderDone, store
<1>3. (ScanStep /\ ~RootLeft /\ ~WalkEnds) => index' = index
  BY DEF ScanStep, Begin, Resume, SkipScope, WalkScope, MissScope, PassScope, EndScan, Halt,
         StoreFails, store
<1>4. (HostStep /\ ~Sweep) => index' = index
  BY DEF HostStep, FileComes, FileGoes, Unmount, Mount, Tomorrow, store
<1>5. UNCHANGED vars => index' = index
  BY DEF vars, store
<1> QED
  BY <1>1, <1>2, <1>3, <1>4, <1>5, Steps

(* A flush drops no track.                                                 *)
LEMMA OnlyTheSweepPurges ==
  ASSUME Shape, [Next]_vars, NEW f \in Folder, Purged(f)
  PROVE  Purgeable(f)
<1>1. CASE Sweep
  <2>1. PICK g \in Folder : Purgeable(g) /\ index' = [index EXCEPT ![g] = "none"]
    BY <1>1 DEF Sweep
  <2>2. index[f] = "missing" /\ index'[f] = "none" /\ index \in [Folder -> {"none", "present", "missing"}]
    BY DEF Purged, Shape, TypeOK
  <2>3. f = g
    BY <2>1, <2>2
  <2> QED
    BY <2>1, <2>3
<1>2. ASSUME NEW c, Persist(c) PROVE FALSE
  <2>1. index'[f] = Applied(f)
    BY <1>2 DEF Persist
  <2> QED
    BY <2>1 DEF Purged, Applied
<1>3. CASE index' = index
  BY <1>3 DEF Purged
<1> QED
  BY <1>1, <1>2, <1>3, IndexSteps

(* A track is purged only after a walk of its root that began when its     *)
(* window was up, or by the mistake of a resumed scan (db/retention).      *)
THEOREM PurgesFollowAWalk == Spec => PurgedAfterWalkOrMistake
<1>1. ASSUME Shape, Dates, [Next]_vars, NEW f \in Folder, Purged(f)
      PROVE  since[f] + Window < looked[f.root] \/ f.root \in mistaken
  <2>1. Purgeable(f)
    BY <1>1, OnlyTheSweepPurges
  <2>2. f.root \in Root
    BY Constants
  <2>3. /\ walkedAt[f.root] <= looked[f.root] \/ f.root \in mistaken
        /\ walkedAt[f.root] \in Nat /\ looked[f.root] \in Nat
        /\ since[f] \in Nat /\ Window \in Nat
    <3>1. walkedAt[f.root] <= looked[f.root] \/ f.root \in mistaken
      BY <1>1, <2>2 DEF Dates
    <3>2. walkedAt[f.root] \in Nat /\ looked[f.root] \in Nat
      BY <1>1, <2>2 DEF Shape, TypeOK, Day, Never
    <3>3. since[f] \in Nat
      BY <1>1 DEF Shape, TypeOK, Day, Never
    <3> QED
      BY <3>1, <3>2, <3>3, Constants
  <2> QED
    BY <2>1, <2>3 DEF Purgeable
<1>2. Shape /\ Dates /\ [Next]_vars =>
          [\A f \in Folder : Purged(f) => \/ since[f] + Window < looked[f.root]
                                          \/ f.root \in mistaken]_vars
  BY <1>1
<1> QED
  BY <1>2, ScanShape, ScanDates, PTL DEF Spec, PurgedAfterWalkOrMistake


-----------------------------------------------------------------------------
(***************************************************************************)
(* What is marked missing.                                                 *)
(***************************************************************************)
(* At first nothing is marked, and nothing has dropped.                    *)
LEMMA ExcusesStart == Init => Excuses
  BY DEF Init, Idle, Excuses, NoBatch

(* A folder that has not gone, of a root that is mounted, is seen.         *)
LEMMA UnexcusedIsShown ==
  ASSUME Shape, Excuses, phase # "idle", NEW f \in Folder, f.root = TheRoot, ~Excused(f)
  PROVE  f \in Shown(TheRoot) /\ \A p \in Path : f.path = p => InHand(p) = f
<1>1. f \in files /\ TheRoot \in mounted
  BY DEF Excuses, Excused, Settled, Shape, Bearings
<1>2. f = [root |-> f.root, path |-> f.path]
  BY Constants
<1> QED
  BY <1>1, <1>2 DEF Shown, InHand

(* A step of the walk notes as missing what it was shown to be.            *)
LEMMA ExcusesWalk ==
  ASSUME Shape, Excuses, WalkStep
  PROVE  Excuses'
<1>0. /\ phase \in {"walk", "listed", "read", "mark"} /\ state = "running"
      /\ UNCHANGED <<mounted, files, state, scopes, scope, gone, flapped>>
  BY DEF WalkStep, PassFolder, Visiting, DescendOnly, ListFolder, ReadFolder, Reconcile, Mark,
         FolderDone, Flush, Persist, host, row, store, history, Bearings, Shape
<1>1. /\ Folder \ files' \subseteq gone' /\ TheRoot' = TheRoot
      /\ \A f : (Settled(f)' <=> Settled(f)) /\ (Excused(f)' <=> Excused(f))
  BY <1>0 DEF Excuses, TheRoot, Settled, Excused
<1>2. ASSUME NEW p \in Path, PassFolder(p) \/ DescendOnly(p) PROVE Excuses'
  <2>1. phase' = "walk" /\ batch' = batch
    BY <1>2 DEF PassFolder, DescendOnly, Visiting
  <2> QED
    BY <1>1, <2>1 DEF Excuses
<1>3. ASSUME NEW p \in Path, ListFolder(p) PROVE Excuses'
  <2>1. /\ phase' = "listed" /\ batch' = batch /\ listing'.path = p
        /\ listing'.file = (InHand(p) \in Shown(TheRoot))
        /\ listing'.folders = Children(p, Shown(TheRoot))
    BY <1>3 DEF ListFolder
  <2>2. ASSUME NEW f \in Folder, f.root = TheRoot, ~Excused(f)
        PROVE  /\ f.path = p => listing'.file
               /\ \A q \in Path : ChildOf(q, p) /\ StartsWith(f.path, q) => q \in listing'.folders
    <3>1. f \in Shown(TheRoot) /\ (f.path = p => InHand(p) = f)
      BY <1>0, <2>2, UnexcusedIsShown
    <3> QED
      BY <2>1, <2>2, <3>1 DEF Children, Within, ChildOf
  <2>3. \A f \in Folder : (f.root = TheRoot' /\ ~Excused(f)') =>
              /\ f.path = listing'.path => listing'.file
              /\ \A q \in Path : ChildOf(q, listing'.path) /\ StartsWith(f.path, q) => q \in listing'.folders
    BY <1>1, <2>1, <2>2
  <2> QED
    BY <1>1, <2>1, <2>3 DEF Excuses
<1>4. CASE ReadFolder
  <2>1. /\ phase = "listed" /\ batch'.missing = batch.missing /\ marks' = NoLongerListed
        /\ phase' = "read" \/ (phase' = "mark" /\ marks' = {})
    BY <1>4 DEF ReadFolder, FileFound, Shape, TypeOK
  <2>2. ASSUME NEW f \in NoLongerListed PROVE f.root = TheRoot /\ Excused(f)
    <3>1. f \in Folder /\ f.root = TheRoot
      BY DEF NoLongerListed, Known
    <3>2. CASE f.path = listing.path /\ ~listing.file
      BY <2>1, <3>1, <3>2 DEF Excuses
    <3>3. ASSUME NEW q \in Vanished, StartsWith(f.path, q) PROVE Excused(f)
      <4>1. q \in Path /\ ChildOf(q, listing.path) /\ q \notin listing.folders
        BY DEF Vanished, Children, ChildOf
      <4> QED
        BY <2>1, <3>1, <3>3, <4>1 DEF Excuses
    <3> QED
      BY <3>1, <3>2, <3>3 DEF NoLongerListed
  <2> QED
    BY <1>1, <2>1, <2>2 DEF Excuses
<1>5. CASE Reconcile
  <2>1. /\ phase = "read" /\ batch' = batch /\ marks' = marks
        /\ phase' = "left" \/ (phase' = "mark" /\ Answers(TheRoot))
    BY <1>5 DEF Reconcile, MayMark
  <2>2. Answers(TheRoot) => TheRoot \in mounted
    BY DEF Answers, Shown
  <2>3. phase' = "mark" => \A f \in marks : Settled(f)
    BY <2>1, <2>2 DEF Excuses, Excused
  <2> QED
    BY <1>1, <2>1, <2>3 DEF Excuses
<1>6. CASE Mark
  <2>1. PICK f \in marks : Mark!(f)
    BY <1>6 DEF Mark
  <2>2. /\ phase = "mark" /\ phase' = "mark" /\ marks' = marks \ {f}
        /\ batch'.missing = batch.missing \cup {f} /\ Settled(f)
    BY <2>1 DEF Excuses, Shape, TypeOK
  <2> QED
    BY <1>1, <2>2 DEF Excuses
<1>7. CASE FolderDone
  <2>1. phase' = "walk" /\ batch' = batch
    BY <1>7 DEF FolderDone
  <2> QED
    BY <1>1, <2>1 DEF Excuses
<1>8. CASE Flush
  <2>1. /\ phase \in {"walk", "listed", "mark"} /\ batch'.missing = {}
        /\ UNCHANGED <<phase, listing, marks>>
    BY <1>8 DEF Flush, Persist, NoBatch
  <2> QED
    BY <1>1, <2>1 DEF Excuses
<1> QED
  BY <1>2, <1>3, <1>4, <1>5, <1>6, <1>7, <1>8 DEF WalkStep

(* Between walks nothing is noted, and a failed scan keeps no batch.       *)
LEMMA ExcusesScan ==
  ASSUME Shape, Excuses, ScanStep
  PROVE  Excuses'
<1>1. phase' \in {"idle", "scope", "walk", "check"} /\ UNCHANGED <<mounted, files>>
  BY DEF ScanStep, Begin, Resume, SkipScope, WalkScope, RootLeft, WalkEnds, MissScope, PassScope,
         EndScan, Halt, StoreFails, LeaveScope, NextScope, Forget, host
<1>2. ASSUME NEW S \in NewScans, Begin(S) PROVE Excuses'
  <2>1. gone' = Folder \ files /\ batch' = NoBatch
    BY <1>2 DEF Begin, Shape, Bearings, Idle
  <2> QED
    BY <1>1, <2>1 DEF Excuses, NoBatch
<1>3. ASSUME \A S \in NewScans : ~Begin(S) PROVE Excuses'
  <2>1. UNCHANGED <<gone, flapped>> /\ (state' = "running" => state = "running")
    BY <1>3 DEF ScanStep, Resume, SkipScope, WalkScope, RootLeft, WalkEnds, MissScope, PassScope,
                EndScan, Halt, StoreFails, row, history
  <2>2. batch' = batch \/ batch' = NoBatch
    BY <1>3 DEF ScanStep, Resume, SkipScope, WalkScope, RootLeft, WalkEnds, MissScope, PassScope,
                EndScan, Halt, StoreFails, Forget, Persist
  <2>3. \A f : Settled(f)' <=> Settled(f)
    BY <2>1 DEF Settled
  <2> QED
    BY <1>1, <2>1, <2>2, <2>3 DEF Excuses, NoBatch
<1> QED
  BY <1>2, <1>3

(* What drops, comes or goes on the disk adds excuses, and takes none.     *)
LEMMA ExcusesHost ==
  ASSUME Shape, Excuses, HostStep
  PROVE  Excuses'
<1>1. UNCHANGED <<state, scopes, scope, phase, listing, marks, batch>>
  BY HostFrame DEF row, memory
<1>2. gone \subseteq gone' /\ flapped \subseteq flapped' /\ Folder \ files' \subseteq gone' \cup (Folder \ files)
  BY DEF HostStep, Sweep, FileComes, FileGoes, Unmount, Mount, Tomorrow, host, history
<1>3. phase \in {"listed", "read"} => \A f \in Folder : f.root = TheRoot /\ Excused(f) => Excused(f)'
  <2>1. CASE Mount
    <3>1. PICK r \in Root \ mounted : Mount!(r)
      BY <2>1 DEF Mount
    <3> QED
      BY <1>2, <3>1 DEF Excused, Settled
  <2>2. ~Mount => mounted' \subseteq mounted
    BY DEF HostStep, Sweep, FileComes, FileGoes, Unmount, Tomorrow, host
  <2> QED
    BY <1>2, <2>1, <2>2 DEF Excused, Settled
<1>4. TheRoot' = TheRoot /\ \A f : Settled(f) => Settled(f)'
  BY <1>1, <1>2 DEF TheRoot, Settled
<1>5. state' = "running" => Folder \ files' \subseteq gone'
  BY <1>1, <1>2 DEF Excuses
<1>6. \A f \in batch'.missing : Settled(f)'
  BY <1>1, <1>4 DEF Excuses
<1>7. marks \subseteq Folder
  BY DEF Shape, TypeOK
<1>8. phase' = "listed" => \A f \in Folder : (f.root = TheRoot' /\ ~Excused(f)') =>
              /\ f.path = listing'.path => listing'.file
              /\ \A q \in Path : ChildOf(q, listing'.path) /\ StartsWith(f.path, q) => q \in listing'.folders
  BY <1>1, <1>3, <1>4 DEF Excuses
<1>9. /\ phase' = "read" => \A f \in marks' : f.root = TheRoot' /\ Excused(f)'
      /\ phase' = "mark" => \A f \in marks' : Settled(f)'
  BY <1>1, <1>3, <1>4, <1>7 DEF Excuses
<1> QED
  BY <1>5, <1>6, <1>8, <1>9 DEF Excuses

(* Every step keeps that what is marked is excused.                        *)
LEMMA ExcusesStep == Shape /\ Excuses /\ [Next]_vars => Excuses'
<1>1. ASSUME Excuses, UNCHANGED vars PROVE Excuses'
  BY <1>1 DEF Excuses, TheRoot, Settled, Excused, vars, host, row, store, memory, history
<1> QED
  BY <1>1, ExcusesWalk, ExcusesScan, ExcusesHost, Steps

(* Whatever a scan is to mark missing has been off the disk since it       *)
(* began, or its root was mounted again in the middle of its folder        *)
(* (process_directory, root_answers).                                      *)
THEOREM MarksAreExcused == Spec => []Excuses
<1>1. Init => Excuses
  BY ExcusesStart
<1> QED
  BY <1>1, ExcusesStep, ScanShape, PTL DEF Spec

(* Only a flush changes what the index has of a track that it does not     *)
(* drop.                                                                   *)
LEMMA OnlyAFlushMarks ==
  ASSUME Shape, [Next]_vars, NEW f \in Folder, index'[f] # index[f], index'[f] # "none"
  PROVE  index'[f] = Applied(f)
<1>1. CASE Sweep
  <2>1. PICK g \in Folder : index' = [index EXCEPT ![g] = "none"]
    BY <1>1 DEF Sweep
  <2> QED
    BY <2>1 DEF Shape, TypeOK
<1>2. ASSUME \E c : Persist(c) PROVE index'[f] = Applied(f)
  BY <1>2 DEF Persist
<1> QED
  BY <1>1, <1>2, IndexSteps

(* A share that drops in the middle of a walk marks none of its tracks     *)
(* missing (process_directory asks the root again before it marks).        *)
THEOREM DroppedRootsAreKept == Spec => DroppedRootsMarkNothing
<1>1. ASSUME Shape, Excuses, [Next]_vars, NEW f \in Folder \ gone,
             index[f] # "missing", index'[f] = "missing"
      PROVE  f.root \in flapped
  <2>1. Applied(f) = "missing"
    BY <1>1, OnlyAFlushMarks
  <2>2. f \in batch.missing
    BY <1>1, <2>1 DEF Applied
  <2> QED
    BY <1>1, <2>2 DEF Excuses, Settled
<1>2. Shape /\ Excuses /\ [Next]_vars =>
          [\A f \in Folder \ gone :
              (index[f] # "missing" /\ index'[f] = "missing") => f.root \in flapped]_vars
  BY <1>1
<1> QED
  BY <1>2, ScanShape, MarksAreExcused, PTL DEF Spec, DroppedRootsMarkNothing

-----------------------------------------------------------------------------
(***************************************************************************)
(* The order of the walk: a folder before those in it, and those in it in  *)
(* the order of their names (compare_components).                          *)
(***************************************************************************)
LEMMA StartsWithIt ==
  ASSUME NEW p, NEW q, Len(p) <= Len(q), \A i \in 1 .. Len(p) : q[i] = p[i]
  PROVE  StartsWith(q, p)
BY DEF StartsWith

(* What leads to a way to a folder leads to the folder.                   *)
LEMMA PrefixTransitive ==
  ASSUME NEW p \in Seq(Nat), NEW q \in Seq(Nat), NEW r \in Seq(Nat),
         StartsWith(r, q), StartsWith(q, p)
  PROVE  StartsWith(r, p)
<1>1. Len(p) \in Nat /\ Len(q) \in Nat /\ Len(r) \in Nat
  OBVIOUS
<1>2. Len(p) <= Len(q) /\ Len(q) <= Len(r)
  BY DEF StartsWith
<1>3. \A i \in 1 .. Len(p) : r[i] = p[i]
  <2>1. TAKE i \in 1 .. Len(p)
  <2>2. i \in 1 .. Len(q)
    BY <1>1, <1>2
  <2>3. r[i] = q[i] /\ q[i] = p[i]
    BY <2>2 DEF StartsWith
  <2> QED
    BY <2>3
<1>4. Len(p) <= Len(r)
  BY <1>1, <1>2
<1> QED
  BY <1>3, <1>4, StartsWithIt, Zenon

(* A folder leads to itself.                                               *)
LEMMA PrefixOfItself == \A p : Len(p) \in Nat => StartsWith(p, p)
  BY DEF StartsWith

(* Two ways to the same folder: one leads over the other.                  *)
LEMMA PrefixesNest ==
  ASSUME NEW p \in Seq(Nat), NEW q \in Seq(Nat), NEW r \in Seq(Nat),
         StartsWith(r, p), StartsWith(r, q), Len(p) <= Len(q)
  PROVE  StartsWith(q, p)
<1>1. Len(p) \in Nat /\ Len(q) \in Nat
  OBVIOUS
<1>2. ASSUME NEW i \in 1 .. Len(p) PROVE q[i] = p[i]
  <2>1. i \in 1 .. Len(q)
    BY <1>1
  <2> QED
    BY <2>1 DEF StartsWith
<1> QED
  BY <1>2 DEF StartsWith

(* A longest way is the folder itself.                                     *)
LEMMA PrefixOfItsLength ==
  ASSUME NEW p \in Seq(Nat), NEW q \in Seq(Nat), StartsWith(q, p), Len(q) <= Len(p)
  PROVE  p = q
<1>1. Len(p) = Len(q) /\ \A i \in 1 .. Len(p) : p[i] = q[i]
  BY DEF StartsWith
<1> QED
  BY <1>1, SMTT(20)

(* What leads to a folder, so far.                                         *)
LEMMA WaySoFar ==
  ASSUME NEW p \in Seq(Nat), NEW n \in 0 .. Len(p)
  PROVE  /\ SubSeq(p, 1, n) \in Seq(Nat) /\ Len(SubSeq(p, 1, n)) = n
         /\ \A i \in 1 .. n : SubSeq(p, 1, n)[i] = p[i]
  BY SMTT(20)

(* A folder comes before those in it.                                      *)
LEMMA PrefixIsBefore ==
  ASSUME NEW p, NEW q, StartsWith(q, p), p # q
  PROVE  PathBefore(p, q)
  BY DEF PathBefore

(* Where it comes before by a name, so does all below.                     *)
LEMMA LaterByAName ==
  ASSUME NEW p, NEW s, NEW r,
         Len(p) \in Nat, Len(s) \in Nat, Len(r) \in Nat, Len(s) <= Len(r),
         \A i \in 1 .. Len(p) : p[i] \in Nat,
         \A i \in 1 .. Len(s) : s[i] \in Nat /\ r[i] = s[i],
         NEW i \in 1 .. Len(p), i <= Len(s), p[i] < s[i], \A j \in 1 .. i - 1 : p[j] = s[j]
  PROVE  ~UpTo(r, p)
<1>1. i \in 1 .. Len(s) /\ i \in 1 .. Len(r) /\ r[i] = s[i] /\ p[i] \in Nat /\ s[i] \in Nat
  OBVIOUS
<1>2. r # p /\ ~StartsWith(p, r)
  <2>1. r # p
    BY <1>1
  <2>2. ASSUME StartsWith(p, r)
        PROVE  FALSE
    <3>1. p[i] = r[i]
      BY <1>1, <2>2 DEF StartsWith
    <3> QED
      BY <1>1, <3>1
  <2> QED
    BY <2>1, <2>2
<1>3. ASSUME NEW j \in 1 .. Len(r), j <= Len(p), r[j] < p[j], \A k \in 1 .. j - 1 : r[k] = p[k]
      PROVE  FALSE
  <2>1. CASE j < i
    <3>1. j \in 1 .. i - 1 /\ j \in 1 .. Len(s) /\ j \in 1 .. Len(p)
      BY <1>3, <2>1
    <3>2. r[j] = s[j] /\ p[j] = s[j] /\ s[j] \in Nat
      BY <3>1
    <3> QED
      BY <1>3, <3>2
  <2>2. CASE j = i
    BY <1>1, <1>3, <2>2
  <2>3. CASE j > i
    <3>1. i \in 1 .. j - 1
      BY <1>3, <2>3
    <3>2. r[i] = p[i]
      BY <1>3, <3>1
    <3> QED
      BY <1>1, <3>2
  <2> QED
    BY <1>3, <2>1, <2>2, <2>3
<1> QED
  BY <1>2, <1>3 DEF UpTo, PathBefore

(* Nothing below a folder comes before what the folder comes after.        *)
LEMMA BelowLaterIsLater ==
  ASSUME NEW p \in Seq(Nat), NEW s \in Seq(Nat), NEW r \in Seq(Nat),
         PathBefore(p, s), StartsWith(r, s)
  PROVE  ~UpTo(r, p)
<1>0. /\ Len(p) \in Nat /\ Len(s) \in Nat /\ Len(r) \in Nat /\ Len(s) <= Len(r)
      /\ \A i \in 1 .. Len(p) : p[i] \in Nat
      /\ \A i \in 1 .. Len(s) : s[i] \in Nat /\ r[i] = s[i]
  BY DEF StartsWith
<1>1. CASE p # s /\ StartsWith(s, p)
  <2>1. Len(p) < Len(s)
    <3>1. Len(p) <= Len(s) /\ ~(Len(s) <= Len(p))
      BY <1>1, PrefixOfItsLength DEF StartsWith
    <3> QED
      BY <1>0, <3>1
  <2>2. r # p /\ ~StartsWith(p, r)
    BY <1>0, <2>1 DEF StartsWith
  <2>3. ASSUME NEW i \in 1 .. Len(r), i <= Len(p) PROVE ~(r[i] < p[i])
    <3>1. i \in 1 .. Len(p) /\ i \in 1 .. Len(s)
      BY <1>0, <2>1, <2>3
    <3>2. r[i] = p[i] /\ p[i] \in Nat
      BY <1>0, <1>1, <3>1 DEF StartsWith
    <3> QED
      BY <3>2
  <2> QED
    BY <2>2, <2>3 DEF UpTo, PathBefore
<1>2. ASSUME NEW i \in 1 .. Len(p), i <= Len(s), p[i] < s[i], \A j \in 1 .. i - 1 : p[j] = s[j]
      PROVE  ~UpTo(r, p)
  BY <1>0, <1>2, LaterByAName
<1> QED
  BY <1>1, <1>2 DEF PathBefore

(* What is below a folder the walk was done with was done with.            *)
LEMMA BelowDoneIsDone ==
  ASSUME NEW p \in Seq(Nat), NEW c \in Seq(Nat), NEW r \in Seq(Nat),
         PathBefore(p, c), ~StartsWith(c, p), StartsWith(r, p)
  PROVE  UpTo(r, c)
<1>1. PICK i \in 1 .. Len(p) : i <= Len(c) /\ p[i] < c[i] /\ \A j \in 1 .. i - 1 : p[j] = c[j]
  BY DEF PathBefore
<1>2. Len(p) \in Nat /\ Len(r) \in Nat /\ Len(p) <= Len(r)
  BY DEF StartsWith
<1>3. i \in 1 .. Len(r) /\ r[i] = p[i]
  BY <1>2 DEF StartsWith
<1>4. ASSUME NEW j \in 1 .. i - 1 PROVE r[j] = c[j]
  <2>1. j \in 1 .. Len(p)
    BY <1>2
  <2> QED
    BY <1>1, <2>1 DEF StartsWith
<1> QED
  BY <1>1, <1>3, <1>4 DEF UpTo, PathBefore

(* The way to a folder the walk was done with was walked before it.        *)
LEMMA WayToDoneIsDone ==
  ASSUME NEW p \in Seq(Nat), NEW c \in Seq(Nat), NEW r \in Seq(Nat),
         UpTo(r, c), StartsWith(r, p)
  PROVE  UpTo(p, c)
<1>1. CASE StartsWith(c, r)
  <2>1. StartsWith(c, p)
    BY <1>1, PrefixTransitive
  <2> QED
    BY <2>1 DEF UpTo, PathBefore
<1>2. CASE r = c
  BY <1>2 DEF UpTo, PathBefore
<1>3. ASSUME NEW i \in 1 .. Len(r), i <= Len(c), r[i] < c[i], \A j \in 1 .. i - 1 : r[j] = c[j]
      PROVE  UpTo(p, c)
  <2>0. Len(p) \in Nat /\ Len(r) \in Nat /\ Len(c) \in Nat /\ \A j \in 1 .. Len(p) : r[j] = p[j]
    <3>1. Len(p) \in Nat /\ Len(r) \in Nat /\ Len(c) \in Nat
      OBVIOUS
    <3>2. \A j \in 1 .. Len(p) : r[j] = p[j]
      BY DEF StartsWith
    <3> QED
      BY <3>1, <3>2
  <2>1. CASE i <= Len(p)
    <3>1. i \in 1 .. Len(p) /\ p[i] < c[i]
      BY <1>3, <2>0, <2>1
    <3>2. ASSUME NEW j \in 1 .. i - 1 PROVE p[j] = c[j]
      <4>1. j \in 1 .. Len(p)
        BY <2>0, <2>1
      <4> QED
        BY <1>3, <2>0, <4>1
    <3> QED
      BY <1>3, <3>1, <3>2 DEF UpTo, PathBefore
  <2>2. CASE Len(p) < i
    <3>1. Len(p) <= Len(c)
      BY <1>3, <2>0, <2>2
    <3>2. ASSUME NEW j \in 1 .. Len(p) PROVE c[j] = p[j]
      <4>1. j \in 1 .. i - 1
        BY <2>0, <2>2
      <4> QED
        BY <1>3, <2>0, <4>1
    <3>3. StartsWith(c, p)
      BY <3>1, <3>2 DEF StartsWith
    <3> QED
      BY <3>3 DEF UpTo, PathBefore
  <2> QED
    BY <2>0, <2>1, <2>2
<1> QED
  BY <1>1, <1>2, <1>3 DEF UpTo, PathBefore

(* The next folder on the way from p to r.                                 *)
LEMMA NextOnTheWay ==
  ASSUME NEW p \in Path, NEW r \in Path, StartsWith(r, p), r # p
  PROVE  \E q \in Path : ChildOf(q, p) /\ StartsWith(r, q)
<1>1. p \in Seq(Nat) /\ r \in Seq(Nat) /\ Len(p) \in Nat /\ Len(r) \in Nat
  BY Constants
<1>2. Len(p) < Len(r)
  <2>1. Len(p) <= Len(r) /\ ~(Len(r) <= Len(p))
    BY <1>1, PrefixOfItsLength DEF StartsWith
  <2> QED
    BY <1>1, <2>1
<1> DEFINE n == Len(p) + 1
           q == SubSeq(r, 1, n)
<1>3. n \in 0 .. Len(r) /\ n \in Nat
  BY <1>1, <1>2
<1>4. q \in Path
  BY <1>3, PrefixAssumption DEF PrefixAssumption
<1>5. Len(q) = n /\ \A i \in 1 .. n : q[i] = r[i]
  BY <1>1, <1>3
<1>6. StartsWith(r, q)
  BY <1>3, <1>5 DEF StartsWith
<1>7. StartsWith(q, p)
  BY <1>1, <1>2, <1>5 DEF StartsWith
<1> QED
  BY <1>4, <1>5, <1>6, <1>7 DEF ChildOf

-----------------------------------------------------------------------------
(***************************************************************************)
(* What is in the index.                                                   *)
(***************************************************************************)
(* Numbers up to a bound have a greatest.                                  *)
LEMMA GreatestOfSome ==
  ASSUME NEW b \in Nat, NEW T \in SUBSET (0 .. b), T # {}
  PROVE  \E n \in T : \A m \in T : m <= n
<1> DEFINE Less == {ss \in Nat \X Nat : ss[1] < ss[2]}
           D == {d \in Nat : b - d \in T}
<1>1. OpToRel(<, Nat) = Less
  BY DEF OpToRel
<1>2. IsWellFoundedOn(Less, Nat)
  BY <1>1, NatLessThanWellFounded
<1>3. D \subseteq Nat /\ D # {}
  <2>1. PICK n \in T : n \in 0 .. b
    OBVIOUS
  <2>2. b - n \in Nat /\ b - (b - n) = n
    BY <2>1
  <2> QED
    BY <2>1, <2>2
<1>4. PICK d \in D : \A e \in D : <<e, d>> \notin Less
  <2> HIDE DEF Less, D
  <2> QED
    BY <1>2, <1>3, WFMin
<1>5. ASSUME NEW m \in T PROVE m <= b - d
  <2>1. b - m \in Nat /\ b - (b - m) = m /\ m \in Nat /\ d \in Nat
    OBVIOUS
  <2>2. b - m \in D
    BY <2>1
  <2>3. ~(b - m < d)
    BY <1>4, <2>1, <2>2
  <2> QED
    BY <2>1, <2>3
<1> QED
  BY <1>4, <1>5

(* Every folder that a scope visits is decided on somewhere on the way to  *)
(* it, at the lowest folder there is.                                      *)
LEMMA EachIsMet ==
  ASSUME NEW s \in Scope, NEW f \in Folder, Visits(s, f)
  PROVE  \E p \in Path : Meets(s, f, p)
<1>1. /\ f.path \in Path /\ s.path \in Path /\ f.path \in Seq(Nat) /\ s.path \in Seq(Nat)
      /\ Len(f.path) \in Nat /\ Len(s.path) \in Nat
  BY Constants DEF Scope
<1>2. StartsWith(f.path, s.path)
  BY <1>1 DEF Visits, StartsWith
<1> DEFINE way(n) == SubSeq(f.path, 1, n)
           T == {n \in Nat : /\ Len(s.path) <= n /\ n <= Len(f.path)
                             /\ n = Len(s.path) \/ OnDisk(f.root, way(n))}
<1>3. Len(s.path) \in T
  BY <1>1, <1>2 DEF StartsWith
<1>4. PICK n \in T : \A m \in T : m <= n
  <2>0. \A n \in T : n \in Nat /\ n <= Len(f.path)
    OBVIOUS
  <2> HIDE DEF T
  <2>1. T \in SUBSET (0 .. Len(f.path)) /\ T # {}
    BY <1>1, <1>3, <2>0
  <2> QED
    BY <1>1, <2>1, GreatestOfSome
<1> DEFINE p == way(n)
<1>5. /\ n \in 0 .. Len(f.path) /\ Len(s.path) <= n
      /\ n = Len(s.path) \/ OnDisk(f.root, p)
  BY <1>1
<1>6. p \in Path /\ p \in Seq(Nat) /\ Len(p) = n /\ \A i \in 1 .. n : p[i] = f.path[i]
  BY <1>1, <1>5, Constants, PrefixAssumption DEF PrefixAssumption
<1>7. StartsWith(f.path, p)
  BY <1>5, <1>6 DEF StartsWith
<1>8. StartsWith(p, s.path)
  BY <1>1, <1>2, <1>5, <1>6, <1>7, PrefixesNest
<1>9. p = s.path \/ OnDisk(f.root, p)
  BY <1>1, <1>5, <1>6, <1>8, PrefixOfItsLength
<1>10. ASSUME NEW q \in Path, ChildOf(q, p), StartsWith(f.path, q), OnDisk(f.root, q)
       PROVE  FALSE
  <2>1. q \in Seq(Nat) /\ Len(q) = n + 1 /\ n + 1 \in 0 .. Len(f.path)
    BY <1>1, <1>5, <1>6, <1>10, Constants DEF ChildOf, StartsWith
  <2>2. q = way(n + 1)
    <3>1. way(n + 1) \in Seq(Nat) /\ Len(way(n + 1)) = n + 1
          /\ \A i \in 1 .. n + 1 : way(n + 1)[i] = f.path[i]
      BY <1>1, <2>1, WaySoFar, Zenon
    <3>2. \A i \in 1 .. n + 1 : q[i] = f.path[i]
      BY <1>10, <2>1 DEF StartsWith
    <3> HIDE DEF way
    <3>3. Len(q) <= Len(way(n + 1)) /\ Len(way(n + 1)) <= Len(q)
      BY <2>1, <3>1
    <3>4. StartsWith(way(n + 1), q)
      BY <2>1, <3>1, <3>2, <3>3 DEF StartsWith
    <3> QED
      BY <2>1, <3>1, <3>3, <3>4, PrefixOfItsLength, Zenon
  <2>3. n + 1 \in T
    BY <1>5, <1>10, <2>1, <2>2
  <2> QED
    BY <1>4, <1>5, <2>3
<1> QED
  BY <1>6, <1>7, <1>8, <1>9, <1>10 DEF Meets

(* When what a folder below p is decided at lies below p, it is decided at *)
(* p or ahead in one of the folders p leads to (Walk::next).               *)
LEMMA WalkDescends ==
  ASSUME Shape, StillThere, scope \in DOMAIN scopes,
         NEW f \in Alone, NEW r \in Path, Decided(scopes[scope], f, r),
         NEW p \in Path, StartsWith(r, p), StartsWith(p, scopes[scope].path), r # p
  PROVE  \E q \in ToVisit(p) : StartsWith(r, q)
<1> DEFINE s == scopes[scope]
<1>1. /\ s.path \in Path /\ s.depth \in {"subtree", "directory"}
      /\ f \in Folder /\ f.path \in Path /\ s.root = TheRoot
  BY ScopesOfAScan, Constants DEF Alone, Shape, TheRoot
<1>2. /\ s.path \in Seq(Nat) /\ f.path \in Seq(Nat) /\ r \in Seq(Nat) /\ p \in Seq(Nat)
  BY <1>1, Constants
<1>3. /\ f.root = s.root /\ StartsWith(f.path, r) /\ StartsWith(r, s.path)
      /\ r = s.path \/ OnDisk(f.root, r)
  BY DEF Decided, Visits, Meets
<1>4. s.depth = "subtree"
  <2>1. ASSUME s.depth # "subtree" PROVE FALSE
    <3>1. f.path = s.path
      BY <1>1, <2>1 DEF Decided, Visits
    <3>2. Len(r) <= Len(s.path) /\ Len(s.path) <= Len(p) /\ Len(r) \in Nat /\ Len(p) \in Nat /\ Len(s.path) \in Nat
      BY <1>2, <1>3, <3>1 DEF StartsWith
    <3>3. Len(r) <= Len(p)
      BY <3>2
    <3> QED
      BY <1>2, <3>3, PrefixOfItsLength
  <2> QED
    BY <2>1
<1>5. OnDisk(f.root, r)
  <2>1. ASSUME r = s.path PROVE FALSE
    <3>1. Len(r) <= Len(p)
      BY <2>1 DEF StartsWith
    <3> QED
      BY <1>2, <3>1, PrefixOfItsLength
  <2> QED
    BY <1>3, <2>1
<1>6. PICK g \in files : Within(g, f.root, r)
  BY <1>5 DEF OnDisk
<1>7. PICK q \in Path : ChildOf(q, p) /\ StartsWith(r, q)
  BY NextOnTheWay
<1>8. g.path \in Seq(Nat) /\ q \in Seq(Nat)
  BY Constants DEF Shape, TypeOK
<1>9. StartsWith(g.path, q)
  BY <1>2, <1>6, <1>7, <1>8, PrefixTransitive DEF Within
<1>10. g \in Shown(TheRoot)
  BY <1>1, <1>3, <1>6 DEF Shown, Within, StillThere
<1>11. q \in Children(p, Shown(TheRoot))
  BY <1>1, <1>3, <1>6, <1>7, <1>9, <1>10 DEF Children, ChildOf, Within
<1> QED
  BY <1>4, <1>7, <1>11 DEF ToVisit

(* Folders that no step of the host disturbs are as they were, and so is   *)
(* the way to them.                                                        *)
LEMMA LeftAlone ==
  ASSUME Shape, HostStep, NEW f \in Alone'
  PROVE  /\ f \in Alone /\ index'[f] = index[f] /\ (f \in files' <=> f \in files)
         /\ f.root \in mounted => f.root \in mounted'
         /\ \A p \in Path : StartsWith(f.path, p) => (OnDisk(f.root, p)' <=> OnDisk(f.root, p))
<1>0. f \in Folder /\ f \notin disturbed'
  BY DEF Alone
<1>1. CASE Sweep
  <2>1. PICK g \in Folder : Sweep!(g)
    BY <1>1 DEF Sweep
  <2>2. f # g /\ f \in Alone /\ index \in [Folder -> {"none", "present", "missing"}]
    BY <1>0, <2>1 DEF Alone, Shape, TypeOK
  <2>3. index'[f] = index[f] /\ files' = files /\ mounted' = mounted
    BY <1>0, <2>1, <2>2 DEF host
  <2> QED
    BY <2>2, <2>3 DEF OnDisk
<1>2. ASSUME NEW g \in Folder, files' = files \cup {g} \/ files' = files \ {g},
             disturbed' = disturbed \cup ChangeWith(g), index' = index, mounted' = mounted
      PROVE  /\ f \in Alone /\ index'[f] = index[f] /\ (f \in files' <=> f \in files)
             /\ f.root \in mounted => f.root \in mounted'
             /\ \A p \in Path : StartsWith(f.path, p) => (OnDisk(f.root, p)' <=> OnDisk(f.root, p))
  <2>1. f # g /\ f \in Alone
    BY <1>0, <1>2 DEF Alone, ChangeWith
  <2>2. ASSUME NEW p \in Path, StartsWith(f.path, p)
        PROVE  OnDisk(f.root, p)' <=> OnDisk(f.root, p)
    <3>1. ~Within(g, f.root, p) \/ \E h \in files \ {g} : Within(h, f.root, p)
      BY <1>0, <1>2, <2>2 DEF ChangeWith
    <3>2. files \ {g} \subseteq files'
      BY <1>2
    <3> QED
      BY <1>2, <3>1, <3>2 DEF OnDisk
  <2> QED
    BY <1>2, <2>1, <2>2
<1>3. CASE FileComes
  <2>1. PICK g \in Folder \ files : FileComes!(g)
    BY <1>3 DEF FileComes
  <2> QED
    BY <1>2, <2>1 DEF store
<1>4. CASE FileGoes
  <2>1. PICK g \in files : FileGoes!(g)
    BY <1>4 DEF FileGoes
  <2>2. g \in Folder
    BY DEF Shape, TypeOK
  <2> QED
    BY <1>2, <2>1, <2>2 DEF store
<1>5. CASE Unmount
  <2>1. PICK r \in mounted : Unmount!(r)
    BY <1>5 DEF Unmount
  <2>2. f.root # r /\ f \in Alone
    BY <1>0, <2>1 DEF Alone
  <2>3. index' = index /\ files' = files /\ mounted' = mounted \ {r}
    BY <2>1 DEF store
  <2> QED
    BY <2>2, <2>3 DEF OnDisk
<1>6. CASE Mount \/ Tomorrow
  <2>1. index' = index /\ files' = files /\ disturbed' = disturbed /\ mounted \subseteq mounted'
    BY <1>6 DEF Mount, Tomorrow, store, history
  <2> QED
    BY <1>0, <2>1 DEF OnDisk, Alone
<1> QED
  BY <1>1, <1>3, <1>4, <1>5, <1>6 DEF HostStep

(* A folder that comes or goes is left alone no more, nor is one below it. *)
LEMMA IndexedHost ==
  ASSUME Shape, Indexed, HostStep
  PROVE  Indexed'
<1>0. /\ UNCHANGED <<scopes, saved, phase, cursor, scope, resume, stack, listing, marks, batch, skipped>>
  BY HostFrame DEF row, memory
<1>1. ASSUME NEW f \in Alone'
      PROVE  /\ f \in Alone /\ (f \in files' <=> f \in files) /\ f \in Folder
             /\ f.root \in mounted => f.root \in mounted'
             /\ Kept(f)' <=> Kept(f)
             /\ Written(f)' <=> Written(f)
             /\ \A p \in Path : StartsWith(f.path, p) => (OnDisk(f.root, p)' <=> OnDisk(f.root, p))
  <2>1. /\ f \in Alone /\ index'[f] = index[f] /\ (f \in files' <=> f \in files)
        /\ f.root \in mounted => f.root \in mounted'
        /\ \A p \in Path : StartsWith(f.path, p) => (OnDisk(f.root, p)' <=> OnDisk(f.root, p))
    BY <1>1, LeftAlone
  <2>2. Applied(f)' = Applied(f)
    BY <1>0, <2>1 DEF Applied
  <2> QED
    BY <2>1, <2>2 DEF Kept, Written, Alone
<1>2. ASSUME NEW s, NEW f \in Alone', NEW p \in Path, Decided(s, f, p)'
      PROVE  Decided(s, f, p)
  <2>1. StartsWith(f.path, p) /\ StartsWith(p, s.path) /\ Visits(s, f)
    BY <1>2 DEF Decided, Meets, Visits
  <2> QED
    BY <1>1, <1>2, <2>1 DEF Decided, Meets
<1>3. TheRoot' = TheRoot /\ \A p : (Ahead(p)' <=> Ahead(p)) /\ \A f : (AtHand(f, p)' <=> AtHand(f, p))
  BY <1>0 DEF TheRoot, Ahead, AtHand
<1>4. StillThere'
  BY <1>1 DEF Indexed, StillThere
<1>5. TrueNotes'
  BY <1>0, <1>1 DEF Indexed, TrueNotes
<1>6. PassedIsDone'
  BY <1>0, <1>1, <1>2 DEF Indexed, PassedIsDone, Past
<1>7. ResumedIsDone'
  BY <1>0, <1>1, <1>2 DEF Indexed, ResumedIsDone, UpTo
<1>8. TrueListing'
  <2>1. ASSUME NEW f \in Alone', NEW q \in Path, StartsWith(f.path, q)
        PROVE  OnDisk(f.root, q)' <=> OnDisk(f.root, q)
    BY <1>1, <2>1
  <2> QED
    BY <1>0, <1>1, <1>3, <2>1 DEF Indexed, TrueListing
<1>9. StackInOrder'
  BY <1>0 DEF Indexed, StackInOrder
<1>10. RestIsAhead'
  BY <1>0, <1>1, <1>2, <1>3 DEF Indexed, RestIsAhead
<1>11. WalkedIsDone'
  BY <1>0, <1>1, <1>2 DEF Indexed, WalkedIsDone
<1> QED
  BY <1>4, <1>5, <1>6, <1>7, <1>8, <1>9, <1>10, <1>11 DEF Indexed

(* A flush writes what the batch has, and leaves the rest (Writer::flush). *)
LEMMA FlushWrites ==
  ASSUME Shape, NEW c, Persist(c), files' = files, NEW f \in Folder
  PROVE  (Kept(f)' <=> Written(f)) /\ (Written(f)' <=> Written(f))
<1>1. /\ index'[f] = Applied(f) /\ batch'.added = {} /\ batch'.missing = {} /\ batch'.returned = {}
  BY DEF Persist, NoBatch
<1>2. Applied(f)' = index'[f]
  BY <1>1 DEF Applied
<1> QED
  BY <1>1, <1>2 DEF Kept, Written

(* A note more of a folder as it is changes nothing that is right.         *)
LEMMA TrueNotesKeep ==
  ASSUME TrueNotes, TrueNotes', NEW f \in Alone, f \in Alone',
         index'[f] = index[f], f \in files' <=> f \in files,
         batch.added \subseteq batch'.added, batch.returned \subseteq batch'.returned,
         batch.missing \subseteq batch'.missing, Written(f)
  PROVE  Written(f)'
<1>1. CASE f \in files
  <2>1. f \notin batch.missing /\ f \notin batch'.missing /\ Applied(f) = "present"
    BY <1>1 DEF TrueNotes, Written
  <2>2. Applied(f)' = "present"
    BY <2>1 DEF Applied
  <2> QED
    BY <1>1, <2>2 DEF Written
<1>2. CASE f \notin files
  <2>1. /\ f \notin batch.added /\ f \notin batch'.added /\ f \notin batch.returned
        /\ f \notin batch'.returned /\ Applied(f) # "present"
    BY <1>2 DEF TrueNotes, Written
  <2>2. Applied(f)' # "present"
    BY <2>1 DEF Applied
  <2> QED
    BY <1>2, <2>2 DEF Written
<1> QED
  BY <1>1, <1>2

(* What the walk does in its stack alone.                                  *)
LEMMA IndexedStack ==
  ASSUME Shape, Indexed, NEW p \in Path, PassFolder(p) \/ DescendOnly(p) \/ ListFolder(p)
  PROVE  Indexed'
<1>0. /\ phase = "walk" /\ scope \in DOMAIN scopes /\ p \in stack
      /\ \A q \in stack \ {p} : PathBefore(p, q)
      /\ UNCHANGED <<files, mounted, disturbed, scopes, scope, skipped, index, batch, marks, cursor,
                     saved, resume>>
  BY DEF PassFolder, Visiting, DescendOnly, ListFolder, Shape, Bearings, Walking, host, row, store, history
<1>1. /\ Alone' = Alone /\ TheRoot' = TheRoot
      /\ \A s, f, q : Decided(s, f, q)' <=> Decided(s, f, q)
      /\ \A f : (Kept(f)' <=> Kept(f)) /\ (Written(f)' <=> Written(f))
      /\ \A r, q : OnDisk(r, q)' <=> OnDisk(r, q)
  BY <1>0 DEF Alone, TheRoot, Decided, Visits, Meets, OnDisk, Kept, Written, Applied
<1>2. StillThere' /\ TrueNotes' /\ PassedIsDone'
  BY <1>0, <1>1 DEF Indexed, StillThere, TrueNotes, PassedIsDone, Past
<1>3. ResumedIsDone'
  BY <1>0, <1>1 DEF Indexed, ResumedIsDone, UpTo, Walking
<1>4. /\ scopes[scope].path \in Seq(Nat) /\ p \in Seq(Nat) /\ stack \subseteq Path
      /\ scopes[scope].root = TheRoot /\ StartsWith(p, scopes[scope].path)
  BY <1>0, ScopesOfAScan, Constants DEF Shape, TypeOK, Indexed, StackInOrder, Walking, TheRoot
<1>5. \A q \in ToVisit(p) : /\ q \in Path /\ q \in Seq(Nat) /\ StartsWith(q, p) /\ q # p
                            /\ StartsWith(q, scopes[scope].path)
  <2>1. ASSUME NEW q \in ToVisit(p)
        PROVE  q \in Path /\ q \in Seq(Nat) /\ StartsWith(q, p) /\ Len(q) = Len(p) + 1
    BY Constants DEF ToVisit, Children
  <2>2. ASSUME NEW q \in ToVisit(p) PROVE q # p /\ StartsWith(q, scopes[scope].path)
    <3>1. q \in Seq(Nat) /\ StartsWith(q, p) /\ Len(q) = Len(p) + 1 /\ Len(p) \in Nat
      BY <1>4, <2>1, <2>2
    <3>2. q # p
      BY <3>1
    <3> QED
      BY <1>4, <3>1, <3>2, PrefixTransitive
  <2> QED
    BY <2>1, <2>2
<1>6. ASSUME NEW f \in Alone, NEW r \in Path, Decided(scopes[scope], f, r), StartsWith(r, p), r # p
      PROVE  \E q \in ToVisit(p) : StartsWith(r, q)
  BY <1>0, <1>4, <1>6, WalkDescends DEF Indexed
<1>7. ASSUME NEW f \in Alone, NEW r \in Path, Decided(scopes[scope], f, r), ~Written(f)
      PROVE  \E q \in stack : StartsWith(r, q)
  BY <1>0, <1>7 DEF Indexed, RestIsAhead, Ahead, AtHand, Walking
<1>8. ASSUME NEW f \in Alone, NEW r \in Path, Decided(scopes[scope], f, r), resume # {},
             UpTo(r, CHOOSE c \in resume : TRUE)
      PROVE  Written(f)
  <2>1. (CHOOSE c \in resume : TRUE) \in resume
    BY <1>8
  <2> QED
    BY <1>0, <1>8, <2>1 DEF Indexed, ResumedIsDone, Walking
<1>9. resume # {} => (CHOOSE c \in resume : TRUE) \in Seq(Nat)
  BY Constants DEF Shape, TypeOK
<1>10. CASE PassFolder(p)
  <2>1. phase' = "walk" /\ stack' = stack \ {p}
    BY <1>0, <1>10 DEF PassFolder
  <2>2. ASSUME NEW f \in Alone, NEW r \in Path, Decided(scopes[scope], f, r), ~Written(f), StartsWith(r, p)
        PROVE  FALSE
    <3>1. TheRoot \in mounted
      BY <1>4, <2>2 DEF Indexed, StillThere, Decided, Visits
    <3> DEFINE c == CHOOSE c \in resume : TRUE
    <3>2. resume # {} /\ ~StartsWith(c, p) /\ PathBefore(p, c)
      BY <1>10, <3>1 DEF PassFolder, PositionOf, Position
    <3>3. c \in Seq(Nat) /\ r \in Seq(Nat)
      BY <1>9, <3>2, Constants
    <3>4. UpTo(r, c)
      <4> HIDE DEF c
      <4> QED
        BY <1>4, <2>2, <3>2, <3>3, BelowDoneIsDone
    <3> QED
      BY <1>8, <2>2, <3>2, <3>4
  <2>3. StackInOrder' /\ TrueListing' /\ WalkedIsDone'
    BY <1>0, <2>1 DEF Indexed, StackInOrder, TrueListing, WalkedIsDone, Walking
  <2>4. RestIsAhead'
    BY <1>0, <1>1, <1>7, <2>1, <2>2 DEF RestIsAhead, Ahead
  <2> QED
    BY <1>2, <1>3, <2>3, <2>4 DEF Indexed
<1>11. CASE DescendOnly(p)
  <2>1. phase' = "walk" /\ stack' = (stack \ {p}) \cup ToVisit(p)
    BY <1>0, <1>11 DEF DescendOnly
  <2>2. ASSUME NEW f \in Alone, Decided(scopes[scope], f, p) PROVE Written(f)
    <3> DEFINE c == CHOOSE c \in resume : TRUE
    <3>1. resume # {} /\ StartsWith(c, p)
      BY <1>11 DEF DescendOnly, PositionOf, Position
    <3>2. UpTo(p, c)
      BY <3>1 DEF UpTo, PathBefore
    <3> QED
      BY <1>8, <2>2, <3>1, <3>2
  <2>3. StackInOrder' /\ TrueListing' /\ WalkedIsDone'
    BY <1>0, <1>5, <2>1 DEF Indexed, StackInOrder, TrueListing, WalkedIsDone, Walking
  <2>4. ASSUME NEW f \in Alone, NEW r \in Path, Decided(scopes[scope], f, r), ~Written(f)
        PROVE  \E q \in stack' : StartsWith(r, q)
    BY <1>6, <1>7, <2>1, <2>2, <2>4
  <2>5. RestIsAhead'
    BY <1>0, <1>1, <2>4 DEF RestIsAhead, Ahead
  <2> QED
    BY <1>2, <1>3, <2>3, <2>5 DEF Indexed
<1>12. CASE ListFolder(p)
  <2>1. /\ phase' = "listed" /\ stack' = (stack \ {p}) \cup ToVisit(p)
        /\ listing'.path = p /\ listing'.file = (InHand(p) \in Shown(TheRoot))
        /\ listing'.folders = Children(p, Shown(TheRoot))
    BY <1>0, <1>12 DEF ListFolder
  <2>2. ASSUME NEW q \in stack' PROVE StartsWith(q, scopes[scope].path) /\ PathBefore(p, q)
    BY <1>0, <1>5, <2>1, PrefixIsBefore DEF Indexed, StackInOrder, Walking
  <2>3. StackInOrder' /\ WalkedIsDone'
    BY <1>0, <2>1, <2>2 DEF StackInOrder, WalkedIsDone
  <2>4. ASSUME NEW f \in Alone, f.root = TheRoot
        PROVE  /\ f.path = p => (listing'.file <=> f \in files)
               /\ \A q \in Path : ChildOf(q, p) /\ StartsWith(f.path, q) =>
                     (q \in listing'.folders <=> OnDisk(f.root, q))
    <3>1. TheRoot \in mounted
      BY <2>4 DEF Indexed, StillThere
    <3>2. \A g : g \in Shown(TheRoot) <=> g \in files /\ g.root = TheRoot
      BY <3>1 DEF Shown
    <3>3. f.path = p => InHand(p) = f
      BY <2>4, Constants DEF InHand, Alone
    <3>4. ASSUME NEW q \in Path, ChildOf(q, p)
          PROVE  q \in listing'.folders <=> OnDisk(TheRoot, q)
      BY <2>1, <3>2, <3>4 DEF Children, OnDisk, Within, ChildOf
    <3> QED
      BY <2>1, <2>4, <3>2, <3>3, <3>4
  <2>5. TrueListing'
    BY <1>0, <1>1, <2>1, <2>4 DEF TrueListing
  <2>6. ASSUME NEW f \in Alone, NEW r \in Path, Decided(scopes[scope], f, r), ~Written(f)
        PROVE  r = p \/ \E q \in stack' : StartsWith(r, q)
    BY <1>6, <1>7, <2>1, <2>6
  <2>7. RestIsAhead'
    BY <1>0, <1>1, <2>1, <2>6 DEF RestIsAhead, Ahead, AtHand
  <2> QED
    BY <1>2, <1>3, <2>3, <2>5, <2>7 DEF Indexed
<1> QED
  BY <1>10, <1>11, <1>12

(* What a step that leaves the host, the scopes and what a cursor is past  *)
(* alone has to keep.                                                      *)
LEMMA SameDecisions ==
  ASSUME UNCHANGED <<files, mounted, disturbed, scopes, scope>>
  PROVE  /\ Alone' = Alone /\ TheRoot' = TheRoot
         /\ \A s, f, p : Decided(s, f, p)' <=> Decided(s, f, p)
         /\ \A r, p : OnDisk(r, p)' <=> OnDisk(r, p)
  BY DEF Alone, TheRoot, Decided, Visits, Meets, OnDisk

(* What was passed stays passed while the cursor stays where it is.        *)
LEMMA PassedStays ==
  ASSUME PassedIsDone, ResumedIsDone, UNCHANGED <<files, disturbed, scopes, scope, cursor, saved, resume>>,
         skipped \subseteq skipped', scope \in DOMAIN scopes, phase' \in Walking => phase \in Walking,
         \A s, f, p : Decided(s, f, p)' <=> Decided(s, f, p),
         \A f \in Alone : (Kept(f) => Kept(f)') /\ (Written(f) => Written(f)')
  PROVE  PassedIsDone' /\ ResumedIsDone'
<1>1. Alone' = Alone
  BY DEF Alone
<1>2. PassedIsDone'
  BY <1>1 DEF PassedIsDone, Past
<1>3. ResumedIsDone'
  BY <1>1 DEF ResumedIsDone, UpTo
<1> QED
  BY <1>2, <1>3

(* A folder read is noted as it is, or to be marked (process_directory).   *)
LEMMA IndexedRead ==
  ASSUME Shape, Indexed, ReadFolder
  PROVE  Indexed'
<1>0. /\ phase = "listed" /\ scope \in DOMAIN scopes
      /\ UNCHANGED <<files, mounted, disturbed, scopes, scope, skipped, index, cursor, saved, resume,
                     stack, listing>>
      /\ marks' = NoLongerListed
      /\ phase' = "read" \/ (phase' = "mark" /\ NoLongerListed = {})
      /\ batch' = IF listing.file THEN FileFound(InHand(listing.path)) ELSE batch
  BY DEF ReadFolder, Shape, Bearings, Walking, host, row, store, history
<1>1. /\ Alone' = Alone /\ TheRoot' = TheRoot
      /\ \A s, f, p : Decided(s, f, p)' <=> Decided(s, f, p)
      /\ \A r, p : OnDisk(r, p)' <=> OnDisk(r, p)
  BY <1>0, SameDecisions
<1> DEFINE g == InHand(listing.path)
<1>2. /\ listing.file => g \in Folder /\ g.root = TheRoot /\ g.path = listing.path
      /\ \A f \in Folder : f.root = TheRoot /\ f.path = listing.path => f = g
  BY <1>0, Constants DEF InHand, Shape, Bearings
<1>3. ASSUME NEW f \in Alone, f.root = TheRoot
      PROVE  /\ f = g => (listing.file <=> f \in files)
             /\ \A q \in Path : ChildOf(q, listing.path) /\ StartsWith(f.path, q) =>
                   (q \in listing.folders <=> OnDisk(f.root, q))
  BY <1>0, <1>3 DEF Indexed, TrueListing, InHand
<1>4. /\ batch'.missing = batch.missing
      /\ batch.added \subseteq batch'.added /\ batch.returned \subseteq batch'.returned
      /\ \A f \in Folder \ (batch.added \cup batch.returned) :
            f \in batch'.added \cup batch'.returned => listing.file /\ f = g
  BY <1>0 DEF FileFound, Shape, TypeOK
<1>5. ASSUME NEW f \in Alone, f \in NoLongerListed PROVE f \notin files /\ index[f] = "present"
  <2>1. f \in Folder /\ f.root = TheRoot /\ index[f] = "present"
    BY <1>5 DEF NoLongerListed, Known
  <2>2. CASE f.path = listing.path /\ ~listing.file
    BY <1>2, <1>3, <2>1, <2>2
  <2>3. ASSUME NEW q \in Vanished, StartsWith(f.path, q) PROVE f \notin files
    <3>1. q \in Path /\ ChildOf(q, listing.path) /\ q \notin listing.folders
      BY DEF Vanished, Children, ChildOf
    <3>2. ~OnDisk(f.root, q)
      BY <1>3, <2>1, <2>3, <3>1
    <3> QED
      BY <2>3, <3>2 DEF OnDisk, Within
  <2> QED
    BY <1>5, <2>1, <2>2, <2>3 DEF NoLongerListed
<1>6. TrueNotes'
  <2>1. ASSUME NEW f \in Alone, f \in batch'.missing \cup marks' PROVE f \notin files
    BY <1>0, <1>4, <1>5, <2>1 DEF Indexed, TrueNotes
  <2>2. ASSUME NEW f \in Alone, f \in batch'.added \cup batch'.returned PROVE f \in files
    <3>1. CASE f \in batch.added \cup batch.returned
      BY <3>1 DEF Indexed, TrueNotes
    <3>2. CASE f \notin batch.added \cup batch.returned
      BY <1>2, <1>3, <1>4, <2>2, <3>2 DEF Alone
    <3> QED
      BY <3>1, <3>2
  <2> QED
    BY <1>0, <1>1, <2>1, <2>2 DEF TrueNotes
<1>7. ASSUME NEW f \in Alone PROVE (Kept(f) => Kept(f)') /\ (Written(f) => Written(f)')
  <2>1. Written(f) => Written(f)'
    BY <1>0, <1>1, <1>4, <1>6, TrueNotesKeep DEF Indexed
  <2>2. Kept(f)' <=> Kept(f)
    BY <1>0 DEF Kept
  <2> QED
    BY <2>1, <2>2
<1>8. ASSUME NEW f \in Alone, Decided(scopes[scope], f, listing.path)
      PROVE  Written(f)' \/ f \in marks'
  <2>1. /\ f \in Folder /\ f.root = TheRoot /\ index[f] \in {"none", "present", "missing"}
        /\ f.path \in Path /\ listing.path \in Path /\ StartsWith(f.path, listing.path)
    BY <1>8, Constants DEF Decided, Visits, Meets, Alone, TheRoot, Shape, TypeOK
  <2>2. CASE f.path = listing.path /\ listing.file
    <3>1. f = g /\ f \in files
      BY <1>2, <1>3, <2>1, <2>2
    <3>2. f \in Shown(f.root)
      BY <1>8, <2>1, <3>1 DEF Shown, Indexed, StillThere
    <3>3. /\ index[f] = "missing" => f \in batch'.returned
          /\ index[f] = "none" => f \in batch'.added
      BY <1>0, <2>2, <3>1, <3>2 DEF FileFound, Shape, TypeOK
    <3>4. /\ f \in Alone' /\ f \in files' /\ index'[f] = index[f]
      BY <1>0, <1>1, <3>1
    <3>5. Written(f)'
      BY <1>6, <2>1, <3>3, <3>4 DEF TrueNotes, Written, Applied
    <3> QED
      BY <3>5
  <2>3. ASSUME f.path # listing.path \/ ~listing.file PROVE Written(f)' \/ f \in marks'
    <3>1. f \notin files /\ (index[f] = "present" => f \in NoLongerListed)
      <4>1. CASE f.path = listing.path
        BY <1>2, <1>3, <2>1, <2>3, <4>1 DEF NoLongerListed, Known
      <4>2. CASE f.path # listing.path
        <5>1. PICK q \in Path : ChildOf(q, listing.path) /\ StartsWith(f.path, q)
          BY <2>1, <4>2, NextOnTheWay
        <5>2. ~OnDisk(f.root, q)
          BY <1>8, <5>1 DEF Decided, Meets
        <5>3. q \notin listing.folders /\ f \notin files
          BY <1>3, <2>1, <5>1, <5>2 DEF OnDisk, Within
        <5>4. ASSUME index[f] = "present" PROVE f \in NoLongerListed
          <6>1. f \in Known
            BY <2>1, <5>4 DEF Known
          <6>2. q \in Vanished
            BY <2>1, <5>1, <5>3, <6>1 DEF Vanished, Children, ChildOf, Within
          <6> QED
            BY <5>1, <5>4, <6>1, <6>2 DEF NoLongerListed
        <5> QED
          BY <5>3, <5>4
      <4> QED
        BY <4>1, <4>2
    <3>2. CASE index[f] = "present"
      BY <1>0, <3>1, <3>2
    <3>3. CASE index[f] # "present"
      <4>1. f \in Alone' /\ f \notin files' /\ index'[f] # "present"
        BY <1>0, <1>1, <3>1, <3>3
      <4> QED
        BY <1>6, <4>1 DEF TrueNotes, Written, Applied
    <3> QED
      BY <3>2, <3>3
  <2> QED
    BY <2>2, <2>3
<1>9. ASSUME NEW f \in Alone, NEW p \in Path, Decided(scopes[scope], f, p)
      PROVE  Written(f)' \/ Ahead(p)' \/ AtHand(f, p)'
  <2>1. Written(f) \/ Ahead(p) \/ p = listing.path
    BY <1>0, <1>9 DEF Indexed, RestIsAhead, AtHand, Walking
  <2>2. Ahead(p)' <=> Ahead(p)
    BY <1>0 DEF Ahead
  <2>3. phase' \in {"read", "mark"}
    BY <1>0
  <2> QED
    BY <1>7, <1>8, <1>9, <2>1, <2>2, <2>3 DEF AtHand
<1>10. PassedIsDone' /\ ResumedIsDone'
  BY <1>0, <1>1, <1>7, PassedStays DEF Indexed, Walking
<1>11. StillThere' /\ TrueListing' /\ StackInOrder' /\ RestIsAhead' /\ WalkedIsDone'
  BY <1>0, <1>1, <1>9 DEF Indexed, StillThere, TrueListing, StackInOrder, RestIsAhead, WalkedIsDone, Walking
<1> QED
  BY <1>6, <1>10, <1>11 DEF Indexed

(* The marks, the cursor past a folder, and a flush (reconcile::mark).     *)
LEMMA IndexedMarks ==
  ASSUME Shape, Indexed, Reconcile \/ Mark \/ FolderDone \/ Flush
  PROVE  Indexed'
<1>0. /\ phase \in Walking /\ scope \in DOMAIN scopes
      /\ UNCHANGED <<files, mounted, disturbed, scopes, scope, skipped, resume, stack>>
  BY DEF Reconcile, Mark, FolderDone, Flush, Persist, Shape, Bearings, Walking, host, row, store, history
<1>1. /\ Alone' = Alone /\ TheRoot' = TheRoot
      /\ \A s, f, p : Decided(s, f, p)' <=> Decided(s, f, p)
      /\ \A r, p : OnDisk(r, p)' <=> OnDisk(r, p)
      /\ \A p : Ahead(p)' <=> Ahead(p)
      /\ StillThere'
  <2>1. \A p : Ahead(p)' <=> Ahead(p)
    BY <1>0 DEF Ahead
  <2>2. /\ Alone' = Alone /\ TheRoot' = TheRoot
        /\ \A s, f, p : Decided(s, f, p)' <=> Decided(s, f, p)
        /\ \A r, p : OnDisk(r, p)' <=> OnDisk(r, p)
    BY <1>0, SameDecisions
  <2> QED
    BY <1>0, <2>1, <2>2 DEF Indexed, StillThere
<1>2. CASE Reconcile
  <2>1. /\ phase = "read" /\ phase' \in {"mark", "left"}
        /\ UNCHANGED <<index, batch, marks, cursor, saved, listing>>
    BY <1>2 DEF Reconcile, row, store
  <2>2. \A f : (Kept(f)' <=> Kept(f)) /\ (Written(f)' <=> Written(f))
    BY <1>0, <2>1 DEF Kept, Written, Applied
  <2>3. PassedIsDone' /\ ResumedIsDone'
    BY <1>0, <1>1, <2>1, <2>2, PassedStays DEF Indexed
  <2>4. TrueNotes' /\ TrueListing' /\ StackInOrder' /\ WalkedIsDone'
    BY <1>0, <1>1, <2>1 DEF Indexed, TrueNotes, TrueListing, StackInOrder, WalkedIsDone, Walking
  <2>5. RestIsAhead'
    BY <1>0, <1>1, <2>1, <2>2 DEF Indexed, RestIsAhead, AtHand, Walking
  <2> QED
    BY <1>1, <2>3, <2>4, <2>5 DEF Indexed
<1>3. CASE Mark
  <2>1. PICK g \in marks : Mark!(g)
    BY <1>3 DEF Mark
  <2>2. /\ phase = "mark" /\ phase' = "mark" /\ marks' = marks \ {g}
        /\ batch'.missing = batch.missing \cup {g} /\ batch'.added = batch.added
        /\ batch'.returned = batch.returned
        /\ UNCHANGED <<index, cursor, saved, listing>>
    BY <2>1 DEF row, store, Shape, TypeOK
  <2>3. TrueNotes'
    BY <1>0, <1>1, <2>2 DEF Indexed, TrueNotes
  <2>4. ASSUME NEW f \in Alone PROVE (Kept(f) => Kept(f)') /\ (Written(f) => Written(f)')
    <3>1. Kept(f)' <=> Kept(f)
      BY <1>0, <2>2 DEF Kept
    <3>2. Written(f) => Written(f)'
      BY <1>0, <1>1, <2>2, <2>3, TrueNotesKeep DEF Indexed
    <3> QED
      BY <3>1, <3>2
  <2>5. g \in Alone => Written(g)'
    BY <1>1, <2>2, <2>3 DEF TrueNotes, Written, Applied
  <2>6. PassedIsDone' /\ ResumedIsDone'
    BY <1>0, <1>1, <2>2, <2>4, PassedStays DEF Indexed, Walking
  <2>7. TrueListing' /\ StackInOrder' /\ WalkedIsDone'
    BY <1>0, <2>2 DEF Indexed, TrueListing, StackInOrder, WalkedIsDone, Walking
  <2>8. ASSUME NEW f \in Alone, NEW p \in Path, Decided(scopes[scope], f, p)
        PROVE  Written(f)' \/ Ahead(p)' \/ AtHand(f, p)'
    <3>1. Written(f) \/ Ahead(p) \/ f \in marks
      BY <2>2, <2>8 DEF Indexed, RestIsAhead, AtHand, Walking
    <3> QED
      BY <1>1, <2>2, <2>4, <2>5, <2>8, <3>1 DEF AtHand
  <2>9. RestIsAhead'
    BY <1>0, <1>1, <2>8 DEF RestIsAhead
  <2> QED
    BY <1>1, <2>3, <2>6, <2>7, <2>9 DEF Indexed
<1>4. CASE FolderDone
  <2>1. /\ phase = "mark" /\ marks = {} /\ phase' = "walk"
        /\ cursor' = [index |-> scope, after |-> {listing.path}]
        /\ UNCHANGED <<index, batch, marks, saved>>
    BY <1>4 DEF FolderDone, row, store
  <2>2. \A f : (Kept(f)' <=> Kept(f)) /\ (Written(f)' <=> Written(f))
    BY <1>0, <2>1 DEF Kept, Written, Applied
  <2>3. ASSUME NEW f \in Alone, NEW p \in Path, Decided(scopes[scope], f, p)
        PROVE  Written(f) \/ Ahead(p)
    BY <1>0, <2>1, <2>3 DEF Indexed, RestIsAhead, AtHand
  <2>4. ASSUME NEW f \in Alone, NEW p \in Path, Decided(scopes[scope], f, p), UpTo(p, listing.path)
        PROVE  Written(f)
    <3>1. ASSUME NEW q \in stack, StartsWith(p, q) PROVE FALSE
      <4>1. PathBefore(listing.path, q)
        BY <1>0, <2>1 DEF Indexed, StackInOrder
      <4>2. p \in Seq(Nat) /\ q \in Seq(Nat) /\ listing.path \in Seq(Nat)
        BY Constants DEF Shape, TypeOK
      <4> QED
        BY <2>4, <3>1, <4>1, <4>2, BelowLaterIsLater
    <3> QED
      BY <2>3, <2>4, <3>1 DEF Ahead
  <2>5. ASSUME NEW k \in DOMAIN scopes, NEW f \in Alone, NEW p \in Path,
               Decided(scopes[k], f, p), Past(cursor, k, p)'
        PROVE  Written(f)
    <3>1. /\ k \in Nat /\ scope \in Nat /\ cursor.index \in Nat
          /\ cursor.index <= k /\ k < scope => k \in skipped
      BY ScopesOfAScan DEF Shape, TypeOK, Bearings
    <3>2. (k < scope /\ k \notin skipped) \/ (k = scope /\ UpTo(p, listing.path))
      BY <1>0, <2>1, <2>5 DEF Past
    <3>3. CASE k < scope
      <4>1. k < cursor.index /\ k \notin skipped
        BY <3>1, <3>2, <3>3
      <4> QED
        BY <2>5, <4>1 DEF Indexed, PassedIsDone, Past
    <3> QED
      BY <2>4, <2>5, <3>2, <3>3
  <2>6. PassedIsDone'
    BY <1>0, <1>1, <2>1, <2>2, <2>5 DEF Indexed, PassedIsDone, Past
  <2>7. ResumedIsDone' /\ TrueNotes'
    BY <1>0, <1>1, <2>1, <2>2 DEF Indexed, ResumedIsDone, TrueNotes, UpTo
  <2>8. TrueListing' /\ StackInOrder' /\ WalkedIsDone'
    BY <1>0, <2>1 DEF Indexed, TrueListing, StackInOrder, WalkedIsDone, Walking
  <2>9. RestIsAhead'
    BY <1>0, <1>1, <2>2, <2>3 DEF RestIsAhead
  <2> QED
    BY <1>1, <2>6, <2>7, <2>8, <2>9 DEF Indexed
<1>5. CASE Flush
  <2>1. /\ Persist(cursor) /\ saved' = cursor /\ batch' = NoBatch
        /\ UNCHANGED <<phase, cursor, listing, marks>>
    BY <1>5 DEF Flush, Persist, CursorToSave
  <2>2. \A f \in Alone : (Kept(f)' <=> Written(f)) /\ (Written(f)' <=> Written(f))
    BY <1>0, <2>1, FlushWrites DEF Alone
  <2>3. PassedIsDone'
    BY <1>0, <1>1, <2>1, <2>2 DEF Indexed, PassedIsDone, Past
  <2>4. ResumedIsDone' /\ WalkedIsDone' /\ StackInOrder'
    BY <1>0, <1>1, <2>1, <2>2 DEF Indexed, ResumedIsDone, WalkedIsDone, StackInOrder, UpTo
  <2>5. TrueNotes'
    BY <1>0, <1>1, <2>1 DEF Indexed, TrueNotes, NoBatch
  <2>6. TrueListing'
    BY <1>0, <1>1, <2>1 DEF Indexed, TrueListing
  <2>7. RestIsAhead'
    BY <1>0, <1>1, <2>1, <2>2 DEF Indexed, RestIsAhead, AtHand
  <2> QED
    BY <1>1, <2>3, <2>4, <2>5, <2>6, <2>7 DEF Indexed
<1> QED
  BY <1>2, <1>3, <1>4, <1>5

(* A step between the walks of two scopes: it has nothing in hand.         *)
LEMMA IndexedBetween ==
  ASSUME StillThere', phase' \notin Walking \cup {"check"}, batch' = NoBatch, marks' = {}, PassedIsDone'
  PROVE  Indexed'
<1>1. TrueNotes'
  BY DEF TrueNotes, NoBatch
<1>2. ResumedIsDone' /\ TrueListing' /\ StackInOrder' /\ RestIsAhead' /\ WalkedIsDone'
  BY DEF ResumedIsDone, TrueListing, StackInOrder, RestIsAhead, WalkedIsDone, Walking
<1> QED
  BY <1>1, <1>2 DEF Indexed

(* A scope left, skipped, passed or begun keeps what the cursor is past.   *)
LEMMA IndexedScan ==
  ASSUME Shape, Indexed, ScanStep
  PROVE  Indexed'
<1>0. /\ DOMAIN scopes = 1 .. Len(scopes) /\ Len(scopes) \in Nat
      /\ scope \in Nat /\ cursor.index \in Nat /\ saved.index \in Nat
  BY ScopesOfAScan DEF Shape, TypeOK
<1>1. ASSUME NEW S \in NewScans, Begin(S) PROVE Indexed'
  <2>1. /\ phase' = "scope" /\ batch' = NoBatch /\ marks' = {} /\ scopes' = S
        /\ saved' = Start /\ cursor' = Start /\ mounted' = mounted
        /\ disturbed' = {f \in Folder : f.root \notin mounted}
    BY <1>1 DEF Begin, Shape, Bearings, Idle, host
  <2>2. StillThere'
    BY <2>1 DEF StillThere, Alone
  <2>3. DOMAIN S = 1 .. Len(S) /\ Len(S) \in Nat
    BY Constants
  <2>4. \A k \in DOMAIN S : \A p : ~Past(Start, k, p)'
    BY <2>3 DEF Past, Start
  <2>5. PassedIsDone'
    BY <2>1, <2>4 DEF PassedIsDone
  <2> QED
    BY <2>1, <2>2, <2>5, IndexedBetween DEF Walking
<1>2. ASSUME \A S \in NewScans : ~Begin(S)
      PROVE  /\ UNCHANGED <<files, mounted, disturbed, scopes>> /\ StillThere' /\ Alone' = Alone
             /\ \A s, f, p : Decided(s, f, p)' <=> Decided(s, f, p)
  <2>1. UNCHANGED <<files, mounted, disturbed, scopes>>
    BY <1>2 DEF ScanStep, Resume, SkipScope, WalkScope, RootLeft, WalkEnds, MissScope, PassScope,
                EndScan, Halt, StoreFails, host, row, history
  <2>2. Alone' = Alone /\ \A s, f, p : Decided(s, f, p)' <=> Decided(s, f, p)
    BY <2>1 DEF Alone, Decided, Visits, Meets, OnDisk
  <2> QED
    BY <2>1, <2>2 DEF Indexed, StillThere
<1>3. \A S \in NewScans : Begin(S) => phase' = "scope" /\ scope' = 1 /\ state' = "running"
  BY DEF Begin, Shape, Bearings, Idle
<1>4. CASE \E S \in NewScans : Begin(S)
  BY <1>1, <1>4
<1>5. ASSUME \A S \in NewScans : ~Begin(S), Resume PROVE Indexed'
  <2>1. /\ phase' = "scope" /\ batch = NoBatch /\ batch' = NoBatch /\ marks' = {}
        /\ cursor' = saved /\ UNCHANGED <<index, saved, skipped>>
    BY <1>5 DEF Resume, Shape, Bearings, Idle, row, store, history
  <2>2. \A f : (Kept(f)' <=> Kept(f)) /\ (Written(f)' <=> Kept(f))
    BY <1>2, <1>5, <2>1 DEF Kept, Written, Applied, NoBatch
  <2>3. PassedIsDone'
    BY <1>2, <1>5, <2>1, <2>2 DEF Indexed, PassedIsDone, Past
  <2> QED
    BY <1>2, <1>5, <2>1, <2>3, IndexedBetween DEF Walking
<1>6. ASSUME \A S \in NewScans : ~Begin(S), SkipScope \/ MissScope PROVE Indexed'
  <2>1. /\ phase' = "scope" /\ batch = NoBatch /\ batch' = NoBatch /\ marks' = {}
        /\ UNCHANGED <<index, saved, cursor>> /\ skipped \subseteq skipped'
    BY <1>6 DEF SkipScope, MissScope, LeaveScope, NextScope, Shape, Bearings, row, store
  <2>2. \A f : (Kept(f)' <=> Kept(f)) /\ (Written(f)' <=> Written(f))
    BY <1>2, <1>6, <2>1 DEF Kept, Written, Applied
  <2>3. PassedIsDone'
    BY <1>2, <1>6, <2>1, <2>2 DEF Indexed, PassedIsDone, Past
  <2> QED
    BY <1>2, <1>6, <2>1, <2>3, IndexedBetween DEF Walking
<1>7. ASSUME \A S \in NewScans : ~Begin(S), RootLeft PROVE Indexed'
  <2>1. /\ phase' = "scope" /\ Persist(cursor) /\ batch' = NoBatch /\ marks' = {}
        /\ saved' = cursor /\ cursor' = cursor /\ skipped \subseteq skipped'
    BY <1>7 DEF RootLeft, Persist, LeaveScope, NextScope
  <2>2. \A f \in Alone : (Kept(f)' <=> Written(f)) /\ (Written(f)' <=> Written(f))
    BY <1>2, <1>7, <2>1, FlushWrites DEF Alone
  <2>3. PassedIsDone'
    BY <1>2, <1>7, <2>1, <2>2 DEF Indexed, PassedIsDone, Past
  <2> QED
    BY <1>2, <1>7, <2>1, <2>3, IndexedBetween DEF Walking
<1>8. ASSUME \A S \in NewScans : ~Begin(S), PassScope PROVE Indexed'
  <2>1. /\ phase = "check" /\ scope \in DOMAIN scopes
        /\ phase' = "scope" /\ batch = NoBatch /\ batch' = NoBatch /\ marks' = {}
        /\ cursor' = AfterScope(scope) /\ saved' = AfterScope(scope) /\ UNCHANGED <<index, skipped>>
    BY <1>8 DEF PassScope, NextScope, Shape, Bearings, Walking, store
  <2>2. \A f : (Kept(f)' <=> Written(f)) /\ (Written(f)' <=> Written(f))
    BY <1>2, <1>8, <2>1 DEF Kept, Written, Applied, NoBatch
  <2>3. ASSUME NEW k \in DOMAIN scopes, NEW f \in Alone, NEW p \in Path,
               Decided(scopes[k], f, p), Past(cursor, k, p)'
        PROVE  Written(f)
    <3>1. k < scope + 1 /\ k \notin skipped /\ k \in Nat
      BY <1>0, <2>1, <2>3 DEF Past, AfterScope
    <3>2. CASE k = scope
      BY <2>1, <2>3, <3>2 DEF Indexed, WalkedIsDone
    <3>3. CASE k < scope
      <4>1. k < cursor.index
        BY <1>0, <3>1, <3>3 DEF Shape, Bearings
      <4> QED
        BY <2>3, <3>1, <4>1 DEF Indexed, PassedIsDone, Past
    <3> QED
      BY <1>0, <3>1, <3>2, <3>3
  <2>4. PassedIsDone'
    <3>1. \A k, p : Past(saved, k, p)' <=> Past(cursor, k, p)'
      BY <2>1 DEF Past
    <3> QED
      BY <1>2, <1>8, <2>2, <2>3, <3>1 DEF PassedIsDone
  <2> QED
    BY <1>2, <1>8, <2>1, <2>4, IndexedBetween DEF Walking
<1>9. ASSUME \A S \in NewScans : ~Begin(S), EndScan \/ Halt \/ StoreFails PROVE Indexed'
  <2>1. /\ phase' = "idle" /\ batch' = NoBatch /\ marks' = {} /\ cursor' = Start
        /\ UNCHANGED <<index, saved, skipped>>
    BY <1>9 DEF EndScan, Halt, StoreFails, Forget, row, store, history
  <2>2. \A f : Kept(f)' <=> Kept(f)
    BY <1>2, <1>9, <2>1 DEF Kept
  <2>3. \A k \in DOMAIN scopes : \A p : ~Past(cursor, k, p)' /\ (Past(saved, k, p)' => Past(saved, k, p))
    BY <1>0, <2>1 DEF Past, Start
  <2>4. PassedIsDone'
    BY <1>2, <1>9, <2>2, <2>3 DEF Indexed, PassedIsDone
  <2> QED
    BY <1>2, <1>9, <2>1, <2>4, IndexedBetween DEF Walking
<1>10. ASSUME \A S \in NewScans : ~Begin(S), WalkScope PROVE Indexed'
  <2>1. /\ phase = "scope" /\ phase' = "walk" /\ scope \in DOMAIN scopes
        /\ stack' = {scopes[scope].path} /\ resume' \subseteq cursor.after
        /\ resume' # {} => cursor.index = scope
        /\ UNCHANGED <<index, batch, marks, cursor, saved, skipped, scope>>
    BY <1>0, <1>10, ScopesOfAScan DEF WalkScope, Shape, row, store, history
  <2>2. \A f : (Kept(f)' <=> Kept(f)) /\ (Written(f)' <=> Written(f))
    BY <1>2, <1>10, <2>1 DEF Kept, Written, Applied
  <2>3. PassedIsDone' /\ TrueNotes'
    BY <1>2, <1>10, <2>1, <2>2 DEF Indexed, PassedIsDone, Past, TrueNotes
  <2>4. ResumedIsDone'
    BY <1>2, <1>10, <2>1, <2>2 DEF Indexed, PassedIsDone, ResumedIsDone, Past, UpTo
  <2>5. StackInOrder'
    <3>1. scopes[scope].path \in Seq(Nat)
      BY <2>1, ScopesOfAScan, Constants DEF Shape
    <3> QED
      BY <1>2, <1>10, <2>1, <3>1, PrefixOfItself DEF StackInOrder
  <2>6. RestIsAhead'
    BY <1>2, <1>10, <2>1 DEF RestIsAhead, Ahead, Decided, Meets
  <2>7. TrueListing' /\ WalkedIsDone'
    BY <2>1 DEF TrueListing, WalkedIsDone
  <2> QED
    BY <1>2, <1>10, <2>3, <2>4, <2>5, <2>6, <2>7 DEF Indexed
<1>11. ASSUME \A S \in NewScans : ~Begin(S), WalkEnds PROVE Indexed'
  <2>1. /\ phase = "walk" /\ stack = {} /\ phase' = "check" /\ Persist(cursor) /\ batch' = NoBatch
        /\ saved' = cursor /\ UNCHANGED <<cursor, marks, skipped, scope>>
    BY <1>11 DEF WalkEnds, Persist, history
  <2>2. \A f \in Alone : (Kept(f)' <=> Written(f)) /\ (Written(f)' <=> Written(f))
    BY <1>2, <1>11, <2>1, FlushWrites DEF Alone
  <2>3. PassedIsDone'
    BY <1>2, <1>11, <2>1, <2>2 DEF Indexed, PassedIsDone, Past
  <2>4. TrueNotes'
    BY <1>2, <1>11, <2>1 DEF Indexed, TrueNotes, NoBatch
  <2>5. WalkedIsDone'
    BY <1>2, <1>11, <2>1, <2>2 DEF Indexed, RestIsAhead, WalkedIsDone, Ahead, AtHand, Walking
  <2>6. ResumedIsDone' /\ TrueListing' /\ StackInOrder' /\ RestIsAhead'
    BY <2>1 DEF ResumedIsDone, TrueListing, StackInOrder, RestIsAhead, Walking
  <2> QED
    BY <1>2, <1>11, <2>3, <2>4, <2>5, <2>6 DEF Indexed
<1> QED
  BY <1>4, <1>5, <1>6, <1>7, <1>8, <1>9, <1>10, <1>11 DEF ScanStep

(* At first no scan has passed anything.                                   *)
LEMMA IndexedStart == Init => Indexed
<1> SUFFICES ASSUME Init PROVE Indexed
  OBVIOUS
<1>1. DOMAIN scopes = {} /\ mounted = Root /\ phase = "idle" /\ batch = NoBatch /\ marks = {}
  BY DEF Init, Idle
<1>2. StillThere /\ TrueNotes /\ PassedIsDone
  BY <1>1, Constants DEF StillThere, Alone, TrueNotes, NoBatch, PassedIsDone
<1>3. ResumedIsDone /\ TrueListing /\ StackInOrder /\ RestIsAhead /\ WalkedIsDone
  BY <1>1 DEF ResumedIsDone, TrueListing, StackInOrder, RestIsAhead, WalkedIsDone, Walking
<1> QED
  BY <1>2, <1>3 DEF Indexed

(* Nothing changes when nothing does.                                      *)
LEMMA IndexedStutters ==
  ASSUME Indexed, UNCHANGED vars
  PROVE  Indexed'
<1>0. /\ UNCHANGED <<files, mounted, index, scopes, saved, phase, cursor, scope, resume, stack>>
      /\ UNCHANGED <<listing, marks, batch, disturbed, skipped>>
  BY DEF vars, host, row, store, memory, history
<1>1. /\ Alone' = Alone /\ TheRoot' = TheRoot
      /\ \A s, f, p : Decided(s, f, p)' <=> Decided(s, f, p)
      /\ \A r, p : OnDisk(r, p)' <=> OnDisk(r, p)
  BY <1>0, SameDecisions
<1>2. \A f : (Kept(f)' <=> Kept(f)) /\ (Written(f)' <=> Written(f))
  BY <1>0 DEF Kept, Written, Applied
<1>3. StillThere' /\ TrueNotes' /\ PassedIsDone' /\ ResumedIsDone'
  BY <1>0, <1>1, <1>2 DEF Indexed, StillThere, TrueNotes, PassedIsDone, ResumedIsDone, Past, UpTo
<1>4. TrueListing' /\ StackInOrder' /\ RestIsAhead' /\ WalkedIsDone'
  BY <1>0, <1>1, <1>2 DEF Indexed, TrueListing, StackInOrder, RestIsAhead, WalkedIsDone, Ahead, AtHand
<1> QED
  BY <1>3, <1>4 DEF Indexed

(* Every step keeps what the index has of what was passed.                 *)
LEMMA IndexedStep == Shape /\ Indexed /\ [Next]_vars => Indexed'
<1>1. ASSUME Shape, Indexed, WalkStep PROVE Indexed'
  BY <1>1, IndexedStack, IndexedRead, IndexedMarks DEF WalkStep
<1> QED
  BY <1>1, IndexedScan, IndexedHost, IndexedStutters, Steps

(* What a walk has done, what it notes and what lies ahead of it account   *)
(* for every folder left alone (run_scan, Walk, Writer).                   *)
THEOREM WalksAccountForAll == Spec => []Indexed
<1>1. Init => Indexed
  BY IndexedStart
<1> QED
  BY <1>1, IndexedStep, ScanShape, PTL DEF Spec

(* No crash, stop or failure leaves the row past work it has not           *)
(* persisted, whatever the tree and the scopes: every folder left alone    *)
(* that the saved cursor is past is indexed as it is on disk.              *)
THEOREM NoResumeMissesAFolder == Spec => []PassedFoldersAreIndexed
<1>1. ASSUME Shape, Indexed, NEW k \in DOMAIN scopes \ skipped, NEW f \in Folder \ disturbed,
             Visits(scopes[k], f), Behind(saved, k, f.path)
      PROVE  index[f] = "present" <=> f \in files
  <2>1. PICK p \in Path : Meets(scopes[k], f, p)
    BY <1>1, ScopesOfAScan, EachIsMet DEF Shape
  <2>2. f \in Alone /\ Decided(scopes[k], f, p)
    BY <1>1, <2>1 DEF Alone, Decided
  <2>3. Past(saved, k, p)
    <3>1. CASE k < saved.index
      BY <1>1, <3>1 DEF Past
    <3>2. ASSUME k = saved.index, NEW last \in saved.after, UpTo(f.path, last) PROVE Past(saved, k, p)
      <4>1. f.path \in Seq(Nat) /\ p \in Seq(Nat) /\ last \in Seq(Nat) /\ StartsWith(f.path, p)
        BY <1>1, <2>1, <3>2, Constants DEF Meets, Shape, TypeOK, Cursor
      <4>2. UpTo(p, last)
        BY <3>2, <4>1, WayToDoneIsDone
      <4> QED
        BY <3>2, <4>2 DEF Past
    <3> QED
      BY <1>1, <3>1, <3>2 DEF Behind, UpTo
  <2> QED
    BY <1>1, <2>2, <2>3 DEF Indexed, PassedIsDone, Kept
<1>2. Shape /\ Indexed => PassedFoldersAreIndexed
  BY <1>1 DEF PassedFoldersAreIndexed
<1> QED
  BY <1>2, ScanShape, WalksAccountForAll, PTL

-----------------------------------------------------------------------------
-----------------------------------------------------------------------------
Claim == [file : File, version : Nat]

InPass == {"taking", "next", "decoding", "judging", "keeping"}
Said == {"none", "open", "ok", "content", "attempt", "host"}
Pass == [job : Job, step : InPass, claims : SUBSET Claim, said : Said, made : Nat,
         measured : Int]

JobsTypes ==
    /\ threads \in [1 .. Size + 1 -> {Free} \cup Pass]
    /\ next \in Int /\ running \in [Library -> Int]
    /\ rows \in [File -> [version : Nat, measured : Int]]
    /\ disk \in [File -> Nat]
    /\ resting \subseteq Job /\ struck \subseteq File /\ waiting \subseteq File

(* What a thread has in hand is of its job, each file once, and in no      *)
(* other thread's hands (Retries.take).                                    *)
ClaimsAreApart ==
    /\ \A t \in Threads : \A c \in threads[t].claims :
           /\ c.file \in Files[threads[t].job]
           /\ \A d \in threads[t].claims : c.file = d.file => c = d
    /\ \A t, u \in Threads : t # u => Claimed(t) \cap Claimed(u) = {}
    /\ \A t \in Threads : threads[t].step \in {"decoding", "judging", "keeping"} =>
           threads[t].claims # {}

(* A row is never ahead of the disk nor behind what was picked; it has a   *)
(* result for what was picked only once that is given back.                *)
ClaimsAreOpen ==
    /\ \A f \in File : rows[f].version <= disk[f]
    /\ \A t \in Threads : \A c \in threads[t].claims :
           /\ c.version <= rows[c.file].version
           /\ c.version = rows[c.file].version => rows[c.file].measured = None

(* The count of a library's passes is that of the threads in them, and no  *)
(* more than its share (Due.running).                                      *)
Busy(l) == {t \in Threads : threads[t].step # "free" /\ LibraryOf[threads[t].job] = l}
RunningIsCounted ==
    \A l \in Library : running[l] = Cardinality(Busy(l)) /\ running[l] <= Size

JobsInv == JobsTypes /\ ClaimsAreApart /\ ClaimsAreOpen /\ RunningIsCounted

-----------------------------------------------------------------------------
(* What the proofs need of the constants.                                  *)
LEMMA Constant ==
  /\ Job \subseteq Nat /\ File \subseteq Nat /\ 0 \in Int
  /\ Size \in Nat \ {0} /\ Threads \subseteq 1 .. Size + 1 /\ Threads \subseteq Nat
  /\ IsFiniteSet(Threads)
  /\ Cardinality(Threads) = IF Cardinality(Library) > 1 THEN Size + 1 ELSE Size
  /\ \A j \in Job : LibraryOf[j] \in Library /\ Files[j] \subseteq File
<1>1. Job \subseteq Nat /\ File \subseteq Nat /\ Size \in Nat \ {0} /\ IsFiniteSet(Job)
  BY JobsAssumption, FS_CardinalityType DEF File
<1>2. /\ Threads \subseteq 1 .. Size + 1 /\ Threads \subseteq Nat /\ IsFiniteSet(Threads)
      /\ Cardinality(Threads) = IF Cardinality(Library) > 1 THEN Size + 1 ELSE Size
  BY <1>1, FS_Interval DEF Threads
<1> QED
  BY <1>1, <1>2 DEF Library, File

(* What a thread has.                                                      *)
LEMMA ThreadType ==
  ASSUME JobsTypes, NEW t \in Threads
  PROVE  /\ threads[t] \in {Free} \cup Pass
         /\ threads[t].claims \subseteq Claim
         /\ threads[t].step \in InPass =>
                /\ threads[t] \in Pass /\ threads[t].job \in Job
                /\ LibraryOf[threads[t].job] \in Library
<1>1. threads[t] \in {Free} \cup Pass
  BY Constant DEF JobsTypes
<1>2. Free.claims = {} /\ Free.step \notin InPass
  BY DEF Free, InPass
<1>3. \A x \in Pass : x.claims \subseteq Claim /\ x.job \in Job
  BY DEF Pass
<1> QED
  BY <1>1, <1>2, <1>3, Constant

(* What is picked of some claims is one of them.                           *)
LEMMA CurrentIsClaimed ==
  ASSUME JobsTypes, NEW t \in Threads, threads[t].claims # {}
  PROVE  Current(t) \in threads[t].claims /\ Current(t) \in Claim
<1>1. threads[t].claims \subseteq Claim
  BY ThreadType
<1> DEFINE Numbers == {c.file : c \in threads[t].claims}
           Less == {ss \in Nat \X Nat : ss[1] < ss[2]}
<1>2. Numbers \subseteq Nat /\ Numbers # {}
  BY <1>1, Constant DEF Claim
<1>3. OpToRel(<, Nat) = Less
  BY DEF OpToRel
<1>4. IsWellFoundedOn(Less, Nat)
  BY <1>3, NatLessThanWellFounded
<1>5. \E x \in Numbers : \A y \in Numbers : x <= y
  <2> HIDE DEF Less, Numbers
  <2>1. \E x \in Numbers : \A y \in Numbers : ~ (<<y, x>> \in Less)
    BY <1>2, <1>4, WFMin
  <2>2. \A x, y \in Numbers : <<y, x>> \notin Less => x <= y
    BY <1>2 DEF Less
  <2> QED
    BY <2>1, <2>2
<1>6. \E c \in threads[t].claims : \A d \in threads[t].claims : c.file <= d.file
  BY <1>5
<1>7. Current(t) \in threads[t].claims
  BY <1>6 DEF Current
<1> QED
  BY <1>1, <1>7

-----------------------------------------------------------------------------
(* A pass goes on: its thread lets claims go at most.                      *)
GoesOn(t, x) ==
    /\ threads[t].step \in InPass /\ x \in Pass /\ x.job = threads[t].job
    /\ threads' = [threads EXCEPT ![t] = x]
    /\ x.claims \subseteq threads[t].claims
    /\ x.step \in {"decoding", "judging", "keeping"} => x.claims # {}

LEMMA GoingOn ==
  ASSUME JobsInv, NEW t \in Threads, NEW x, GoesOn(t, x)
  PROVE  /\ threads' \in [1 .. Size + 1 -> {Free} \cup Pass]
         /\ ClaimsAreApart'
         /\ UNCHANGED <<rows, disk>> => ClaimsAreOpen'
         /\ UNCHANGED running => RunningIsCounted'
<1>1. \A u \in Threads : threads'[u] = IF u = t THEN x ELSE threads[u]
  BY Constant DEF JobsInv, JobsTypes, GoesOn
<1>2. threads' \in [1 .. Size + 1 -> {Free} \cup Pass]
  BY Constant DEF JobsInv, JobsTypes, GoesOn
<1>3. ClaimsAreApart'
  <2>1. \A u \in Threads : threads'[u].claims \subseteq threads[u].claims
    BY <1>1 DEF GoesOn
  <2>2. \A u \in Threads : Claimed(u)' \subseteq Claimed(u)
    BY <2>1 DEF Claimed
  <2>3. \A u, v \in Threads : u # v => Claimed(u)' \cap Claimed(v)' = {}
    BY <2>2 DEF JobsInv, ClaimsAreApart
  <2>4. ASSUME NEW u \in Threads
        PROVE  /\ \A c \in threads'[u].claims :
                      /\ c.file \in Files[threads'[u].job]
                      /\ \A d \in threads'[u].claims : c.file = d.file => c = d
               /\ threads'[u].step \in {"decoding", "judging", "keeping"} =>
                      threads'[u].claims # {}
    BY <1>1, <2>1 DEF JobsInv, ClaimsAreApart, GoesOn
  <2> QED
    BY <2>3, <2>4 DEF ClaimsAreApart
<1>4. UNCHANGED <<rows, disk>> => ClaimsAreOpen'
  BY <1>1 DEF JobsInv, ClaimsAreOpen, GoesOn
<1>5. \A l : Busy(l)' = Busy(l)
  BY <1>1 DEF Busy, GoesOn, Pass, InPass
<1>6. UNCHANGED running => RunningIsCounted'
  BY <1>5 DEF JobsInv, RunningIsCounted
<1> QED
  BY <1>2, <1>3, <1>4, <1>6

(* A pass ends: its thread is free, its claims are given back and its      *)
(* library runs one pass less.                                             *)
LEMMA Ending ==
  ASSUME JobsInv, NEW t \in Threads, NEW idle \in BOOLEAN, Ended(t, idle),
         threads[t].step \in InPass
  PROVE  /\ threads' \in [1 .. Size + 1 -> {Free} \cup Pass]
         /\ next' \in Int /\ running' \in [Library -> Int] /\ resting' \subseteq Job
         /\ ClaimsAreApart'
         /\ UNCHANGED <<rows, disk>> => ClaimsAreOpen'
         /\ RunningIsCounted'
<1> DEFINE j == threads[t].job
           k == LibraryOf[j]
<1>1. \A u \in Threads : threads'[u] = IF u = t THEN Free ELSE threads[u]
  BY Constant DEF JobsInv, JobsTypes, Ended
<1>2. threads' \in [1 .. Size + 1 -> {Free} \cup Pass]
  BY Constant DEF JobsInv, JobsTypes, Ended
<1>3. j \in Job /\ k \in Library
  BY ThreadType DEF JobsInv
<1>4. running' = [running EXCEPT ![k] = @ - 1] /\ running \in [Library -> Int]
  BY DEF Ended, JobsInv, JobsTypes
<1>5. next' \in Int /\ resting' \subseteq Job /\ running' \in [Library -> Int]
  BY <1>3, <1>4 DEF Ended, JobsInv, JobsTypes
<1>0. Free.claims = {} /\ Free.step = "free"
  BY DEF Free
<1>6. ClaimsAreApart'
  <2>1. \A u \in Threads : threads'[u].claims \subseteq threads[u].claims
    BY <1>0, <1>1
  <2>2. \A u \in Threads : Claimed(u)' \subseteq Claimed(u)
    BY <2>1 DEF Claimed
  <2>3. \A u, v \in Threads : u # v => Claimed(u)' \cap Claimed(v)' = {}
    BY <2>2 DEF JobsInv, ClaimsAreApart
  <2>4. ASSUME NEW u \in Threads
        PROVE  /\ \A c \in threads'[u].claims :
                      /\ c.file \in Files[threads'[u].job]
                      /\ \A d \in threads'[u].claims : c.file = d.file => c = d
               /\ threads'[u].step \in {"decoding", "judging", "keeping"} =>
                      threads'[u].claims # {}
    BY <1>0, <1>1, <2>1 DEF JobsInv, ClaimsAreApart
  <2> QED
    BY <2>3, <2>4 DEF ClaimsAreApart
<1>7. UNCHANGED <<rows, disk>> => ClaimsAreOpen'
  BY <1>0, <1>1 DEF JobsInv, ClaimsAreOpen
<1>8. \A l \in Library : Busy(l)' = IF l = k THEN Busy(l) \ {t} ELSE Busy(l)
  BY <1>0, <1>1 DEF Busy
<1>9. t \in Busy(k)
  BY DEF Busy, InPass
<1>10. ASSUME NEW l \in Library
       PROVE  running'[l] = Cardinality(Busy(l)') /\ running'[l] <= Size
  <2>1. IsFiniteSet(Busy(l)) /\ Busy(l) \subseteq Threads
    BY Constant, FS_Subset DEF Busy
  <2>2. running[l] = Cardinality(Busy(l)) /\ running[l] <= Size /\ running[l] \in Int
    BY <1>4 DEF JobsInv, RunningIsCounted
  <2>3. CASE l = k
    <3>1. Cardinality(Busy(l) \ {t}) = Cardinality(Busy(l)) - 1
      BY <1>9, <2>1, <2>3, FS_RemoveElement
    <3>2. running'[l] = running[l] - 1
      BY <1>4, <2>3
    <3>3. Cardinality(Busy(l)') = Cardinality(Busy(l)) - 1
      BY <1>8, <2>3, <3>1
    <3> QED
      BY <2>2, <3>2, <3>3, Constant
  <2>4. CASE l # k
    BY <1>4, <1>8, <2>2, <2>4
  <2> QED
    BY <2>3, <2>4
<1> QED
  BY <1>2, <1>5, <1>6, <1>7, <1>10 DEF RunningIsCounted

-----------------------------------------------------------------------------
(* Every pass starts free of claims.                                       *)
LEMMA Starting ==
  ASSUME JobsInv, NEW t \in Threads, Picks(t)
  PROVE  JobsInv'
<1>1. PICK j \in Job :
        /\ Due(j)
        /\ threads' = [threads EXCEPT ![t] = [Free EXCEPT !.job = j, !.step = "taking"]]
        /\ next' = (j + 1) % Cardinality(Job)
        /\ running' = [running EXCEPT ![LibraryOf[j]] = @ + 1]
  BY DEF Picks
<1> DEFINE x == [Free EXCEPT !.job = j, !.step = "taking"]
           k == LibraryOf[j]
<1>2. /\ x \in Pass /\ x.claims = {} /\ x.job = j /\ x.step = "taking"
      /\ threads[t].step = "free"
  <2>1. Free \in [job : Int, step : InPass \cup {"free"}, claims : SUBSET Claim, said : Said,
                  made : Nat, measured : Int]
    BY DEF Free, InPass, Said, None
  <2>2. x \in Pass
    BY <2>1 DEF Pass, InPass
  <2> QED
    BY <2>2 DEF Picks, Free
<1>3. k \in Library
  BY Constant
<1> HIDE DEF x, k
<1>4. /\ \A u \in Threads : threads'[u] = IF u = t THEN x ELSE threads[u]
      /\ threads' \in [1 .. Size + 1 -> {Free} \cup Pass]
  BY <1>1, <1>2, Constant DEF JobsInv, JobsTypes, x
<1>5. /\ running' = [running EXCEPT ![k] = @ + 1]
      /\ running \in [Library -> Int] /\ running' \in [Library -> Int] /\ running[k] < Size
  BY <1>1, <1>3 DEF k, JobsInv, JobsTypes, Due, Open
<1>6. next' \in Int
  <2>1. Cardinality(Job) \in Nat /\ j \in Nat /\ j <= Cardinality(Job) - 1
    BY JobsAssumption, FS_CardinalityType
  <2>2. Cardinality(Job) > 0
    BY <2>1
  <2> QED
    BY <1>1, <2>1, <2>2
<1>7. JobsTypes'
  BY <1>4, <1>5, <1>6 DEF JobsInv, JobsTypes, Picks, retries, nature
<1>8. ClaimsAreApart'
  <2>1. ASSUME NEW u \in Threads
        PROVE  /\ u # t => threads'[u] = threads[u]
               /\ u = t => threads'[u].claims = {} /\ threads'[u].step = "taking"
    BY <1>2, <1>4
  <2>2. ASSUME NEW u \in Threads
        PROVE  Claimed(u)' = IF u = t THEN {} ELSE Claimed(u)
    BY <2>1 DEF Claimed
  <2>3. \A u, w \in Threads : u # w => Claimed(u)' \cap Claimed(w)' = {}
    BY <2>2 DEF JobsInv, ClaimsAreApart
  <2>4. ASSUME NEW u \in Threads
        PROVE  /\ \A c \in threads'[u].claims :
                      /\ c.file \in Files[threads'[u].job]
                      /\ \A d \in threads'[u].claims : c.file = d.file => c = d
               /\ threads'[u].step \in {"decoding", "judging", "keeping"} =>
                      threads'[u].claims # {}
    BY <2>1 DEF JobsInv, ClaimsAreApart
  <2> QED
    BY <2>3, <2>4 DEF ClaimsAreApart
<1>9. ClaimsAreOpen'
  BY <1>2, <1>4 DEF JobsInv, ClaimsAreOpen, Picks, nature
<1>10. \A l \in Library : Busy(l)' = IF l = k THEN Busy(l) \cup {t} ELSE Busy(l)
  BY <1>2, <1>4 DEF Busy, k
<1>11. ASSUME NEW l \in Library
       PROVE  running'[l] = Cardinality(Busy(l)') /\ running'[l] <= Size
  <2>1. IsFiniteSet(Busy(l)) /\ Busy(l) \subseteq Threads /\ t \notin Busy(l)
    BY <1>2, Constant, FS_Subset DEF Busy
  <2>2. running[l] = Cardinality(Busy(l)) /\ running[l] <= Size /\ running[l] \in Int
    BY <1>5 DEF JobsInv, RunningIsCounted
  <2>3. CASE l = k
    <3>1. Cardinality(Busy(l) \cup {t}) = Cardinality(Busy(l)) + 1
      BY <2>1, FS_AddElement
    <3>2. running'[l] = running[l] + 1
      BY <1>5, <2>3
    <3>3. Cardinality(Busy(l)') = Cardinality(Busy(l)) + 1
      BY <1>10, <2>3, <3>1
    <3> QED
      BY <1>5, <2>2, <2>3, <3>2, <3>3, Constant
  <2>4. CASE l # k
    BY <1>5, <1>10, <2>2, <2>4
  <2> QED
    BY <2>3, <2>4
<1> QED
  BY <1>7, <1>8, <1>9, <1>11 DEF JobsInv, RunningIsCounted

(* What a pass takes is in no other's hands, and has no result.            *)
LEMMA Taking ==
  ASSUME JobsInv, NEW t \in Threads, Take(t)
  PROVE  JobsInv'
<1> DEFINE j     == threads[t].job
           share == Limit + 2 * Cardinality(waiting \cap Files[j])
           found == FirstOf(Unanalyzed(j), share + Cardinality(Taken(j)))
           free  == FirstOf(found \ (waiting \cup Taken(j)), share)
           claims == {[file |-> f, version |-> rows[f].version] : f \in free}
           x == [threads[t] EXCEPT !.step = "next", !.claims = claims]
<1>1. threads[t].step = "taking" /\ threads[t].step \in InPass
  BY DEF Take, InPass
<1>2. threads[t] \in Pass /\ j \in Job
  BY <1>1, ThreadType DEF JobsInv
<1>3. /\ free \subseteq Files[j] /\ free \cap Taken(j) = {}
      /\ \A f \in free : rows[f].measured = None
  BY DEF FirstOf, Unanalyzed
<1> HIDE DEF free
<1>4. /\ claims \subseteq Claim
      /\ \A c \in claims : /\ c.file \in free /\ c.version = rows[c.file].version
      /\ {c.file : c \in claims} \subseteq free
  <2>1. free \subseteq File
    BY <1>2, <1>3, Constant
  <2> QED
    BY <2>1 DEF Claim, JobsInv, JobsTypes
<1> HIDE DEF claims
<1>5. CASE StoreFailed(t)
  BY <1>1, <1>5, Ending DEF StoreFailed, Take, JobsInv, JobsTypes, retries, nature
<1>6. CASE /\ threads' = [threads EXCEPT ![t].step = "next", ![t].claims = claims]
           /\ UNCHANGED <<schedule, faults>>
  <2>1. /\ x \in Pass /\ x.claims = claims /\ x.job = j /\ x.step = "next"
    BY <1>2, <1>4 DEF Pass, InPass
  <2>2. threads' = [threads EXCEPT ![t] = x]
    BY <1>6
  <2> HIDE DEF x
  <2>3. /\ \A u \in Threads : threads'[u] = IF u = t THEN x ELSE threads[u]
        /\ threads' \in [1 .. Size + 1 -> {Free} \cup Pass]
    BY <2>1, <2>2, Constant DEF JobsInv, JobsTypes
  <2>4. UNCHANGED <<next, running, resting, rows, struck, waiting, disk>>
    BY <1>6 DEF Take, schedule, retries, nature
  <2>5. JobsTypes'
    BY <2>3, <2>4 DEF JobsInv, JobsTypes
  <2>6. ASSUME NEW u \in Threads, u # t
        PROVE  Claimed(u) \cap {c.file : c \in claims} = {}
    <3>1. CASE threads[u].job = j
      <4>1. Claimed(u) \subseteq Taken(j)
        BY <3>1 DEF Taken
      <4> QED
        BY <1>3, <1>4, <4>1
    <3>2. CASE threads[u].job # j /\ threads[u].step \in InPass
      <4>1. threads[u].job \in Job
        BY <3>2, ThreadType DEF JobsInv
      <4>2. Files[threads[u].job] \cap Files[j] = {}
        BY <1>2, <3>2, <4>1, JobsAssumption
      <4>3. Claimed(u) \subseteq Files[threads[u].job]
        BY DEF JobsInv, ClaimsAreApart, Claimed
      <4> QED
        BY <1>3, <1>4, <4>2, <4>3
    <3>3. CASE threads[u].step \notin InPass
      <4>1. threads[u] = Free
        BY <3>3, ThreadType DEF JobsInv, Pass
      <4>2. threads[u].claims = {}
        BY <4>1 DEF Free
      <4> QED
        BY <4>2 DEF Claimed
    <3> QED
      BY <3>1, <3>2, <3>3
  <2>7. ClaimsAreApart'
    <3>1. \A u \in Threads : Claimed(u)' = IF u = t THEN {c.file : c \in claims} ELSE Claimed(u)
      BY <2>1, <2>3 DEF Claimed
    <3>2. \A c, d \in claims : c.file = d.file => c = d
      BY DEF claims
    <3>3. \A c \in claims : c.file \in Files[j]
      BY <1>3, <1>4
    <3>4. \A u, v \in Threads : u # v => Claimed(u)' \cap Claimed(v)' = {}
      BY <2>6, <3>1 DEF JobsInv, ClaimsAreApart
    <3>5. ASSUME NEW u \in Threads
          PROVE  /\ \A c \in threads'[u].claims :
                        /\ c.file \in Files[threads'[u].job]
                        /\ \A d \in threads'[u].claims : c.file = d.file => c = d
                 /\ threads'[u].step \in {"decoding", "judging", "keeping"} =>
                        threads'[u].claims # {}
      BY <2>1, <2>3, <3>2, <3>3 DEF JobsInv, ClaimsAreApart
    <3> QED
      BY <3>4, <3>5 DEF ClaimsAreApart
  <2>8. ClaimsAreOpen'
    <3>1. \A c \in claims : /\ c.version <= rows[c.file].version
                            /\ rows[c.file].measured = None
      BY <1>3, <1>4 DEF Claim
    <3> QED
      BY <2>1, <2>3, <2>4, <3>1 DEF JobsInv, ClaimsAreOpen
  <2>9. RunningIsCounted'
    <3>1. \A l : Busy(l)' = Busy(l)
      BY <1>1, <2>1, <2>3 DEF Busy
    <3> QED
      BY <2>4, <3>1 DEF JobsInv, RunningIsCounted
  <2> QED
    BY <2>5, <2>7, <2>8, <2>9 DEF JobsInv
<1> QED
  BY <1>5, <1>6 DEF Take, claims, free

-----------------------------------------------------------------------------
(* A pass that panics, or that the store fails, ends.                      *)
LEMMA Failing ==
  ASSUME JobsInv, NEW t \in Threads, threads[t].step \in InPass, StoreFailed(t),
         struck' \subseteq File, waiting' \subseteq File, UNCHANGED <<rows, nature>>
  PROVE  JobsInv'
  BY Ending DEF StoreFailed, JobsInv, JobsTypes, nature

LEMMA Panicking ==
  ASSUME JobsInv, NEW t \in Threads, Panics(t)
  PROVE  JobsInv'
<1>1. threads[t].step \in InPass /\ Ended(t, TRUE)
  BY DEF Panics, InPass
<1> QED
  BY <1>1, Ending DEF Panics, JobsInv, JobsTypes, retries, nature

(* A pass goes on, and rows, claims' versions and the disk stay.           *)
LEMMA Going ==
  ASSUME JobsInv, NEW t \in Threads, NEW x, GoesOn(t, x), UNCHANGED <<schedule, rows, disk>>,
         struck' \subseteq File, waiting' \subseteq File
  PROVE  JobsInv'
<1>1. UNCHANGED <<next, running, resting, rows, disk>>
  BY DEF schedule
<1> QED
  BY <1>1, GoingOn DEF JobsInv, JobsTypes

(* The file after the last.                                                *)
LEMMA Beginning ==
  ASSUME JobsInv, NEW t \in Threads, Begins(t)
  PROVE  JobsInv'
<1>1. threads[t].step \in InPass /\ threads[t] \in Pass
  BY ThreadType DEF Begins, InPass, JobsInv
<1>2. struck' \subseteq File /\ waiting' \subseteq File /\ UNCHANGED <<rows, nature>>
  BY DEF Begins, retries, JobsInv, JobsTypes
<1>3. CASE Ended(t, threads[t].made = 0)
  <2>1. (threads[t].made = 0) \in BOOLEAN
    OBVIOUS
  <2> QED
    BY <1>1, <1>2, <1>3, <2>1, Ending DEF JobsInv, JobsTypes, nature
<1>4. CASE ~(threads[t].made >= Limit \/ threads[t].claims = {})
  <2> DEFINE step == IF Reachable(Current(t).file) THEN "decoding" ELSE "judging"
             said == IF Reachable(Current(t).file) THEN "none" ELSE "open"
             x == [threads[t] EXCEPT !.step = step, !.said = said]
  <2>1. step \in {"decoding", "judging"} /\ said \in Said
    BY DEF Said
  <2> HIDE DEF step, said
  <2>2. GoesOn(t, x)
    <3>1. x \in Pass /\ x.job = threads[t].job /\ x.claims = threads[t].claims
      BY <1>1, <2>1 DEF Pass, InPass
    <3>2. threads' = [threads EXCEPT ![t] = x]
      BY <1>4 DEF Begins, step, said
    <3> HIDE DEF x
    <3> QED
      BY <1>1, <1>4, <3>1, <3>2 DEF GoesOn
  <2>3. UNCHANGED schedule
    BY <1>4 DEF Begins
  <2> QED
    BY <1>2, <2>2, <2>3, Going DEF nature
<1> QED
  BY <1>3, <1>4 DEF Begins

LEMMA Decoding ==
  ASSUME JobsInv, NEW t \in Threads, Decodes(t)
  PROVE  JobsInv'
<1>1. threads[t].step \in InPass /\ threads[t] \in Pass /\ threads[t].claims # {}
  BY ThreadType DEF Decodes, InPass, JobsInv, ClaimsAreApart
<1>2. Current(t).file \in File
  BY <1>1, CurrentIsClaimed DEF JobsInv, Claim
<1>3. PICK said \in {"ok", "content", "attempt", "host"} :
        threads' = [threads EXCEPT ![t].step = "judging", ![t].said = said,
            ![t].measured = IF said = "ok" THEN disk[Current(t).file] ELSE Empty]
  BY DEF Decodes
<1> DEFINE measured == IF said = "ok" THEN disk[Current(t).file] ELSE Empty
           x == [threads[t] EXCEPT !.step = "judging", !.said = said, !.measured = measured]
<1>4. measured \in Int /\ said \in Said
  BY <1>2 DEF JobsInv, JobsTypes, Empty, Said
<1>5. GoesOn(t, x)
  <2> HIDE DEF measured
  <2>1. x \in Pass /\ x.job = threads[t].job /\ x.claims = threads[t].claims
    BY <1>1, <1>4 DEF Pass, InPass
  <2>2. threads' = [threads EXCEPT ![t] = x]
    BY <1>3 DEF measured
  <2> HIDE DEF x
  <2> QED
    BY <1>1, <2>1, <2>2 DEF GoesOn
<1> QED
  BY <1>5, Going DEF Decodes, retries, nature, JobsInv, JobsTypes

-----------------------------------------------------------------------------
(* A verdict, and what follows of it.                                      *)
LEMMA Keeping ==
  ASSUME JobsInv, NEW t \in Threads, ToKeep(t), threads[t].step = "judging"
  PROVE  \E x : GoesOn(t, x)
<1>1. threads[t].step \in InPass /\ threads[t] \in Pass /\ threads[t].claims # {}
  BY ThreadType DEF InPass, JobsInv, ClaimsAreApart
<1> DEFINE x == [threads[t] EXCEPT !.step = "keeping"]
<1>2. x \in Pass /\ x.job = threads[t].job /\ x.claims = threads[t].claims
  BY <1>1 DEF Pass, InPass
<1>3. threads' = [threads EXCEPT ![t] = x]
  BY DEF ToKeep
<1> HIDE DEF x
<1> QED
  BY <1>1, <1>2, <1>3 DEF GoesOn

LEMMA Dropping ==
  ASSUME JobsInv, NEW t \in Threads, NEW made \in Nat, Drops(t, made),
         threads[t].step \in {"judging", "keeping"}
  PROVE  \E x : GoesOn(t, x) /\ x.claims = threads[t].claims \ {Current(t)}
<1>1. threads[t].step \in InPass /\ threads[t] \in Pass
  BY ThreadType DEF InPass, JobsInv
<1> DEFINE claims == threads[t].claims \ {Current(t)}
           more == threads[t].made + made
           x == [threads[t] EXCEPT !.step = "next", !.claims = claims,
                     !.said = "none", !.measured = None, !.made = more]
<1>2. claims \in SUBSET Claim /\ more \in Nat /\ "none" \in Said /\ None \in Int
  BY <1>1 DEF Pass, Said, None
<1>3. threads' = [threads EXCEPT ![t] = x]
  BY DEF Drops
<1> HIDE DEF claims, more
<1>4. /\ x \in Pass /\ x.job = threads[t].job /\ x.step = "next"
      /\ x.claims = claims
  BY <1>1, <1>2 DEF Pass, InPass
<1> HIDE DEF x
<1> QED
  BY <1>1, <1>3, <1>4 DEF GoesOn, claims

LEMMA Succeeding ==
  ASSUME JobsInv, NEW t \in Threads, Succeeded(t)
  PROVE  JobsInv'
<1>1. threads[t].step = "judging" /\ threads[t].step \in InPass
  BY DEF Succeeded, InPass
<1>2. struck' \subseteq File /\ waiting' \subseteq File
  BY DEF Succeeded, retries, JobsInv, JobsTypes
<1>3. CASE StoreFailed(t)
  BY <1>1, <1>2, <1>3, Failing DEF Succeeded
<1>4. CASE ToKeep(t)
  <2>1. PICK x : GoesOn(t, x)
    BY <1>1, <1>4, Keeping
  <2> QED
    BY <1>2, <1>4, <2>1, Going DEF Succeeded, ToKeep, nature
<1> QED
  BY <1>3, <1>4 DEF Succeeded

LEMMA FailingOf ==
  ASSUME JobsInv, NEW t \in Threads, Failed(t)
  PROVE  JobsInv'
<1>1. threads[t].step = "judging" /\ threads[t].step \in InPass
  BY DEF Failed, InPass
<1>2. Current(t).file \in File
  BY <1>1, CurrentIsClaimed DEF JobsInv, ClaimsAreApart, Claim
<1>3. struck' \subseteq File /\ waiting' \subseteq File
  BY <1>2 DEF Failed, JobsInv, JobsTypes
<1>4. CASE Ended(t, TRUE)
  BY <1>1, <1>3, <1>4, Ending DEF Failed, JobsInv, JobsTypes, nature
<1>5. CASE StoreFailed(t)
  BY <1>1, <1>3, <1>5, Failing DEF Failed
<1>6. CASE ToKeep(t)
  <2>1. PICK x : GoesOn(t, x)
    BY <1>1, <1>6, Keeping
  <2> QED
    BY <1>3, <1>6, <2>1, Going DEF Failed, ToKeep, nature
<1>7. CASE Drops(t, 0) /\ UNCHANGED schedule
  <2>1. PICK x : GoesOn(t, x)
    BY <1>1, <1>7, Dropping
  <2> QED
    BY <1>3, <1>7, <2>1, Going DEF Failed, nature
<1> QED
  BY <1>4, <1>5, <1>6, <1>7 DEF Failed

(* A result is stored for what was picked, and that is given back: no      *)
(* other thread has the file in hand.                                      *)
LEMMA Storing ==
  ASSUME JobsInv, NEW t \in Threads, Keeps(t)
  PROVE  JobsInv'
<1> DEFINE c == Current(t)
<1>1. threads[t].step \in InPass /\ threads[t] \in Pass
  BY ThreadType DEF Keeps, InPass, JobsInv
<1>2. c \in threads[t].claims /\ c.file \in File
  BY CurrentIsClaimed DEF Keeps, JobsInv, ClaimsAreApart, Claim
<1>3. struck' \subseteq File /\ waiting' \subseteq File
  BY DEF Keeps, retries, JobsInv, JobsTypes
<1>4. CASE StoreFailed(t) /\ UNCHANGED rows
  BY <1>1, <1>3, <1>4, Failing DEF Keeps
<1>5. CASE /\ Drops(t, 1) /\ UNCHANGED <<schedule, faults>>
           /\ rows' = IF StillPicked(c) THEN [rows EXCEPT ![c.file].measured = threads[t].measured]
                      ELSE rows
  <2>1. PICK x : GoesOn(t, x) /\ x.claims = threads[t].claims \ {c}
    BY <1>5, Dropping DEF Keeps
  <2>2. UNCHANGED <<next, running, resting, disk>>
    BY <1>5 DEF Keeps, schedule, nature
  <2>3. /\ threads' \in [1 .. Size + 1 -> {Free} \cup Pass]
        /\ ClaimsAreApart' /\ RunningIsCounted'
    BY <2>1, <2>2, GoingOn
  <2>4. /\ rows' \in [File -> [version : Nat, measured : Int]]
        /\ \A f \in File : /\ rows'[f].version = rows[f].version
                           /\ f # c.file => rows'[f] = rows[f]
    <3>1. threads[t].measured \in Int
      BY <1>1 DEF Pass
    <3> QED
      BY <1>2, <1>5, <3>1 DEF JobsInv, JobsTypes
  <2>5. ASSUME NEW u \in Threads, NEW d \in threads'[u].claims
        PROVE  d \in threads[u].claims /\ d.file # c.file /\ d.file \in File
    <3>1. threads'[u] = IF u = t THEN x ELSE threads[u]
      BY <2>1, Constant DEF GoesOn, JobsInv, JobsTypes
    <3>2. d \in threads[u].claims
      BY <2>1, <3>1
    <3>3. d.file # c.file
      <4>1. CASE u = t
        BY <1>2, <2>1, <3>1, <4>1 DEF JobsInv, ClaimsAreApart
      <4>2. CASE u # t
        BY <1>2, <3>2, <4>2 DEF JobsInv, ClaimsAreApart, Claimed
      <4> QED
        BY <4>1, <4>2
    <3>4. d \in Claim
      BY <3>2, ThreadType DEF JobsInv
    <3> QED
      BY <3>2, <3>3, <3>4 DEF Claim
  <2>6. ClaimsAreOpen'
    BY <2>2, <2>4, <2>5 DEF JobsInv, ClaimsAreOpen
  <2>7. JobsTypes'
    BY <1>3, <2>2, <2>3, <2>4 DEF JobsInv, JobsTypes
  <2> QED
    BY <2>3, <2>6, <2>7 DEF JobsInv
<1> QED
  BY <1>4, <1>5 DEF Keeps

-----------------------------------------------------------------------------
(* The files and the waits: a scan takes a row to the version on disk,     *)
(* which is past any that was picked.                                      *)
LEMMA Meeting ==
  ASSUME JobsInv,
         \/ \E j \in Job : ComesDue(j)
         \/ \E f \in File : WaitIsOver(f) \/ Changes(f) \/ Scans(f)
         \/ \E what \in Place : Goes(what) \/ Returns(what)
         \/ UNCHANGED jobVars
  PROVE  JobsInv'
<1>1. UNCHANGED <<threads, next, running>>
  BY DEF ComesDue, WaitIsOver, Changes, Scans, Goes, Returns, jobVars, schedule
<1>2. /\ rows' \in [File -> [version : Nat, measured : Int]] /\ disk' \in [File -> Nat]
      /\ resting' \subseteq Job /\ struck' \subseteq File /\ waiting' \subseteq File
  <2>1. CASE \E g \in File : Changes(g)
    <3>1. PICK g \in File : disk' = [disk EXCEPT ![g] = @ + 1]
      BY <2>1 DEF Changes
    <3>2. disk' \in [File -> Nat]
      BY <3>1 DEF JobsInv, JobsTypes
    <3> QED
      BY <2>1, <3>2 DEF Changes, schedule, retries, JobsInv, JobsTypes
  <2>2. CASE \E g \in File : Scans(g)
    <3>1. PICK g \in File : rows' = [rows EXCEPT ![g] = [version |-> disk[g], measured |-> None]]
      BY <2>2 DEF Scans
    <3>2. rows' \in [File -> [version : Nat, measured : Int]]
      BY <3>1 DEF JobsInv, JobsTypes, None
    <3> QED
      BY <2>2, <3>2 DEF Scans, schedule, retries, nature, JobsInv, JobsTypes
  <2>3. CASE UNCHANGED <<rows, disk>>
    BY <2>3 DEF ComesDue, WaitIsOver, Changes, Scans, Goes, Returns, jobVars, schedule, retries,
                JobsInv, JobsTypes
  <2> QED
    BY <2>1, <2>2, <2>3 DEF ComesDue, WaitIsOver, Goes, Returns, jobVars, nature
<1>3. ASSUME NEW f \in File
      PROVE  /\ rows'[f].version <= disk'[f] /\ rows[f].version <= rows'[f].version
             /\ rows'[f] # rows[f] => rows[f].version < rows'[f].version
  <2>1. rows[f].version <= disk[f] /\ rows[f].version \in Nat /\ disk[f] \in Nat
    BY DEF JobsInv, JobsTypes, ClaimsAreOpen
  <2>2. CASE UNCHANGED <<rows, disk>>
    BY <2>1, <2>2
  <2>3. CASE \E g \in File : Changes(g)
    BY <2>1, <2>3 DEF Changes, JobsInv, JobsTypes
  <2>4. CASE \E g \in File : Scans(g)
    <3>1. PICK g \in File : Scans(g)
      BY <2>4
    <3>2. CASE g = f
      <4>1. rows'[f].version = disk[f] /\ rows[f].version # disk[f] /\ disk'[f] = disk[f]
        BY <3>1, <3>2 DEF Scans, nature, JobsInv, JobsTypes
      <4> QED
        BY <2>1, <4>1
    <3>3. CASE g # f
      <4>1. rows'[f] = rows[f] /\ disk' = disk
        BY <3>1, <3>3 DEF Scans, nature, JobsInv, JobsTypes
      <4> QED
        BY <2>1, <4>1
    <3> QED
      BY <3>2, <3>3
  <2> QED
    BY <2>2, <2>3, <2>4 DEF ComesDue, WaitIsOver, Goes, Returns, jobVars, nature
<1>4. ClaimsAreOpen'
  <2>1. ASSUME NEW t \in Threads, NEW c \in threads[t].claims
        PROVE  /\ c.version <= rows'[c.file].version
               /\ c.version = rows'[c.file].version => rows'[c.file].measured = None
    <3>1. c \in Claim
      BY ThreadType DEF JobsInv
    <3>2. /\ c.file \in File /\ c.version \in Nat
          /\ rows[c.file].version \in Nat /\ rows'[c.file].version \in Nat
      BY <1>2, <3>1 DEF Claim, JobsInv, JobsTypes
    <3>3. /\ c.version <= rows[c.file].version
          /\ c.version = rows[c.file].version => rows[c.file].measured = None
      BY DEF JobsInv, ClaimsAreOpen
    <3> QED
      BY <1>3, <3>2, <3>3
  <2> QED
    BY <1>1, <1>3, <2>1 DEF ClaimsAreOpen
<1>5. ClaimsAreApart'
  BY <1>1 DEF JobsInv, ClaimsAreApart, Claimed
<1>6. RunningIsCounted'
  BY <1>1 DEF JobsInv, RunningIsCounted, Busy
<1>7. JobsTypes'
  BY <1>1, <1>2 DEF JobsInv, JobsTypes
<1> QED
  BY <1>4, <1>5, <1>6, <1>7 DEF JobsInv

LEMMA JobsStart == JobsInit => JobsInv
<1> SUFFICES ASSUME JobsInit PROVE JobsInv
  OBVIOUS
<1>1. /\ Free.claims = {} /\ Free.step = "free"
      /\ \A t \in Threads : threads[t] = Free
  BY Constant DEF JobsInit, Free
<1>2. JobsTypes
  BY DEF JobsInit, JobsTypes, None
<1>3. ClaimsAreApart
  BY <1>1 DEF ClaimsAreApart, Claimed
<1>4. ClaimsAreOpen
  <2>1. \A f \in File : rows[f].version = 1 /\ disk[f] = 1
    BY DEF JobsInit
  <2> QED
    BY <1>1, <2>1 DEF ClaimsAreOpen
<1>5. \A l : Busy(l) = {}
  BY <1>1 DEF Busy
<1>6. RunningIsCounted
  <2>1. \A l \in Library : running[l] = 0
    BY DEF JobsInit
  <2> QED
    BY <1>5, <2>1, Constant, FS_EmptySet DEF RunningIsCounted
<1> QED
  BY <1>2, <1>3, <1>4, <1>6 DEF JobsInv

LEMMA JobsStep ==
  ASSUME JobsInv, [JobsNext]_jobVars
  PROVE  JobsInv'
<1>1. ASSUME NEW t \in Threads, \/ Picks(t) \/ Panics(t) \/ Take(t) \/ Begins(t) \/ Decodes(t)
                                \/ Succeeded(t) \/ Failed(t) \/ Keeps(t)
      PROVE  JobsInv'
  BY <1>1, Starting, Panicking, Taking, Beginning, Decoding, Succeeding, FailingOf, Storing
<1> QED
  BY <1>1, Meeting DEF JobsNext


-----------------------------------------------------------------------------
(* The inductive invariant: what a thread has in hand is its own, and is   *)
(* not stored yet; a library's passes are counted and within its share.    *)
THEOREM JobsInvariant == JobsSpec => []JobsInv
  BY JobsStart, JobsStep, PTL DEF JobsSpec

(* However fetches, decodes and files given back fall together, no file is *)
(* in two threads' hands, nor decoded for what is stored (Retries.take).   *)
THEOREM FilesAreDecodedOnce == JobsSpec => []NothingIsDecodedTwice
<1>1. JobsInv => NothingIsDecodedTwice
  <2> SUFFICES ASSUME JobsInv, NEW t \in Threads,
                      threads[t].step \in {"decoding", "judging", "keeping"}
               PROVE  /\ \A u \in Threads \ {t} : Current(t).file \notin Claimed(u)
                      /\ rows[Current(t).file].measured # None =>
                            rows[Current(t).file].version # Current(t).version
    BY DEF NothingIsDecodedTwice
  <2>1. Current(t) \in threads[t].claims
    BY CurrentIsClaimed DEF JobsInv, ClaimsAreApart
  <2>2. Current(t).file \in Claimed(t)
    BY <2>1 DEF Claimed
  <2> QED
    BY <2>1, <2>2 DEF JobsInv, ClaimsAreApart, ClaimsAreOpen
<1> QED
  BY <1>1, JobsInvariant, PTL

(* With two libraries or more, no library holds every thread, however many *)
(* of its passes hang (Schedule.new).                                      *)
THEOREM LibrariesShareThePool == JobsSpec => []ALibraryLeavesAThread
<1>1. JobsInv => ALibraryLeavesAThread
  <2> SUFFICES ASSUME JobsInv, NEW l \in Library, Cardinality(Library) > 1,
                      \A t \in Threads : threads[t].step # "free" /\ LibraryOf[threads[t].job] = l
               PROVE  FALSE
    BY DEF ALibraryLeavesAThread
  <2>1. Busy(l) = Threads
    BY DEF Busy
  <2>2. Cardinality(Busy(l)) <= Size
    BY DEF JobsInv, RunningIsCounted
  <2> QED
    BY <2>1, <2>2, Constant
<1> QED
  BY <1>1, JobsInvariant, PTL

(* A thread that is free finds a library running less than its share, and  *)
(* so waits for a job that comes due, never for one that ends (run_next:   *)
(* "while a thread is free, some library always runs fewer").              *)
AFreeThreadFindsShare ==
    Job # {} /\ (\E t \in Threads : threads[t].step = "free") => \E j \in Job : Open(j)

THEOREM FreeThreadsFindShares == JobsSpec => []AFreeThreadFindsShare
<1>1. JobsInv => AFreeThreadFindsShare
  <2> SUFFICES ASSUME JobsInv, NEW j \in Job, NEW t \in Threads, threads[t].step = "free",
                      \A i \in Job : ~Open(i)
               PROVE  FALSE
    BY DEF AFreeThreadFindsShare
  <2>1. IsFiniteSet(Threads \ {t}) /\ Cardinality(Threads \ {t}) = Cardinality(Threads) - 1
    BY Constant, FS_RemoveElement
  <2>2. ASSUME NEW l \in Library
        PROVE  /\ IsFiniteSet(Busy(l)) /\ Cardinality(Busy(l)) = Size
               /\ Busy(l) \subseteq Threads \ {t}
    <3>1. running[l] >= Size /\ running[l] \in Int
      <4>1. running[l] \in Int
        BY DEF JobsInv, JobsTypes
      <4>2. PICK i \in Job : l = LibraryOf[i]
        BY DEF Library
      <4>3. ~(running[l] < Size)
        BY <4>2 DEF Open
      <4> QED
        BY <4>1, <4>3, Constant
    <3>2. Busy(l) \subseteq Threads \ {t}
      BY DEF Busy
    <3> QED
      BY <2>1, <3>1, <3>2, Constant, FS_Subset DEF JobsInv, RunningIsCounted
  <2>3. LibraryOf[j] \in Library
    BY Constant
  <2>4. Size <= Cardinality(Threads) - 1
    BY <2>1, <2>2, <2>3, FS_Subset
  <2>5. Cardinality(Library) > 1 /\ Cardinality(Threads) = Size + 1
    BY <2>4, Constant
  <2>6. PICK k \in Library : k # LibraryOf[j]
    <3>1. Cardinality({LibraryOf[j]}) = 1
      BY FS_Singleton
    <3>2. Library # {LibraryOf[j]}
      BY <2>5, <3>1
    <3> QED
      BY <2>3, <3>2
  <2>7. Busy(k) \cap Busy(LibraryOf[j]) = {}
    BY <2>6 DEF Busy
  <2>8. Cardinality(Busy(k) \cup Busy(LibraryOf[j])) = Size + Size
    <3>1. IsFiniteSet(Busy(k)) /\ IsFiniteSet(Busy(LibraryOf[j]))
      BY <2>2, <2>3
    <3>2. Cardinality(Busy(k) \cup Busy(LibraryOf[j]))
              = Cardinality(Busy(k)) + Cardinality(Busy(LibraryOf[j]))
                    - Cardinality(Busy(k) \cap Busy(LibraryOf[j]))
      BY <3>1, FS_Union
    <3>3. Cardinality(Busy(k) \cap Busy(LibraryOf[j])) = 0
      BY <2>7, FS_EmptySet
    <3> QED
      BY <2>2, <2>3, <3>2, <3>3, Constant
  <2>9. Cardinality(Busy(k) \cup Busy(LibraryOf[j])) <= Size
    BY <2>1, <2>2, <2>3, <2>5, FS_Subset, Constant
  <2> QED
    BY <2>8, <2>9, Constant
<1> QED
  BY <1>1, JobsInvariant, PTL

=============================================================================
