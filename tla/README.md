# A formal model of Jewelcase's concurrent core

TLA+ modules of the parts of the music server in `crates/` where the order of
steps matters: their TLC runs, and theorems about them checked by TLAPS. Each
definition is translated from the source lines that `PROJECT.json` names for it
under `map`; comments in the modules name the functions they stand for.

## 1. The system and its parts

| Component | Code | State | Operations | Interacts with |
|---|---|---|---|---|
| Scopes | `scanner/src/scope.rs` | none | covers, coalesce | scan queue |
| Scan queue, one per library | `scanner/src/queue.rs`, `queue/` | queued scans, the running one, a retry; rows in `scans` | request, cancel replaced rows, pop, retry, stop, start | triggers call it from their threads; its worker runs scans; the store holds the rows |
| Scan run | `scanner/src/scan.rs`, `scan/`, `discover.rs` | cursor, walk stack, batch | walk, list, process, reconcile, mark, flush, end | the file system; `tracks::apply` and `scans::save` of the store |
| Sweep | `server/src/db/retention.rs` | none of its own | purge rows by age | reads `missing_since`, `walked_at` |
| Triggers | `scanner/src/triggers.rs` | pending file events | watch, schedule | scan queue |
| Background jobs | `scanner/src/jobs.rs`, `pool.rs` | due times, retries, shares per library | run a pass | store |
| Realtime hub | `server/src/api/realtime/` | connections and outboxes, device-list turns | connect, broadcast, send, revoke, close | player, devices |
| Player and commands | `server/src/api/player/` | playback state, waiting and finished commands | report, disconnect, command, answer, time out, save | hub, server queues, database |
| Server queues | `server/src/queue/` | each account's active and parked queues, held lists | start, edit, park, restore, save | database writer, player |
| Queue algorithms | `core/src/queue/` | spans, seeded permutation | add, move, remove, shuffle, rewind | server queues, web client |
| Web client queue | `web/src/lib/queue/` | local queue, pending edits | edit, send, retry, reconcile | server queues |
| Plugin hooks | `server/src/plugins/hooks.rs` | claims, turns, slots; positions in `plugin_cursors` | dispatch, deliver, record, disable | plugin installs and grants |
| Plugin host | `plugins/src/network.rs`, `network/`, `host/http.rs` | a queue of turns per host and scope; kept replies | wait for a turn, send, throttled, keep, invalidate | runs of plugins, admins' grants |
| Playlists | `server/src/api/playlists/`, `core/src/playlist.rs`, `web/src/lib/playlist*` | rows under sparse keys, a version, answers kept; the page's list, edits and undo | edit, retry, conflict, reload, undo, delete | database writer, purge of tracks |
| Web player | `web/src/lib/player.svelte.ts`, `progress.ts`, `realtime.svelte.ts` | audio, what plays, what was reported | play, pause, report, hear a state, reconnect | server player, by messages |
| Catalog SQL, HTTP handlers, tag reading, search, ffmpeg | see `PROJECT.json` | within one call or one transaction | | |

All writes go through one database writer, a transaction at a time, so a write is
one atomic step that may fail. Threads share memory under mutexes: a locked
section is one step, and what a function does between two locked sections can
interleave with every other actor.

What is hard in this code, and what makes each component correct:

* **Scan queue.** Triggers, the worker, saves of cancelled rows, a crash or a
  shutdown at any step, store failures. Correct when accepted work is never
  dropped by a running process, never lost by a crash, never queued twice,
  and in the end walked or given up.
* **Scan run.** Batches flush between any two files; a crash resumes at the saved
  cursor; files come and go and network shares drop during a walk. Correct when
  the cursor never passes work that is not persisted, a dropped share marks
  nothing missing, and nothing is purged unless a walk confirmed it.
* **Realtime and player.** Every connection must see states in order and, once
  quiet, the latest; a signed-out device must not act; a command is carried out
  once, ends once, and never waits on a connection that has gone.
* **Server queues.** Edits are applied once and in version order; a parked queue is
  kept or deleted, never both; a failed write leaves memory as it was.
* **Hooks.** At most one delivery at a time for each plugin, library, hook and
  user; no event skipped; a delivery that outlives a disable records nothing it should not.
* **Jobs.** No library starves another; a failed file is retried only when due;
  no file is decoded by two threads at once.
* **Network.** Requests of one scope keep their gap whoever makes them; a service's
  pause is kept; a reply older than a change is not used again.
* **Playlists.** The stored list is what its edits made of it, each applied once
  however often it is sent; the page's confirmed list is the server's of that version.

`PROJECT.json` lists the hazards at their lines, with the properties that cover
them or the reason none does.

## 2. What is modelled

Every module's map to the code is in `PROJECT.json`. An `MC` module gives a
module's constants small values and, where several parts are checked by one run,
sets them side by side: a variable `part`, chosen at the start, says which of
them a behaviour is of. The parts of one run share nothing in these models, so
this checks each of them whole.

### Scopes, ScanQueue

`Scopes` has scopes, what covers what, and coalescing twice: `Coalesce`, what a
request should keep, and `SweepCoalesce`, how `coalesce_scopes` computes it, by one
sort and one comparison with the last scope kept. A path is the sequence of its
components, as the code compares paths.

`ScanQueue` is one library's queue. `queued`, `cursor`, `retry`, `current` are `Queue`'s fields;
`row`, `rowCursor`, `scopes` are the `scans` table. A scan is the number of its
creation, which is also its place in the queue.

* `Request` is `Inner::request` under its lock: `Join` a queued scan without a cursor,
  or `Create` a row, replace the covered scans and push, or `Refuse`. The rows of
  those replaced are saved later by `Cancel`, one at a time.
* `TakeRetry`/`RequestRetry`, `Pop`, `StartWalk`, `Flush`, `EndWalk`, `StopWalk`, `GiveUp`,
  `Settle` are the worker's loop in `worker.rs`, cut where it lets its lock go or writes.
* `Stop`, `Exit`, `Crash`, `Start`, `StartupRequest` are the process. Nothing in memory
  survives; a start reads the live rows, or fails to.

The walk is abstract here: it ends completed, or with the scopes that did not
answer. The history variables `waiting`, `walks`, `away`, `dormant` say which scopes
asked for are still owed and by whom; no guard reads them.

### ScanRun

One scan at a time, from `Begin` or `Resume` to its end, with the index it writes.
A scope is taken (`SkipScope`, `WalkScope`), each folder on the stack is passed,
descended into or listed (`PassFolder`, `DescendOnly`, `ListFolder`: `Walk::next`),
its file and what it no longer lists are read (`ReadFolder`), the root is asked
again before anything is marked (`Reconcile`), marks are made one at a time (`Mark`),
and the cursor moves (`FolderDone`). `Flush` may come between any two of them.
`Sweep` purges, and `FileComes`, `FileGoes`, `Unmount`, `Mount`, `Tomorrow` are the host,
at any step. A folder holds at most one audio file.

The stack is a set of paths, of which the first in `PathBefore` is visited next. `discover.rs` pushes
a folder's children sorted, so its stack is always sorted that way; the order of a walk
is what a resumed scan's cursor is compared with.

`ScanRun` is the detail of what `ScanQueue` abstracts as `StartWalk` to `EndWalk`, and the
two share `Scopes`; they are not composed, since their product is out of TLC's reach
and they meet only at the row's state and cursor, which both have.

### Jobs

The decodes of several libraries on one pool: `Picks` is `Schedule::run_next`, `Take` is
`Retries::take` under its lock, `Begins`, `Decodes`, `Succeeded`, `Failed` and `Keeps` are a pass, cut
at each call of the store and around the decode. `Taken` is what a job's threads have in hand. Files change, go and return, scans
find them changed, store calls fail and decoders panic at any step.

### Hub, Realtime, Players

`Hub` is `hub.rs` for one account, as operators from the hub before to the hub after:
each holds the hub's lock throughout. A connection's link says whose it is, whether
the hub still counts it, and how many messages wait for it; a message more than
`Outbox` lets go of it, as `Hub::retain` does. `Realtime` and `Players` take its steps.

`Realtime` is the life of connections among logins and logouts, and the device list.
`Open`, `Join`, `Check`, `Greet`, `Deliver`, `HubClosed`, `ClientGoes`, `Leave`, `Left` are `open` and
`serve`, cut at each await; `LogIn`/`LoggedIn`/`LoginDropped` and `LogOut`/`LoggedOut` are the
two requests, before and after their commit; `AskTurn` to `SendList` are the tasks of
`devices::changed` and `Hub::device_list_turn`. `shown` keeps the last list queued to each
connection, with which `QuietListsAreCurrent` compares what is so.

`Players` is one account's `Players`: `player` is its `PlayerState`, `waiting` and `finished` its
`Commands`. Each operation under the lock of `accounts` is a step (`Join`, `ApplyReport`,
`SendState`, `Disconnected`, `Accept`); what `apply` reads before it, the database and whether
the hub still counts the connection, are steps of their own (`ReadSignedIn`,
`StillOpen`), as are the arrival of a message and its handling. A timer is due, then
fires: between the two an answer cannot stop it (`late`). `shown` keeps the last state
queued to each connection.

### Takeover

The pages: each device's web player and realtime client against the account's
player, which `Players` has in detail and here takes a report in one step. A page
plays its audio, reports it, stops when a state names another device, reconnects,
and reports again what was not confirmed in `CONFIRM_WITHIN` (`Ages`). The audio's loading is
asynchronous, and messages go in order each way and take as long as they take.

### QueueStore

One account's queues on the server. `active`, `parked`, `held`, `done`, `changed` are `Account`'s
fields, `db` what is committed. The database has one writer; `tx` is the job on it whose
body has run and whose commit, which may fail, is still to come; `ended` is the outcome a
caller's own task has yet to act on. `Start` and `Apply` take the account's lock between any
of these. `Save`, `Restore`, `Delete` are jobs, which `Commit` or `FailCommit` ends; `Settle` is
what `committed` and `put_back` do with the outcome, and `HangUp` is the client's going, which
drops the task that would. `Expire` and `SweepLists` are the retention job, `Crash` the
process's end and its next start. A queue is its edits in order, whether it was adjusted, and
the lists it uses; the parked queues are a set, since the code finds them by ID. The
histories `overtaken`, `abandoned` and `borrowed` note that one of three known things happened (section 4).

### CoreQueue, QueueItems, SpanLists, Permutation

`CoreQueue` is `core/src/queue/`: every edit as a function of the queue, and one action for each.
Rows read frozen lists and copies, a cursor divides what is passed from what is ahead, a
shuffle is read row by row through `Permutation`, History is runs of plays, and what nothing
refers to is cleaned up. `SpanLists` is the spans the code keeps instead of rows.

`QueueItems` is what the edits promise a listener, in items alone: no views, no
permutation, no lists to keep. `CoreQueue` is checked to implement it (`Promise!Spec`), each edit
the edit of its items: that a row is read through a shuffle, that lists are shared, that
History is trimmed and sources are cleaned up, shows nowhere.

### ClientQueue

A device's copy of the queue (`store.ts`) and the server it keeps up with. The device is a
record, its methods operators on it, as they run to their next await. It shows the queue
the server confirmed with its own edits applied on top, sends them one at a time, and
starts and restores queues; requests and answers are lost or late, the connection drops, the
server restarts with what it last saved, and other devices edit, start and restore. A queue
is the edits applied to it; `Bars` says which edits make the core refuse another. The pending edits
are at the places they have among those made on the page, and what replays them and hears the
messages held goes through them in order (`Replayable`, `HeardAll`), as recursive functions.

### Hooks

The delivery of events to one plugin. `Poll` is `dispatch`'s one read of what is due; `Start` claims
a key and joins the queue for the plugin's turn in the library; `TakeTurn`, `Read`, `ReadFails`
take the turn, then a slot, and read the batch if it is still due; `Handle`, `Fail`, `Unrun`,
`Unrecorded` are how the run went and whether that could be written; `Resume` lets a claim go.
Run now (`StartRun`, `BeginRun`, `EndRun`) and an uninstall (`StartUninstall`, `NextTurn`, `DeleteRow`)
take turns in the same queues. Admins and users change grants and connections, enable and disable, and
add libraries (`NewLibrary`) at any step. An uninstall takes the turns of the libraries there are as it
starts (`levels`); a run in one added since goes on as the row goes, and is `former` from then on.
`Stop` and `Restart` are the process. The position of `scanFinished` is a time, so
`clock` numbers the milliseconds in which something happened. The history `done` says what
was handled as the plugin is installed now, `rest` how long a key must wait, `over` which
positions a former run has been recorded over since the plugin was installed again.

### Network

What plugins' requests share. A run asks for a turn at a host (`limits.rs`), waits, sends, is
answered, throttled or redirected; queues of turns are dropped once idle, paused where a
service says so, and changed as plugins that set limits are enabled or disabled. GETs are answered from the kept
replies (`cache.rs`) while they live; a change forgets what it outdates. Time is in steps.

### PlaylistOps, Playlists

`PlaylistOps` has the ops of a list, their undo, and the sparse keys rows are stored under.
`Playlists` is the handler of `editPlaylist`, which plans off the writer, refuses ops out of
range (`MayPlan`), and checks again in the write, its stored answers, and a page that shows its edits at once, sends them one at
a time, retries, meets conflicts and reloads a page of rows at a time.

## 3. The runs

| Run | What it shows | Bounds, and why they are enough |
|---|---|---|
| `scan_queue` | no accepted work is dropped or lost, rows match the queue, one follow-up scan, ended rows stay ended, coalescing keeps the maximal scopes, and everything owed is in the end walked, given up or forgotten | 2 roots and a folder, 3 scans, 1 failure, 1 stop: a replaced scan whose row is still to be saved across a restart |
| `background` | scans: the saved cursor never passes what is not in the index, a dropped share marks nothing, a purge follows a walk or the known mistake. Decodes: no file twice, a library that hangs leaves a thread | 2 roots, one two folders deep, 2 changes of the host, 1 stop, 3 days with a window of one: a file that goes, a root that drops and returns, a crash between. 2 libraries on 3 threads, 2 files, one broken, 1 edit, 2 faults |
| `core_queue` | `CoreQueue` implements `QueueItems`; every row is readable and nothing unused is kept; shuffle is undone by unshuffle; a rewind is Previous repeated; spans read their rows | 2 lists of 3 and 1 rows, a copy, 6 rows, 3 plays, 2 edits that adjust, 4 of both, 2 runs of History: a shuffle with rows queued into it, a History that is trimmed, a list that loses its last use |
| `hooks` | a position tells exactly what was handled, a wait is waited out, what is due is in the end delivered | 2 libraries, one or both there from the start, a library and a user hook, 1 slot, batches of 1, waits of a tick, 4 chances (events, failures, admins' doings, restarts) |
| `connected` | hub: a signed-out device keeps no connection past its check; quiet lists are current. Page: quiet is current, no edit is shown twice or vanishes in silence. Network: gaps, pauses, and no outdated reply | hub: 2 devices, 2 connections, outboxes of 2, 1 failed read. Page: 3 queues, 4 edits, one barring another, 3 chances. Network: 2 runs, 2 hosts, 2 requests, 2 steps of time, 1 kept reply |
| `account` | player: the last state queued is current, nothing waits on the gone, a command is passed on once. Queues: no queue is without a list, nothing unsaved goes unnoticed, none kept plays, no job loses an edit | player: 2 devices, 2 connections, outboxes of 2, 2 commands, 1 kept result, 2 reports, 2 sends. Queues: 2 queues, 3 lists, 3 edits, 1 client beside the saver, 2 faults |
| `pages` | from some time on only the page the server names is heard. Playlist: the stored list is what edits made, the confirmed list is stored, an edit is applied once or not as the page says | 2 pages, 3 connections, 2 commands, 1 fault. 3 tracks and one to add, 2 edits of the page, 3 of others, 1 mishap, pages of 2 rows, keys 2 apart, so that rows are spread anew |
| `scan_forgotten`, `login_dropped`, `client_start`, `takeover_settles`, `list_lost` | violated: section 5 | the smallest that show it |

The bounds are constants named `Max…`, each in a guard. No symmetry is used: roots, paths and
libraries sort, and the devices, edits and commands play different parts. Deadlock is not checked:
a behaviour really stops once its bounds are used up and every worker waits.

Two of the bounds hide something, which the proofs cover: in `connected` one GETting run and one
kept reply never make the cache evict the least used, and in `hooks` a batch is one event.

**Fairness.** `ScanQueue`: weak fairness of the worker's steps, of the walk's end, of the exit and
of a restart: the thread runs until it is told to stop, a walk visits finitely many folders,
and a process that is down is started again. `TakeRetry` has strong fairness: it is the
worker's first choice at the top of its loop whenever the retry is due, so it cannot be
passed over for ever, but it is disabled while a scan runs. `Hooks`: the hook loop polls, its
tasks go on when they can, a run ends (the host limits its time), an uninstall and Run now go
on, time passes. `Takeover`: the browser's tasks, the socket, the server's connection task and
the page's one-second timer; strong fairness of `Ages`, since a report unconfirmed for
`CONFIRM_WITHIN` is found by a timer whose other ticks come between. No fairness is assumed of
triggers, callers, users, admins, or failures.

## 4. The proofs

TLAPS checks every theorem below for all values of the constants, under the assumptions the
modules name: bounds are natural numbers, an outbox holds a message, one result at least is
kept, commands are finitely many, an absent one is none of those there, roots and the
components of paths are numbers, gaps between requests are natural numbers, a page of rows holds one at least, keys start apart, what is sent
to a playlist is ops (`AreOps`, in range or not), and the plugins an admin may grant are finitely many.

Each proof module has an inductive invariant, checked by TLC on the module's run before it
was proved, then a lemma for each of its parts and each action that can disturb it, and the
theorems of the properties, which follow from it.

### Scans

`ScanQueueProofs`. `CoalesceCovers`: what `Coalesce` keeps covers the whole request. Covering is a
preorder that only goes down in rank (twice the depth, plus one for a folder's own
files), so from any scope there is a covering one of least rank, which no other covers.

`SweepIsCoalesce`: what `coalesce_scopes` computes is `Coalesce`, for any scopes whatever. The key of
its sort is a strict total order (`PathBefore` compares where two paths part), in which a covering scope
comes first and covers all that lies between it and what it covers (`CoveredBetween`). So when a
scope is covered, the last one kept is the one that covers it (`SweepStep`). `SweepKeeps`,
that `SweepKeepsTheMaximal` holds, is the case of the requests TLC tries.

`QueueInvariant` proves `QueueInductive`; `TypeCorrect`, `AcceptedWorkStaysQueued`, `AcceptedWorkIsNeverLost`,
`QueueIsTheRows`, `RepeatsQueueOneScan` and `EndedRowsAreFinal` follow. `AcceptedWorkIsRecorded` is not
inductive by itself: a row may be live and yet about to be cancelled by a save still
pending. The invariant therefore adds that a pending save is one thread's, of a row that is
live and in nobody's queue (`SavedOnce`, `QueueMatchesRows`), and that what is owed has a keeper
that no pending save can take away: a queued scan without a cursor, or a live row nobody in
memory knows (`WaitingIsSafe`, `WalksAreSafe`). It also needs where the worker is (`Worker`,
`Ended`) and that a scan took on only what it covers (`TookOnItsOwn`), so that what replaces it
covers that too.

`BackgroundProofs`, the scans: all that `background` checks of them is proved.
* `ScanShape`: types, and where the cursor can be. It is never past the scope in hand,
  and between the two are only skipped scopes (`Bearings`).
* `ScanDates` gives `PurgesFollowAWalk`: no root is told walked later than a walk of it, or than
  the mistake of section 5, and a missing track bears the day it was marked.
* `MarksAreExcused` gives `DroppedRootsAreKept`: what a scan has noted as missing was away when it
  was listed, or its root was down then. Before a mark the root is asked again: it answers,
  so either it never dropped or it dropped and came back within one folder's handling,
  which is the exception the property names.
* `WalksAccountForAll` gives `NoResumeMissesAFolder`. The property speaks of the folders nobody
  disturbs while they are walked (`Alone`). For such a folder there is one path at which a walk of a
  scope decides on it (`Meets`): its own, or the lowest one on the way to it that exists. The
  invariant says where that path is: the cursor or the resumed scan's cursor is past it and what
  it holds is in the index or the batch (`PassedIsDone`, `ResumedIsDone`); or it lies under a path on the
  stack, which holds nothing behind the folder in hand (`RestIsAhead`, `StackInOrder`); or it is the
  folder in hand, whose listing is true of it (`TrueListing`, `TrueNotes`). Saving the cursor writes
  the batch first, so being in the batch is enough for the cursor in memory, but not for the
  saved one.

`BackgroundProofs`, the decodes: both properties are proved. A fetch and the taking of its files are one step,
under the lock that giving a file back needs too; so what a thread has in hand is in no
other's (`ClaimsAreApart`). Then nobody else can store a result for it, and a scan that finds it
changed takes its row past the version picked, for versions only grow: so what is in hand has
no result (`ClaimsAreOpen`). A library's count is that of the threads in its passes
(`RunningIsCounted`), which gives `LibrariesShareThePool`, and with it what the comment of `run_next`
says, that a free thread always finds a library below its share (`FreeThreadsFindShares`).

### The hub, the network, the player

`ConnectedProofs`. `SignedOutIsClosed` needs `Present`: what the hub counts is its caller's, and its
task is between joining and dropping its presence, so that a revocation, which goes by the
hub's device, reaches every connection whose check has passed. `QuietListsAreCurrent` needs
`ListsFollow`: at every step, some list is wanted that has read nothing yet (`Wanted`), or a
connection is coming or going and will ask for one (`Moving`), or what the list under way has
read, or the last one sent, is still so (`Carried`); each change of a device is left out from
its commit until its request asks for a list (`Announced`).

`LimitsInvariant` gives `ScopesKeepTheirGaps` and `PausesAreKept`. A turn taken long ago still binds the
next one only through its queue's `next`, so the invariant says that each turn's gap and each
pause is over or is not past `next` of the queue it was taken in (`Spaced`, `Holds`). A queue is
dropped only once its `next` has passed, and a new one then starts no earlier than now: that
is why forgetting idle queues loses nothing. `NothingOutdatedIsReused` needs what the kept replies
and the runs' requests hold (`CacheTypes`) and that a kept reply older than the last answered
change of its host was fetched while that change was under way (`Current`).

`AccountProofs`, the player. The invariant is the conjunction of `Tasks` (what the hub counts is joined or serves;
only what serves handles a message), `EndsAreSettled` (what plays, and what a command waits on, has
not been settled as ended), `Once` (a command neither waiting nor kept was not passed on
since it was forgotten) and `LastStateQueuedIsCurrent`. `EndsAreSettled` is why `Players::command` may pick the
connection that plays without asking the hub: it has served, and its `disconnected` is still to
come. From it follow `EveryoneIsToldTheState`, `NothingIsLeftToTheGone` and `CommandsArePassedOnOnce`.
`HubProofs` has the lemmas both rest on: but for joining and dropping, the hub's operations only
fill outboxes and let go of connections.

### Queues

`AccountProofs`, the queues: all five properties of the queues are proved. The invariant follows a job from the writer to its
caller. Between two jobs memory fits the committed database (`Fits`: every list read is held
or in its row, the active queue is not kept in a row, and memory not marked changed is as
stored). While the body has run and the commit is to come, memory fits the database as
written (`Done`), and all that the caller would put back is covered by the database as
committed (`Undoable`), edits arriving all the while. Then one or the other stays so until the
caller acts.

The code does not keep these properties always. They hold of behaviours in which
three things have not happened, which the properties name as `Prompt`: a job whose outcome is not
acted on before the next job runs (`overtaken`), a task dropped by its client whose write
failed (`abandoned`), and an edit that brings a list a save is storing for another queue
(`borrowed`). Each is a history variable that no guard reads, and each is a real gap of the code:
the last is a finding, the others are told in section 5.

`QueueProofs`, the device's copy: `ShownOnce`, `NothingVanishes` and `QuietIsCurrent` are proved of
`ClientQueue`, for any queues, edits, bars and recipes, any number of edits remembered, and however
often users act and things fail. `QueueInvariant` proves `QueueInv`, which is about the device, the
server, the request under way, the requests given up that may still arrive, and the messages on
their way:
* what is anywhere has been made before, and an edit is of one queue however often it is sent
  (`KnownEdits`, `KnownQueues`, `OneQueue`), so a late copy can only make the edit it was;
* the version an edit was answered with is its place in the server's queue, unless a crash or a save
  has lost it (`Places`); the server answers again what it remembers, so this is what makes a retry
  harmless;
* while a fetch or a restore is under way, no copy of an edit the page has no answer for is anywhere
  but on the page (`NotYet`): the one request at a time sends those first. So what is read has just
  the answered ones among the page's edits (`ReadsAnswered`), and dropping those the version covers
  (`#caughtUp`) leaves none of the queue's own to be replayed (`Once`);
* in one start of the server, the confirmed queue, and what was read, are beginnings of the server's
  queue, and what a message says of a version is so (`InStep`), so messages held go on from what is
  installed;
* a queue started while another is read is one the server does not have yet (`Overtakes`), so that
  nothing of what is read, held or heard can be of it;
* "unchanged" says that what is confirmed is the server's, answered edits included (`Sames`).

Each action is taken one of these seven values at a time: `ServerMoves`, `InboxMoves`, `StayMoves`
and the like say what of the invariant a part's going on keeps, and the steps of the code follow
from them. The steps are proved to say of every pending edit what becomes of it (`Tells`), which is
`NothingVanishes`.

`QuietIsCurrent` is a promise about silence, so its invariant (`QuietInv`, on top of `QueueInv`)
says what is still on its way to a device that does not show the server's queue. It is one of three
(`Catches`):
* a fetch (`Fetches`): the connection is down and its hello will ask for one, a hello is on its way,
  a fetch is owed, or one is sent and not answered;
* a start of the page's own (`Awaits`) that the server has not seen, of a queue with no edit confirmed in it;
* or else what the device shows or is about to (`Aim`) is `Soon` right (`Settles`). Either another
  queue will be announced, after which it fetches (`Alarm`: by a message, or by the handler of a
  start or restore that has still to send it), or its queue is the active one, what it has is a
  beginning of the server's, and for every version beyond there is a message on its way or held
  (`Comes`). Then too each pending edit with a version is in the server's queue at that version, and
  none is in the confirmed one (`Rest`); and what a restore or an edit was answered with is in
  keeping with this (`Restores`, `Answers`).

A step of the server's moves its queue on by as much as it adds to what is to be heard (`Grows`,
`Growing`); a step of the device's takes from what is to be heard what it makes its own, or owes a
fetch (`TailSoon`, `CaughtUpQuiet`). A page with nothing under way has nothing to send (`Drained`),
so once all is heard only `Settles` is left, with nothing more to come, and that is the property.

`QueueProofs`, the shuffle: a round of the seeded permutation undoes itself, for any number of rows.

### Hooks

`HooksProofs` proves `HooksInvariant`, of six parts: types; who runs or records holds the first
place of its library's queue of turns (`TurnsAreHeld`); a run is in a library there is
(`RunsAreInLibraries`); the clock is never behind what happened (`Times`); every position, and the
next one of every run of this installation, tells exactly what is handled (`Positions`), but where a
run of a former installation was recorded over it; a key's wait is no longer than the pause in memory
or the cursor's (`Waits`). `PositionsTellTheHandled` is the one that matters: the position is read
before the run and written after it, with grants, events, reinstalls and crashes between, and still
no event is skipped, and none that was recorded as handled is delivered again. From the turns follow
`RunsTakeTurns` and `RunsEndFirst`, which no run checks: as the row goes, whoever still runs does so
in a library added since the uninstall read them.

### Playlists

`PagesProofs`, in two halves that `PlaylistInv` joins. In the first, what an edit makes of a list is
left opaque, and edits are followed by their numbers and the versions their requests name. `PagesInvariant`
proves `PagesInv`: only the first of the page's queue
may have requests or be applied, for the next is sent when it has left (`QueueOk`, `HeadOk`);
no request of a later attempt than the page's is about (`AttemptsOk`); requests of an edit share
its base, so that at most one of them finds the version it names (`OnceOk`); and what the page has
dropped no request can write, as the playlist is deleted, its track gone, its ops out of range
or its version past (`StuckOk`), but after the answers were swept (`ExcusedOk`, the retry a day
late). `EditsAreAppliedOnce` follows.

The second half proves what the ops and the keys compute. An op takes each place of the list it makes
from one place of the list it is applied to, or from one of its items, wherever that list's items come
from (`OpArranges`); so the plan's ops, applied to the items with their keys, make of the tracks what
the ops make of them, and keep every key on the track it is stored under (`EditKeepsKeys`).
`longest_increasing` returns positions whose keys ascend (`LongestAscends`: by the runs seen so far, the
tail of each length ends lower than the next, `RunsGoOn`). The new keys ascend around those that stay,
in a gap between two kept, before the first and after the last (`KeysAscend`), or are all spread anew
(`SpacedListed`). Hence `PlanWrites`: a plan in range puts the rows in the order the ops make, and inserts no
row where one stays.

`PlaylistInvariant` joins them, each needing the others one step earlier: a planned request of the latest
version carries the plan of the rows there are (`StoredInv`, `PlannedInv`), for rows only change with
the version; what is applied is ops, an undo's included (`OpsInv`, `InvertedOps`); and whatever is
sent, waits or was answered makes, of the list of the version it names, the list of the version its
answer names (`ConfirmOk`), while a page reloading at the present version has read just the rows up to
the key it asks on from (`ReadOk`): the keys ascend, so going on after the last one read misses
no row and reads none twice (`AscendingGoesOn`, `ReadsOn`). `TheRowsAreTheList` proves
`ListIsWhatEditsMade` from it, and `ThePageConfirmsTheList` `ConfirmedIsStored`, for any list, edits, gap, page
size and number of tries. That `longest_increasing` returns a longest run is not proved: the order of
the rows does not depend on it.

### Not proved

* Liveness: `AcceptedWorkEnds`, `DueIsDelivered`, `OneDevicePlays`.
* What is computed over data by folds: the properties of `CoreQueue` and its
  refinement of `QueueItems`, whose operations filter and flatten sequences.

## 5. What was found

Five runs check what a comment, a design or a requirement says, and find it violated. Each is
quoted in `PROJECT.json` with its counterexample.

* `scan_forgotten`: a scan of several roots skips one that does not answer, moves its cursor into a
  later one and is stopped. `run_scan` starts its list of unanswered roots empty, so the resumed
  scan completes without it, and `scans::save` marks every whole root of the row as walked,
  that one included; the sweep may then purge tracks of a root nobody walked.
* `login_dropped`: `login` awaits its write in the request's own task, so a client that hangs up drops it
  between the commit and `devices::changed`. `logout` is spawned for that reason; `login` is not.
* `client_start`: the web client starts a queue with the repeat mode it last had confirmed, the server
  with the active queue's. If another device has turned repeat on meanwhile, the two differ,
  and the fetch that would tell is dropped.
* `takeover_settles`: a page that took over twice is confirmed by its first takeover and then obeys a
  state from before its second, so two devices acting at once can settle on silence.
* `list_lost`: a save lets go of a held list it stored for a parked queue, though an edit made
  meanwhile uses it in the active one; the list then goes with the parked queue's row.

Seen while modelling, and not made runs:

* Queues: the outcome of a save or a restore acted on late goes by IDs, so a queue parked anew
  meanwhile loses its edits (`save.rs` line 144); a restore whose commit fails puts its queue
  back off the writer, after edits and saves that may have come between (`keep.rs` line 47); a delete
  whose commit fails puts the queue back without marking the account changed (`keep.rs` line 274);
  a client that hangs up drops the task that would put anything back.
* Hooks: an uninstall reads the libraries before it waits for their turns, so one added and enabled meanwhile
  can run a delivery through it, against the comment at `install.rs` line 68. If the plugin is installed
  again before that run ends, its record (`hooks.rs` line 221) writes over the new installation's
  position, and events it has not handled are taken for handled. The model does both; `RunsEndFirst` says
  that no other library has such a run, and `PositionTellsTheHandled` leaves out these keys alone (`over`).
* Network: a paused scope's turn is reserved as much as a minute ahead in the host's queue too, so plugins
  that are not paused wait as well (`limits.rs` line 14 says otherwise); a GET on its way while a
  change succeeds is kept after the change's forgetting.
* Jobs: a good file that goes away during its decode and is back before the judging is judged broken.
* Player: a transfer to the device already playing is done at once and not remembered, so sent again
  once playback has moved it is carried out (`api/openapi.yaml` line 3339); a connection the hub closes
  between the last check of `apply` and the lock of `report` still acts once; a device list
  may be queued to a new connection before its first state.
* Web client: a restore does not mind the epoch (`store.ts` line 409), so a recipe started meanwhile is fetched
  with an ETag that matches, and answered as unchanged; `pause()` does not outdate an opening under
  way (`player.svelte.ts` line 488). A start given up that arrives after its queue was replaced, and
  after a save has let go of it unadjusted, starts the queue again (`keep.rs` line 88 says a
  retried start never does), with the versions it had, so that an ETag the device has of before
  names it (`snapshot.rs` line 33 says the tag differs for every queue and every change); a
  device that had edits confirmed on it is answered "unchanged" and keeps them. `QuietIsCurrent` and
  `NothingVanishes` leave out the queues so let go of.
* Web client, restores: the handler of a restore broadcasts before it reads the queue it answers
  with (`kept.rs` line 124 to 128), so another device's restore between the two makes the answer
  name another queue. If it is the queue the page still shows that was restored, and a third restore
  brings it back, that announcement names the queue shown and is passed over (`store.ts` line 469
  counts a fetch under way, not a restore), and the answer then installed is of the queue in
  between: nothing is left to hear, and page and server play different queues. The comment at
  `store.ts` line 419 expects what was heard before the answer to have named another queue. It takes
  five chances, where the run has three; the proof of `QuietIsCurrent` met it, and the history
  variable `missed` now leaves out the restores so answered.
* The page of a playlist does not read the messages of other devices' edits.

## 6. What is left out, and why

* `ScanRun`: symlinks, excludes, file contents, tags read again, problems and progress. They touch
  neither the cursor, nor the marks, nor the walked roots. A file that changes is left out,
  since an update is written like an addition.
* `ScanQueue`: the walk's progress (in `ScanRun`) and several libraries, which share only the database.
* `Realtime`, `Players`: shutdown's `close_all`, which closes as a full outbox does; heartbeats and silence,
  which `ClientGoes` and `Leave` stand for; volumes, positions that advance, and the player's saves.
  That a silent client is dropped rests on clocks.
* `Takeover`: the tabs of one browser, positions and volumes, skipping what cannot play.
* `QueueStore`: which item the kept position names, and reading pages of rows. `ClientQueue`: lists and pages
  of rows, storage on the device.
* `CoreQueue`: attached lists, and the state as JSON.
* `Hooks`: the schedule, `playing` and searched hooks, settings checks, libraries that go. That a
  plugin is disabled only after failing long is modelled, and no property says so.
* `Network`: sizes, lengths of timeouts, and what a plugin may reach.
* `Playlists`: creating, details, artwork, external items, playables other than tracks, and what happens when
  keys run out.
* `Jobs`: stopping, idle times, and that placeholders are stored whatever the image holds by then.
* Components that keep no state between calls, or only read: see `PROJECT.json`.

## 7. Plan

1. Done: the modules of section 2 and the proofs of section 4.
2. Proofs: that every operation of `CoreQueue` keeps `KeepsWhatIsRead`, and in time its refinement of `QueueItems`.
3. `PlayerSaves`: the periodic save, the final one, and writes that fail in between
   (`saved.rs` line 82). Triggers: the watcher's debouncing and the mapping of events to scopes.
4. `Hooks`: libraries deleted, whose positions go with them; the schedule and searched hooks.
5. The derived catalog and the images cache, a transaction at a time.
