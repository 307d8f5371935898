# BLT: a verification project

BLT is a game and jukebox server for LAN parties.  A server keeps a library of
titles, a share pool and a jukebox queue; desktop clients download titles chunk
by chunk from the server and from one another, and put videos in the queue.
The modules in this directory model the parts whose correctness depends on the
order in which things happen, TLC checks them on small instances and TLAPS
proves the main results for every value of the constants.

## 1. Inventory

| Part | Source | State | Operations | Talks to | Module |
|---|---|---|---|---|---|
| Download engine, chunk transfer | `apps/desktop/src-tauri/src/downloads.rs`, `commands.rs`, `crates/core/src/transfer.rs` | job queue, active slot with its flags, bitmap, write task in flight, pooled handles | enqueue, pump, run_job, pause, cancel, delete_game, repair_title | server (manifest, chunks), peers, client database, disk | `Download`, `DownloadQueue`, `JobQueue` |
| Client database | `apps/desktop/src-tauri/src/db.rs` | download_state, title_locations, settings | save, load and delete of rows | every command | `Download`, `Bitmap` |
| Resume bitmap | `crates/core/src/bitmap.rs` | bytes | set, clear, missing, from_bytes | download engine, client database | `Bitmap`, `ChunkSet` |
| Chunk scheduling, upload cap | `crates/core/src/p2p.rs`, `chunk_server.rs` | virtual times, token bucket | assign, take, serve_chunk | download engine, peers | `Scheduler`, `Seeder` |
| Jukebox | `crates/server/src/jukebox.rs`, `crates/core/src/jukebox.rs` | rows and votes (database), now_playing, playback_state, mode (memory) | add, vote, remove, move_to_top, advance, clear, requeue_now_playing, restore | sessions, share pool, admin panel | `Jukebox` |
| Sessions and peers, pushed snapshots | `crates/server/src/ws.rs`, `data_api.rs`, `state.rs` | sessions, announced titles, playback authority | connect, hello, auth, announce, activity, leave, broadcasts | jukebox, clients | `Lobby` |
| Client websocket loop | `apps/desktop/src-tauri/src/ws.rs` | connection, cached password, outgoing channel | connect, greet, receive, send_ws, reachability test | registry of sessions | `Lobby` |
| Library and staging | `crates/server/src/library.rs`, `db.rs` | titles, versions, manifests, staging signatures | scan, publish, remove, stage | manifest and chunk endpoints | `Library`, `TitleServer` |
| Share pool | `crates/server/src/share.rs`, `tasks.rs`, `commands.rs` of the client | share rows and files | upload, delete, orphan sweep, download of a share | jukebox | `Shares` |
| Admin sessions | `crates/server/src/admin_api.rs`, `state.rs` | hash, session table, throttle | setup, login, change_password, logout, require_auth, verify_admin | every admin command, playback machines | `AdminSessions` |
| Configuration and listeners | `admin_api.rs`, `config.rs`, `crates/server/src/lib.rs` | configuration, config.toml, listeners, rebind channel | put_config, jukebox_mode, restart_service, the rebind loop | every service | `Supervisor` |
| Locks of the server | `state.rs` and all handlers | `config`, `paths`, `db`, `jukebox`, `sessions` | scopes | | `Locks` |
| The rest | start-up, mDNS, self-update, mpv, proxies, user interfaces | none that matters to the above | I/O | | none |

What is hard here, and what it asks for:

* **Download engine.**  The write of one group of chunks overlaps the fetch of
  the next; a write interrupted by Pause or Cancel is left to run on its own;
  the user deletes, repairs or restarts a download at any point; the server
  publishes a new version meanwhile; the process may die anywhere.  Correct
  means: a bit never says more than the disk holds, in memory or in the
  database, and a title shown as complete is complete.
* **Queue.**  Callers and the worker race for the running flag.  Correct means:
  one worker, whose job is the one Pause and Cancel reach, and no job forgotten.
* **Bitmap, scheduling, cap.**  Counts that fill no whole byte, stored blobs of
  any shape; peers with any rates and chunks; requests that share one bucket.
  Correct means: a bitmap is a set of chunks, no source runs ahead of its share,
  the cap holds over every interval, and a request that is kept waiting is kept
  waiting by others that are served.
* **Jukebox.**  Memory and table hold the same fact twice; playback machines
  come and go without the jukebox lock; messages name no row; database errors
  cut handlers short.  Correct means: one row plays, both sides agree on it, it
  is put back when nobody is left to show it, and the order is fair.
* **Sessions and snapshots.**  Links break without either side being told, so one
  machine has two sessions for a while; a broadcast lists the sessions before it
  takes the locks; handlers take the registry's lock several times, and one sends
  what it read after letting go; a new connection can be written to before it has
  said hello.  Correct means: once all is delivered, every connected machine shows
  what is so, is listed with what it announced, and has the authority its operator
  proved unless it was refused.
* **Library.**  Scans without a common lock (periodic, the admin's, at start-up,
  after a promotion), each of which walks, hashes, compares with a manifest
  others may be replacing, commits and only then serves; folders change under
  it; the watcher replaces a folder by two renames.  Correct means: an entry is
  the hash of the file it stands for, what is served is what the table has, one
  version number is one content, and a folder left alone is served in the end.
* **Share pool.**  Uploads write files before their row, deletions remove files
  before it, a sweep removes what no row stands for, and a client fetches file by
  file by a row's number into a folder that may hold other shares' files.  Correct
  means: what is listed is there, what arrived complete is that share, and what is
  nobody's, and nothing else, goes away.
* **Admin sessions.**  Hashing lies between two locks, so setups, logins and
  changes of the password overlap; the throttle is asked before and counts
  after.  Correct means: no session outlives its password, and a lock lets only
  those through that were already past it.
* **Configuration.**  A request changes memory, file, paths, jukebox and
  listeners in that order, under different locks; a listener is bound long after
  the request, once the old one has drained.  Correct means: settled, everything
  runs where and as the configuration says.

`PROJECT.json` lists every part and every hazard, each at its line.

## 2. Plan

| Step | Modules | Question | State |
|---|---|---|---|
| 1 | `Download`, `MCDownload`, `DownloadProofs` | Are bits, rows and complete titles backed by bytes? | done |
| 2 | `DownloadQueue`, `JobQueue`, `Subsequence`, `QueueProofs` | One worker, right target of Pause, no job forgotten, served in order? | done |
| 3 | `Jukebox`, `MCJukebox`, `JukeboxProofs` | Memory against table, last machine, order | done |
| 4 | `Library`, `MCLibrary`, `LibraryProofs` | Concurrent scans, removal and return of a title, staging with crashes | done |
| 5 | `Shares`, `MCJukeboxShares`, `SharesProofs` | Uploads, deletions, sweep and downloads at once | done |
| 6 | `Lobby`, `MCLobby`, `LobbyProofs` | Sessions, peers, the client's loop and the order of pushed snapshots | done |
| 7 | `AdminSessions`, `AdminSessionsProofs` | Overlapping setups, logins and changes; the throttle | done |
| 8 | `Supervisor`, `QueueProofs` | Requests, failed saves, the rebind loop, restarts | done |
| 9 | `Bitmap`, `ChunkSet`, `TransferProofs` | The bitmap implements a set | done |
| 10 | `Scheduler`, `Seeder`, `TransferProofs` | Shares of the sources, the cap, answers | done |
| 11 | `Locks`, `AdminSessionsProofs` | The order in which handlers take the locks; which circles there are | done |
| 12 | `TitleServer` | What `Library` promises is what `Download` assumes of its server | done |
| 13 | `Lobby` with the jukebox's own state | snapshots by content rather than current or stale | not done |

The modules that compose: `MCJukeboxShares`, `MCInvariants` and `MCProgress`, see
section 13.

## 3. Download (`Download.tla`)

A chunk is named by its *position*, a file and an offset; `disk[t][p]` is the
version whose verified bytes were last written there, or `Hole`.  `Layout[v]` is
the set of positions of a version.

| Variable | Code |
|---|---|
| `queue`, `pc`, `job` | `DownloadManager::queue`, the place in `pump`'s loop and `run_job`, the job popped last |
| `active`, `paused`, `cancelled` | the active slot and its two atomic flags |
| `bitmap`, `batch`, `wjobs`, `pending`, `writer`, `since`, `anyOk`, `tries` | locals of `run_job`: bitmap, pass, chunks that arrived, `pending_write`, `ChunkWriter`, `since_persist`, `any_ok`, `validate_tries` |
| `row`, `located` | `download_state`, `title_locations` |
| `detached` | `spawn_blocking` writes whose handle `until_interrupted` dropped |
| `deleting`, `repairs` | `delete_game` and `repair_title` between their awaits |
| `published` | the server's current version |
| `stray` | history variable, see below |

Actions: the commands `BeginDownload`, `ResumeDownload`, `PauseDownload`,
`CancelDownload`, `DeleteFiles`/`DeleteRows` (the two halves of `delete_game`),
`RepairScan`/`RepairSave` (of `repair_title`); the worker, one action per stretch
between two points at which another thread can interfere (`PopJob` to
`JobDone`); the blocking threads `WriteChunk` and `DetachedWrite`, chunk by
chunk; `Crash`.  `Publish` and `FolderRemoved` are the environment.

`stray` records the titles whose files were changed under a running operation:
`delete_game` while a job, a detached write or a repair is in flight or when
`remove_dir_all` fails halfway, or a detached write over a newer version.  The
soundness properties hold for all other titles; `DownloadDeleteRace` shows that
without the exception they do not hold.

Abstractions: one destination folder per title; the write of one chunk is atomic;
lengths below a chunk, empty files and the eviction of pooled handles (a title
of at most eight files never evicts) are left out; a removed file stays
writable through an open handle, as on Unix; which source serves a chunk and how
long a backoff takes are left out, a fetch returns the right bytes, wrong ones
or none; a row's status is "complete" or "partial", the only distinction the
code makes when it reads one; `enqueue` and `pump` are one step here and two in
`DownloadQueue`; errors of the client's database and panics are not modelled.

The server is reduced to `Publish`.  That this is the right server is stated by
`TitleServer`, see section 6: `Server` in `Download` maps `published` to it, with
no title ever given up.

## 4. Queue (`DownloadQueue.tla`)

`queue`, `active`, `flagged`, `running` are the manager's fields; `cpc` and
`wpc` say where each calling thread and each spawned worker is.  `Enqueue` is
the stretch under the queue's lock and `Pump` the swap of the flag; `Pop`,
`Start`, `Finish`, `ClearSlot`, `Stop` are the worker's loop, with `Start` failing
where `run_job` returns before it sets the active slot.

`cancel` retains the jobs that are not the cancelled title's.  `Picked(s, P)`
(`Subsequence.tla`) is the sequence of the elements at the positions `P`, said
with cardinalities instead of recursion, so that TLAPS can reason about it;
`MCProgress` has TLC compare it with `SelectSeq` (`PickedIsSelected`).
`Supervisor` uses it for the services whose address a request changes.

`Known`, the check of `enqueue`, looks at the queue and the active slot: a job that
has been popped and has not filled the slot yet is admitted again, and is then
queued beside itself.  No comment rules this out and no property does; the second
run finds what the first one left.  That a job ends is nowhere assumed:
`ServedWhileRunning` has it as its premise (`JobsEnd`).

`JobQueue` is what the queue promises its user, without threads, flags and
windows: jobs wait in order, the first is taken when no other is in progress, a
job is shown once it has been set up, Cancel takes every job of its title out of
the queue, and a request to stop reaches the job shown, when it is of the title
named.  `DownloadQueue` implements it (`ServedInOrder`) with the job that some
worker holds (`InHand`) as the job in progress and the active slot as the one
shown: the time between the pop and the filling of the slot is a job in progress
that is not shown yet.  `cancel` takes the queue's lock and then the slot's; both
are one step.

## 5. Jukebox (`Jukebox.tla`)

`items` and `votes` are the tables, `mode`, `nowPlaying`, `playback` the
`Jukebox` struct (`Nothing` is `None`), `players`, `verified` the playback sessions of the registry
and those with proved authority, `leaving` the sessions that found themselves
the last and have not yet called `requeue_now_playing`, `ended` the end-of-video
messages on their way.  A handler holds the database and the jukebox lock and is
one action.  `Advance` and `RequeueNowPlaying` may fail after each of their updates.
`Before` is the order of `up_next_order`: rows the admin moved, then the others
by votes or in rotation.  `Restore` is a restart of the server.

History variables: `unattended` marks a row that began to play with no playback
machine connected (the admin's Next, or a restart); `faulted` marks that a
database error has cut a handler short.

Abstractions: a row's number stands for the time it was added as well, numbers
being one past the greatest present; `over = 0` is a NULL override; votes go
with their row (`ON DELETE CASCADE`); what a row refers to is reduced to its
type; a deleted share takes all "shared" rows of the instance; the sessions of
guests and the snapshots pushed to clients are not part of this module.

## 6. Library (`Library.tla`)

A file is a modification time, a size and data; an entry of a manifest has the
time and size that the walk saw and the data that was there when the file was
hashed.  `lib`, `stage` and `aside` are the folder of a title in the library, in
staging and under `.name.replaced`.

| Variable | Code |
|---|---|
| `row` | `titles`, `files`, `chunks`; "none" is a title without a row |
| `cache` | `AppState::manifests` |
| `pc`, `todo`, `seen`, `gone` | the place of each scanning thread in `scan_library` and its locals |
| `cur`, `prev`, `walked`, `built`, `info`, `loaded` | `scan_title`'s name, `previous`, `walked`, `files`, sidecar payload and `manifest` |
| `wpc`, `observed`, `settled` | the watcher: title between its two renames, `StagingTracker::observed`, settle window passed |
| `served`, `dropped`, `overlap` | history: manifests ever served, titles ever marked removed, two scans have run at once |

A scan is cut wherever it gives up a lock or touches the disk: `ScanStart`
(`read_dir`), `SkipTitle`/`ScanTitle` (`is_dir`, `ensure_title`, the row),
`Previous`, `Walk`, `HashFile` per file, `ReadSidecar`, `Publish`
(`replace_manifest`) or `UpdateInfo`, `LoadManifest`, `CacheManifest`; then
`ListRemoved` and per title `MarkRemoved` and `Uncache`.  `TitleError` is an
unreadable file or folder; `ScanPanics` is the assertion of `build_file_entry`,
which ends the scan's thread.  The watcher has `Observe`, `PromoteNew`,
`MoveAside`, `Replace` and `RestoreOld`.  `Restart` is a crash or a stop followed
by `reload_manifest_cache`.

Abstractions: every change of a file gives it a time no file has had before; the
code keeps whole seconds, and for two writes of the same size within a second
the fast check promises nothing.  The stat walk of one title is one step, as
are `is_dir`, `ensure_title` and `get_title`, the stored sidecar hash and its
update, and the second rename with the removal of the old folder.  A folder
added while the watcher is between its renames is left out.  Chunks are not told
apart from their file's data; a file of another length panics the scan or not,
as its number of chunks may or may not differ.  Database errors and the
`TitleChanged` message are left out.

`TitleServer` is the promise to the clients: a title once offered stays on offer,
its version goes up one by one, and the manifest changes with the version and
never without; the promise ends for good for a title that is `lost`.  `Library`
implements it (`OffersStand`) when what it serves is read as the offer and the
lost titles are those ever marked removed, or all of them once two scans have
run at once.  A commit is no step of it: the offer changes when the manifest is
cached, or when a restart loads the table.  `Download`, which is checked against
a server that raises versions, assumes just this of it.

## 7. Share pool (`Shares.tla`)

`kinds`, `files` and `fresh` are the share drive, entry by entry and part by part,
with the time stamps reduced to "touched within the sweep's age limit"; `rows`
is the table, by number; `up`, `del`, `sweep` and `fetch` are the requests, the
sweeper and the clients' downloads between their awaits.

An upload reads the names on the drive once (`Begin`), then for each file makes
the entry and writes it (`StartPart`, `FinishPart`, `AbortPart`) and inserts its
row (`List`); `Fail` is every early return without clean-up.  A deletion looks the row
up, removes the files, which may fail in part, and drops the row; deletions may
overlap.  The sweep reads the valid names, or none if its query fails, and then
walks the drive; a removal may fail (`SweepFails`).  `Age` makes an entry old: the sweep
sees the time stamp of the top-level entry only, so an upload that writes into
folders of it, or one long file, may let it age (`Touch`).  `PoolRestart` is the
server's.  Row numbers are SQLite's: the greatest in use plus one.

The client takes the list and asks for file after file (`Listing`, `Get`, `Cancel`,
`Report`).  `fetch[f]` is a place: a folder the user chose and a display name.
Successive downloads go to it, of whatever share has the name, and with
`only_missing` each keeps what is there at the expected size; `foreign` marks a place
that more than one upload's share was listed into.  All files of the model are of
one size, which is when it matters.

`exposed` is a history variable: the names whose entry may be touched by another
than its owner.  The code has four ways to that: an upload takes a name while it
is in use, a running upload's entry ages, a sweep that could not read the rows
meets the names that are old, and a deletion removes by name when its row is gone.
`ListedIsWhole` and `FetchedIsShare` say what holds for all other names.  Each of the
four loses files: an upload that takes longer than the age limit has its entry
removed under it and is listed without its first parts; a failed query removes every
old share and leaves its row.  A download has two ways to take other files for its
share's.  With `only_missing` it keeps an earlier share's files of the name: for a
place that is `foreign`, `FetchedIsShare` promises their size and no more.  And it asks
by the row's number, which may be another share's by then: `ShareReuse` shows it.

## 8. Lobby (`Lobby.tla`)

`conns` and `registry` are `SessionRegistry`; `task[h]` is where a handler is between
two lock scopes, for each websocket session and for a REST handler; `held[c]` is the
roster a handler has read and not sent yet; `inq`, `outq` and `up` are the links;
`cl[m]` is a desktop client.  A snapshot is "current" or "stale", and every change
makes what is on its way or on a screen stale: this is what a missed or misordered
broadcast would leave behind.  A roster in a handler's hands it makes "overtaken", so
that one that was sent behind a newer broadcast can be told from one that was missed.

`Hello` takes the registry's lock three times (`Hello`, `HelloRoster`, `HelloPush`),
`Resync` sends the jukebox under its lock and then reads the roster and sends it in
two steps (`Resync`, `ResyncRead`, `ResyncReply`), `broadcast_jukebox` takes its locks
twice (`Snap`, `SendOut`), the end of a session once and then the jukebox's.
`PlaybackAuth` refuses a password that has been changed since (`PasswordChanges`), and
any password while the address is locked out, which may be at any time here.

`Connect` publishes the new connection's channel; `run_once`'s greeting follows in two
parts (`Say`), and what commands, downloads and the reachability test send goes to
the channel from the start.  An `Announce` that comes before the hello is listed under
the empty client id (`Anon`).  The seeds announced are none while sharing back is off
or the chunk server has no port (`Seeds`, `StartSeeder`, `ShareBack`).  `Cut` breaks a
link with any part of its messages delivered; the client notices in `Lost`, the
server in `Leave`, in either order, so that one machine may have an old and a new
session.

`ShownIsCurrent` allows an overtaken roster, `SeedsListed` the entries of nobody,
`AuthorityKept` a session that was refused the password.  The three exceptions are
needed.  A session asks with `Resync`, its roster is read, another session changes
something and broadcasts, and then the older roster is queued behind the newer one:
it stays on the screen until the next change, although the comment on the resync
says that the UI never shows stale state.  A download that completes between
`Connect` and the hello leaves an entry under the empty client id that the end of no
session removes.  And a machine that comes back while its address is locked out
goes on without the authority and is not told.  The periodic `send_activity` is left
out: it sends what `Probed` sends.

## 9. Admin sessions and configuration (`AdminSessions.tla`, `Supervisor.tla`)

In `AdminSessions` a request (`ask[h]`) is cut where it lets go of the locks to hash
or verify: setup, login, change of the password, and the handlers that take the
password without a session.  `throttle`, `sessions` and time are those of
`state.rs`, with `LOGIN_LOCKOUT` and the two session limits as constants.  A request
during which another one wrote the password is `early`, and so is a session it
opens; `split` marks that a save has failed.  `SessionsCurrent` leaves both out, because the
code does: a login that verified the old password may insert its session after
the change has revoked the others.

`Supervisor` has `put_config` in its three stretches (`PutConfig` under the
configuration's lock, `ApplyMode`, `SendRebinds`), `jukebox_mode`, `restart_service`
and the loop of `lib.rs` (`Take`, `ReadBind`, `Listen`, `TryAgain`, `BindFails`).  The
address is read when the old listener has drained, not when the message was
sent; `FollowsConfig` is about that, and about the jukebox's mode, which `put_config`
sets after it has let go of the configuration: `crossed` marks that another request
set it meanwhile, and only then may the two differ.  `unsaved` marks a failed save:
then the handler returns and memory, file and listeners part, which the properties
leave out.  The loop awaits the old listener without a time limit, so a drain may
go on for ever and every later message with it.

## 10. Bitmap (`Bitmap.tla`, `ChunkSet.tla`)

A byte is the set of its ones, out of `Width` bits; `blob` is what the client's
database holds, of any length in `BlobSizes` and with any bits.  The operations are those of
`bitmap.rs`, `Save` and `Load` those of `db.rs`.  `ChunkSet` is what a bitmap promises:
a set that gains and loses single chunks and survives a save and a load.
`Bitmap` implements it (`ActsAsSet`) under the mapping that reads the set off the
bits; `Download` uses such a set.

## 11. Scheduler and cap (`Scheduler.tla`, `Seeder.tla`)

`AssignNext` is one turn of `assign`'s loop: the holder of the chunk with the least
virtual time is chosen and its clock moves by the inverse of its weight.  Weights
divide `Scale`, so that whole numbers stand for the code's floating point.

`Seeder` has the token bucket, refilled only when it is asked, and the requests
that share it, each of which tries, sleeps for what `time_until` says and tries
again; requests come without end.  `slack` is history: the least, over all intervals that end now, of burst
and rate times length minus what went out; `CapKept` says it is never negative.
There is no queue for tokens: smaller requests may take them before each wake-up of
a larger one.  `Answered` says that this is all that can keep a request: either
tokens go to others without end, or it is answered.

## 12. Locks (`Locks.tla`)

Handlers as sequences of scopes, a scope as the order in which it takes its
locks.  Only scopes that hold a lock while taking another, and what stands
between them, are listed; a scope with one lock cannot be part of a circle.
`NoCircularWait` fails.  `OneCircle` says how: only with `jukebox_mode` on its way
from the jukebox to the configuration, `put_config` with the configuration and a
third handler on its way from the database to the jukebox.  So two handlers
never block each other for good, and if `jukebox_mode` let go of the jukebox
before it takes the configuration, no number of them would.

## 13. Parts side by side

`MCJukeboxShares`, `MCInvariants` and `MCProgress` each put several components into one
instance.  A variable `part`, chosen at the start, says which of them moves; the
others stay in an initial state.  They extend the components (`MCProgress` takes
an instance of `Shares` for the sweep; `MCInvariants` takes the lobby with the bounds
of `MCLobby`), so that a run checks the very
definitions the theorems are about.  `ServiceComesUp` is `ComesUp` of `Supervisor`, restricted to the part in which
the supervisor moves.  In `MCJukeboxShares` the share pool takes three of the parts:
"pool" has the sweep and one deletion at a time, "overlap" deletions that overlap and
uploads of one file, "download" the client.  A sweep and a download meet in the
proof alone.

The components share no state, so the reachable
states are the union of theirs and each property is checked exactly on the part
it is about.  Where components do interact the effect is an action of the
component that suffers it: a deleted share takes its rows out of the queue in
`Jukebox!ShareDeleted`, the last machine's departure is `Disconnect` there and
`Leave` in `Lobby`, a new version is `Publish` in `Download`.

## 14. Runs

| Run | Module | Checks | Shows |
|---|---|---|---|
| `DownloadVersions` | `MCDownload` | `RunSound`, `ResumeSound`, `CompleteIsWhole`, `IndInv` (with the types) | a shorter version is published in the middle of downloads, with pauses, detached writes, repairs and crashes |
| `DownloadPause` | `MCDownload` | `ResumeSound`, `PauseTakesEffect`, `StartedJobEnds` | two files, `delete_game` at every point, failing validation; liveness, see section 15 |
| `DownloadDeleteRace` | `MCDownload` | `CompleteAgainstVersion`, violated | `delete_game` sets a flag and deletes at once; the job ends "complete" without its files |
| `DownloadQueueStranded` | `DownloadQueue` | `NeverStranded`, violated | a job pushed between the last pop and the clearing of the flag is left without a worker |
| `JukeboxShares` | `MCJukeboxShares` | `TypeOK`, `PlayingIsReal`, `MemoryMatchesTable`, `NoPhantom`, `RequeuedFirst`; `ListedIsWhole`, `FetchedIsShare` | jukebox: two playback machines, late messages, deleted shares, database errors, restarts; shares: two uploads of one name, deletions that overlap and fail, sweeps that cannot read the rows or remove an entry, downloads broken, cancelled and repeated into one place |
| `JukeboxHogging` | `MCJukebox` | `NoHogging`, violated | the order is computed anew at every advance and one client plays twice in a row |
| `Library` | `MCLibrary` | `FastCheckSound`, `CacheFollowsTable`, `VersionsFixed`, `IndInv` (with the types), `Converges`, `OffersStand` | scans beside the staging watcher, rewrites of the same size, failed promotions, panics, restarts; liveness |
| `LibraryVersions` | `MCLibrary` | `VersionsImmutable`, violated | a scan between the two renames of a promotion takes the title for removed and its versions start again from 1 |
| `ShareReuse` | `Shares` | `GoneNotCorrupt`, violated | the number of a deleted share is given out again and a download goes on with another share's files |
| `Invariants` | `MCInvariants` | lobby: `ShownIsCurrent`, `SeedsListed`, `AuthorityKept`; admin: `SessionsCurrent`, `LockHolds`; jukebox order: `RoundRobin`; bitmap: `CountsChunks`, `ActsAsSet`; scheduler: `FairShare`; locks: `OneCircle` | six parts without liveness |
| `Progress` | `MCProgress` | supervisor: `FollowsConfig`, `ServiceComesUp`; sweep: `OrphansSwept`; seeder: `CapKept`, `Answered`; queue: `OneWorker`, `ActiveIsRunning`, `ServedWhileRunning`, `ServedInOrder` | four parts that owe something in the end |
| `LockOrder` | `Locks` | `NoCircularWait`, violated | `put_config`, `jukebox_mode` and a handler of the queue wait for one another |

The six violated properties each restate a comment of the code; `findings` in
`PROJECT.json` quotes it.

Bounds.

* *Download.*  Two positions are enough for a write in flight, a group still to
  be fetched and a hole beside written bytes; with `BatchSize` 2 and `GroupSize` 1
  a pass has two groups, so fetch and write overlap.  `PersistEvery` 2 puts a
  crash between a write and its persistence.  Two versions, the second shorter,
  are enough for bytes of the wrong version and for a file that must be cut.
  `MaxDetached` and `MaxRepairs` bound what is in flight at once, not how often it
  happens.
* *Queue.*  Two callers, since a race for the flag needs two, and two workers,
  since one could not show that a second is started.
* *Jukebox.*  Two machines, since "the last one leaves" needs another to leave
  first or to come back, and two rows, one playing and one next; `MaxQueue` 1
  makes the limit reachable.  `MaxRank` cuts off steps that would move a row a
  third time; `RoundRobin` is checked on every queue of four rows of two clients
  with all distributions of votes, since the rotation needs two rounds of two
  lanes.
* *Library.*  One title and one file: titles share nothing but the scan's loop,
  and what is hard about a file (its time, size and data taken at different
  moments) needs no second one.  Two contents of one size show what the time is
  for, one of another size the panic; two times are a file and its rewrite, in
  the library or through staging.  One scanner, since `CacheFollowsTable` and
  `VersionsFixed` are about scans that do not overlap; `FastCheckSound` is proved
  for any number of titles, files and scans.
* *Shares.*  Two uploads of one name, two deletions and a download; two parts, so
  that an upload or download can stop between them; two copies of the name, so
  that the second gets a number.  The sweep meets uploads of two parts while
  deletions come one at a time, and deletions that overlap with uploads of one
  file: two deletions matter by what the second removes when the first has
  dropped the row.  The sweep's liveness is checked with one part, one copy of the
  name, one deletion and no download.
* *Lobby.*  One machine with two connections: everything here is between one
  machine's old session and its new one, and between a change and the messages
  to it; the panel's handler and the machine itself make the changes.
  `MaxActs` 2 allows a change while another's broadcast is under way; the second
  act of users, downloads, new connections and passwords comes only while there is
  one session at a time (`Bounded`), and a machine that starts in playback mode has
  nothing to seed yet (`Bare`).  The theorems have none of these bounds.
* *Admin sessions.*  Two requests at once, two passwords, one address and one
  cookie; two failures lock, for one unit of time.  Both theorems hold for any
  number.
* *Supervisor.*  Two services, the panel and another, two changes, three
  addresses of which one cannot be bound, two requests at once and one retry.
  Two paths and two modes of the jukebox, so that a request changes them or not.
* *Bitmap.*  Bytes of three bits and 0, 1, 3 or 4 chunks: none, less than a byte, exactly
  one, one more; blobs of none to three bytes, so shorter than the bitmap, of its
  size, one byte longer and more, with any bits.
* *Scheduler.*  Two peers and the server, three chunks, rates of zero, below and
  above the floor or unmeasured, and every set of chunks held.
* *Seeder.*  A cap (2) below the size of a chunk (5), requests of one unit, nearly a
  default chunk and more than one; two requests at a time, without end.
* *Locks.*  Three threads, the fewest that can make a circle.

`SYMMETRY` is used only in `JukeboxShares`, which has no liveness property, over
machines and requests that the models never name.  Deadlock is checked except in the
side-by-side runs whose parts may end (full queues played out, all uploads done,
`MaxActs` reached) and in `LockOrder`, where it is the question.

## 15. Fairness

`Download!FairSpec` is weakly fair to the worker's own steps, to the interrupt
timer (`until_interrupted` polls the flags every 100 ms whatever it wraps) and to
writes already handed to a blocking thread that was detached.  It is not fair to
the network.  `PauseTakesEffect` holds under that alone.  `StartedJobEnds` needs
more, and says so: `WorksNowAndThen` asks that a request which is issued returns
and that, of infinitely many fetches and writes, some succeed.  Without this the
job retries for good, which is what the code intends.  That run has one version:
once a newer one is published the server refuses the chunks of the old one and
the job waits until it is cancelled.

`Library!FairSpec` is weakly fair to each scanning thread: `periodic_scan` loops
for good with a finite sleep, and a scan never waits for anything but short
locks and the disk.  It is not fair to the watcher or the admin.  `Converges`
assumes, in its own statement, that from some moment on folders stay as they are
and can be read, without restarts; the code gives no more under constant change.

`DownloadQueue!FairSpec` is weakly fair to each caller's pump and to what a worker
does between two jobs (`Between`), as the runtime is to tasks that never block for
good.  It is not fair to a job: a pass that fails is retried for good.
`ServedWhileRunning` has the end of the jobs as its premise (`JobsEnd`).
`Jukebox!FairSpec` is fair to the step a session owes after it has left the registry.

`Supervisor` is weakly fair to the rebind loop, but for the end of a drain
(`ReadBind`), and to the rest of a request that has begun; requests are never owed,
and neither is the release of an address by another process.  `ComesUp` therefore
speaks only of services that were asked to move to an address that stays free, and
has as its premise that drains end (`Drains`): one paused stream keeps every
later rebind waiting.  `Shares` is weakly fair to the start and
end of a sweep and strongly fair to the removal of an entry and to its ageing:
the sweep repeats for good and walks the whole drive each time, and restarts do
not hit every one of them, nor does every removal fail.  `Seeder` is weakly fair to
time and to each request's handler.  Nothing bounds the requests that compete for
tokens, so `Answered` leaves a request unanswered when tokens go to others
without end (`OthersTake`), and only then.  `MCProgress` states the
same fairness for whichever part it runs.

## 16. Proofs

`DownloadProofs` proves `Spec => []IndInv` for any titles, versions, layouts, batch
and group sizes, and from it `TypeCorrect`, `BitmapSoundness`, `ResumeSoundness`
and `CompleteSoundness`.  None of the three soundness properties is inductive.
`IndInv` adds:

* `Shape`: what the locals hold at each place of the loop, and that no bit lies
  outside its version;
* `Versions`: nothing concerning a title, whether row, byte, detached write or
  repair, is of a later version than the server offers, nor, once a job is past
  the check of its manifest, than the job's.  This is why a publication in the
  middle of a job does no harm: bytes of the new version cannot appear before
  the job has ended;
* `Handles`: a handle is open on a removed file only in a stray title;
* `AllBacked`: the bits of the running job, of the task in flight, of a repair's
  finding and of the rows are backed, for the offered version and the job's.  A
  row may be unbacked only when the folder is gone and nobody is about to write
  there (`Quiet`): otherwise a late write would bring the folder back and make
  the stale row usable.

The order is types, shape, versions, handles, backing; each lemma has one step
per action.  The assumptions are `ConstantsAssumption`, `LayoutAssumption` (a
version fills its files from the start) and `NoTaskAssumption`.

The same module ties the client to the server.  `EnvironmentKeepsPromise` says that
the server in `Download` behaves as `TitleServer` allows, `EnvironmentIsServer` that
every version `TitleServer` may offer next, up to `MaxVer`, is a `Publish`: so the
client's results hold for whatever the promise allows, and `Library` keeps the
promise (`ImplementsServer`, below).  Titles that are lost have no counterpart in
`Download`: what a client does with a title whose versions start again from 1 is
what `LibraryVersions` warns about.

`QueueProofs` proves `OneWorker`, `ActiveIsRunning` and `TypeOK` of
`DownloadQueue` for any number of callers and workers.  `OneWorker` has to carry
the second half, that a live worker implies a set flag: this is what lets the
swap exclude a second one.  For the types and the order of service, what a position of the queue holds
after Cancel has to be known: `PickedFacts` says that `Picked` is an
order-preserving bijection between the positions chosen and those of the result.
It rests on `Rank`, the number of chosen positions up to one, which grows by one
at each (`RankGrows`, `NthFacts`), an argument by cardinality where SelectSeq would
need induction.

`QueueServedInOrder` proves that `DownloadQueue` implements `JobQueue`.  The pop maps to
taking the first job, and is allowed because the worker that pops is the only one
and holds none yet (`OneInHand`, from `OneWorker`); filling the slot maps to
showing that very job (from `ActiveIsRunning`); the push, Pause and Cancel are
themselves; every step of `pump` and of a worker that holds no job is a stutter
(`StepServes`).

The same module proves `FollowsConfig` of `Supervisor` for any services, addresses,
requests and retries.  `SupInv` is inductive (TLC checked it before it was proved):
a service that does not listen where the configuration says is down, or a
message for it waits in the channel or with a request that has yet to send it
(`Told`), and so it is with the address the loop has read but not yet bound
(`Heard`); a save that succeeds leaves memory, file and path alike (`Saved`); what
the loop works on is down (`LoopShape`).  The loop takes one message at a time, and
reads the address after it has taken it, so a message that is gone from the channel
stands for an address that is still to be read.  For the jukebox's mode, at most one
request has one to apply, and that is the configured one, until two requests cross;
when none has, the mode in use is the configured one (`ModeHeard`).  Assumption:
`SupAssumption`.

`LobbyProofs` proves `ShownIsCurrent`, `SeedsListed` and `AuthorityKept` for any
machines, titles and connections and any number of pushes under way.  All
three speak of quiet states; the invariant `IInv` says what holds on the way there.
For every linked machine each piece of state is in one of a few places, and no
step takes it out of all of them:

* `Wired`: a connection is one machine's, and carries nothing once it is closed;
* `Named`: a session is one machine's or nobody's yet, and so is every `Hello` in it;
* `Tied`: once it has begun its greeting (`say`), a machine is known to its session
  or has a `Hello` in the queue (`Greeted`); every title it has told of is listed
  under its name or is in the queue where the server will know whose it is
  (`TitleNoted`); its password has been verified or refused with no `Hello` to come,
  or is in the queue behind the last one (`AuthNoted`);
* `Listed`: nobody with a name is listed without an open session;
* `RosterShown`: the roster on the screen is current or was overtaken, with nothing
  else on its way, or such a one is on its way, or a message that will be answered
  with one is in the queue or still to be said, or a handler is about to broadcast
  one, or to send the one it has read (`HasRead`);
* `JukeboxShown`: the same of the jukebox, which must be current, and which a handler
  may be about to send to this session among others.

Messages from before the hello do no harm to this: `TitleNoted` and `AuthNoted` count
only what comes behind it, and a client tells the server again all it has to in
its greeting (`GreetingFacts`).  The proof takes the types and links first
(`LinksStep`), then what handlers hold (`HasReadStep`) and the two snapshots
(`ShownStep`); `QuietFacts` drops every place but the first.  Assumption:
`LobbyAssumption`.

`JukeboxProofs` proves `TypeOK`, `PlayingIsReal`, `MemoryMatchesTable` and `NoPhantom`
for any clients, playback machines and bounds; their conjunction is inductive.  `MemoryMatchesTable` is what makes `PlayingIsReal` survive a restart,
and `NoPhantom` rests on `LastGone` being decided under the registry's lock.  `RequeuedFirst`, an
action property, follows from the same invariant: a row put back gets a rank above
every rank there is (`PutBackFirst`), the playing row's own included.


In the same module `RoundRobin` is proved (`FairRotation`).  `Stronger` is a strict total
order of the rows (`StrongerOrder`), and the round of a row is the number of
stronger ones in its lane, so a lane of m rows has exactly one in each of the rounds
0 to m - 1 (`RowOfRound`, by cardinality: different rows have different rounds, and m
rows take m rounds).  Of two rows of one contributor the second is in a later round.
A lane whose first row is weaker than theirs has a row in the first one's round, one
whose first row is stronger has a row in the second one's, and that row lies
between the two.  Assumption: `JukeboxAssumption`; contributors are finitely many.

`LibraryProofs` proves, for any titles, files and number of scans, `TypeCorrect`
and `FastCheckSoundness`, and for scans that do not overlap `CacheAgreement` and
`VersionsFixedness` (`Inductive` names the invariant all of them follow from).  `FastCheckSound` speaks of the table and of what is served;
`FastInv` extends it to everything a scan holds (`Known`) and adds why no file
can turn up that an entry vouches for by accident: times lie in the past
(`PastOnly`), nobody has seen a staged file (`StagedUnseen`), and the folder moved
aside, which may come back, is known as well as the one in the library
(`KnownSound`, `AsideAlone`).  The step for the folders goes through `Moved`, the
six ways in which one path can change.  `TableInv` says that one scan is active
(`OneScan`), that its locals agree with the table (`LocalsFollowTable`), and that
the table is ahead of everything served (`ServedBehind`); the steps are proved
for one scan's view (`ScanFollows`, `CacheFollows`, `Behind`) and put together by
`OneScanViewNext`.  `NextAwaited` adds that a version which is in the table and not
served yet is the next one after what is served.  The assumptions are
`LibraryAssumption` and `NoneAssumption`.

`ImplementsServer` proves that `Library` implements `TitleServer`.  A scan's step raises
the one title it caches, by `NextAwaited` to the next version, or loses the title
it marks removed, or starts beside another scan and loses them all
(`ScanOffers`).  A restart reloads every title from the table and raises at most
one, the one whose scan it cut off between the commit and the cache
(`RestartOffers`): no title jumps and none goes back.

`TransferProofs` proves that the bitmap implements `ChunkSet` (`Implements`), that its
count of ones is the number of chunks it has (`CountsExactly`) and that bytes
and padding stay in shape (`BitTypeCorrect`), for any chunk counts and any width of
a byte.  The heart is that (byte, bit) pairs and chunk indices
correspond one to one, which rests on division with remainder; the padding
invariant is what makes the correspondence onto.  Assumptions: `LenAssumption`,
`WidthAssumption`.

It proves `FairShare` for any peers, chunks and rates: a source that is
chosen has the least clock among the holders, so after its step it is ahead of
no universal source by more than the cost of one chunk.  Assumptions:
`CountAssumption`, `WeightAssumption`.

`CapKept` is proved there for any number of requests, any cap and any sizes
(`CapAssumption`).  It is not inductive: the invariant says that what the bucket
would hold if it were refilled now never exceeds `slack`, and both sides move
alike when time passes.

`AdminSessionsProofs` proves `SessionsCurrent` (`SessionsStayCurrent`) for any number of
requests, passwords, addresses and cookies, `LockHolds` (`ThrottleHolds`) for any
finite set of requests, and the types (`SessionsTyped`) from `AdmAssumption`, of which
the last part, that the idle limit is no longer than the absolute one, is what
keeps a session's idle time below its age.  The first
adds that nothing is open or about to be before a password is set
(`NothingBefore`) and that a request about to open a session has the password in
force or is `early` (`OpensCurrent`).  The second is a counting argument: the
failures counted since an address was locked and the requests still past its
throttle are together fewer than all requests (`LockInv`), since the one that
closed it is among neither.

The same module proves `OneCircle` of `Locks` for any number of threads
(`OnlyOneCircle`).  A thread of a circle holds a lock and wants another, so it
stands in one of six places (`Places`, from the scopes' orders, `ScopeOrders`).
Two of the places want the connections, whose holders never wait; from each of
the other four the lock that is wanted is held in just one of them, and the way
from place to place comes round to where it started (`CircleCloses`).

`SharesProofs` proves `ListedIsWhole` (`ListingSound`) for any number of uploads,
deletions, downloads, names and parts.  Deletions may overlap, uploads may age,
queries and removals of the sweep may fail, and the server may restart between any
two steps; `Setting` only says of the constants what they are.  The argument is
ownership.  An entry that is not `exposed` has at most one owner, a running upload or
a row (`OneOwner`), and only its owner's steps and the deletion that dooms the row
touch it; a running upload's entry stands on the drive and is young (`InUse`), so
neither another upload nor the sweep takes it; what the upload has written so
far is there (`Written`), which becomes `ListedIsWhole` when the row is inserted;
and a sweep under way takes every listed entry for valid or for too young
(`Spares`).

From this follows `FetchedIsShare` (`DownloadSound`): as long as
the share of a download is listed, the download's number is that row's and its
plan the row's parts (`RightRow`); whatever came in this attempt, and whatever is in
a place that never had another share's files, is that share's (`OwnParts`); and a
report is made of all of it (`AllIn`).  A number given out again
does no harm then, because an upload is listed only once (`Once`): the row of another share
under the number means that the first is gone.  `PoolTyped` adds the types; that
numbers stay below the number of uploads ever listed (`Numbered`) is again
counting.

Only model-checked: all liveness (`PauseTakesEffect`, `StartedJobEnds`, `Converges`,
`ServiceComesUp`, `OrphansSwept`, `Answered`, `ServedWhileRunning`), which is beyond
the proof system used here.  Every invariant, action property and refinement of a
passing run is a theorem.  The types of the modules that run side by side are
theorems alone: `LobbyTypes`, `SessionsTyped`, `BitTypeCorrect`, `SchedTypeCorrect`,
`SupTypes`, `PoolTyped`, `SeedTypeCorrect`, `QueueTypes`.

## 17. Not modelled

* User interfaces; processes and I/O wrappers (mpv, media proxy, mDNS,
  self-update, start-up, the lock-down shell); generated bindings.
* String checks without state (`pathsafe.rs`, all but `resolve_collision`), the
  serialisation of `protocol.rs`, cryptographic hashing, of which only "right bytes
  pass, wrong bytes do not" is used.
* The averages of `ratemeter.rs` and of the peer rates: floating-point arithmetic
  on measured times; the scheduler takes a rate as given.
* The chunk server's manifest, kept per title: after an update it can offer chunks
  of one version from files of another.  The receiver verifies every chunk, which
  `Download` models as a fetch that returns wrong bytes.
* `Config::save` is one step that succeeds or fails; that a crash within it may
  leave a partial file is left out.
* The `TitleChanged` message, ping times, the roster's order and names, the size
  limits of an upload beyond ending it.
