------------------------------- MODULE Library -------------------------------
(***************************************************************************)
(* The server's library (library.rs): scans that turn the folders of the   *)
(* library into published manifests, the table of titles (db.rs), the      *)
(* manifests served from memory (state.rs) and the staging watcher that    *)
(* moves finished folders in (library.rs, tasks.rs).                       *)
(*                                                                         *)
(* Scans run on blocking threads: the periodic one, the admin's, the one   *)
(* at start-up and the one after a promotion.  Nothing keeps them apart;   *)
(* only each access to the table or to the served manifests is locked.     *)
(*                                                                         *)
(* A file is its modification time, its size and its data.  The entry of   *)
(* a manifest has the time and the size that the walk of the tree saw and  *)
(* the data that was there when the file was hashed.                       *)
(***************************************************************************)
EXTENDS Integers, FiniteSets

CONSTANTS
  Titles,      \* folder names
  Files,       \* paths inside a title
  Data,        \* contents of a file
  Size,        \* the size of each content
  Infos,       \* contents of the .blt sidecar
  Scanners,    \* threads that scan
  Removable,   \* titles whose folder the admin may take away
  Staged,      \* titles the admin copies into the staging folder
  MaxClock,    \* bound: modification times
  None         \* no file, no tree, no manifest, no title

Clock == 0..MaxClock
Stat == [mtime : Clock, size : Nat]
File == [mtime : Clock, size : Nat, data : Data]
Listing == [Files -> File \cup {None}]
Tree == [files : Listing, info : Infos]
Manifest == [ver : Nat, files : Listing]
Row == [state : {"none", "scanning", "published", "removed"},
        ver : Nat, files : Listing, info : Infos \cup {None}]

ASSUME LibraryAssumption ==
  /\ MaxClock \in Nat
  /\ Size \in [Data -> Nat]
  /\ Removable \subseteq Titles /\ Staged \subseteq Titles

ASSUME NoneAssumption ==
  /\ None \notin Stat /\ None \notin File /\ None \notin Tree
  /\ None \notin Manifest /\ None \notin Titles /\ None \notin Infos

VARIABLES
  clock,     \* the time of the last change to a file
  lib,       \* the folder of each title in the library
  aside,     \* the folder .name.replaced
  stage,     \* the folder in staging
  row,       \* titles, files and chunks in the database
  cache,     \* the manifests being served
  pc,        \* where each scan is
  todo,      \* folders that read_dir returned and are still to be scanned
  seen,      \* folders scanned
  cur,       \* the title at hand
  prev,      \* previous: the manifest the scan compares with
  walked,    \* time and size of each file
  built,     \* the entries of the new manifest
  info,      \* the sidecar as read
  loaded,    \* the manifest read back after publishing
  gone,      \* titles to be marked removed
  wpc,       \* where the watcher is: the title it is promoting, or None
  observed,  \* what the watcher saw of a staged folder at an earlier tick
  settled,   \* the settle window has passed since
  served,    \* history: manifests ever served
  dropped,   \* history: titles that were marked removed
  overlap    \* history: two scans have run at once

diskVars  == <<clock, lib, aside, stage>>
scanVars  == <<pc, todo, seen, cur, prev, walked, built, info, loaded, gone>>
watchVars == <<wpc, observed, settled>>
histVars  == <<served, dropped, overlap>>
vars == <<diskVars, row, cache, scanVars, watchVars, histVars>>

Empty == [f \in Files |-> None]
NoRow == [state |-> "none", ver |-> 0, files |-> Empty, info |-> None]

-----------------------------------------------------------------------------
(* Operators. *)

ManifestOf(r) == [ver |-> r.ver, files |-> r.files]

\* A file that carries the time and the size of a known entry is not read.
SameStat(x, e) == e # None /\ x.mtime = e.mtime /\ x.size = e.size

\* Hashed to the same content: not a change, the old entry stays.
SameContent(x, e) == e # None /\ x.size = e.size /\ x.data = e.data

\* A title that was removed, or never published, has no previous manifest.
HasManifestEver(r) == r.ver > 0
HasManifest(r) == r.ver > 0 /\ r.state = "published"

OldEntries(m) == IF m = None THEN Empty ELSE m.files
SameVersion(m) == IF m = None THEN 1 ELSE m.ver
NewVersion(m) == IF m = None THEN 1 ELSE m.ver + 1

\* reload_manifest_cache
ReloadedLater(r) == None
Reloaded(r) == IF r.state = "published" THEN ManifestOf(r) ELSE None

Written(d) == [mtime |-> clock + 1, size |-> Size[d], data |-> d]

-----------------------------------------------------------------------------
(* External: the admin works on the folders.  Every change of a file gives  *)
(* it a modification time no file has had before: the fast check promises   *)
(* nothing for two changes within the second that the scan keeps.           *)

Tick == clock < MaxClock /\ clock' = clock + 1

WriteFile(t, f, d) ==
  /\ lib[t] # None /\ Tick
  /\ lib' = [lib EXCEPT ![t].files[f] = Written(d)]
  /\ UNCHANGED <<aside, stage, row, cache, scanVars, watchVars, histVars>>

RemoveFile(t, f) ==
  /\ lib[t] # None /\ lib[t].files[f] # None
  /\ lib' = [lib EXCEPT ![t].files[f] = None]
  /\ UNCHANGED <<clock, aside, stage, row, cache, scanVars, watchVars, histVars>>

EditSidecar(t, i) ==
  /\ lib[t] # None
  /\ lib' = [lib EXCEPT ![t].info = i]
  /\ UNCHANGED <<clock, aside, stage, row, cache, scanVars, watchVars, histVars>>

\* Not while the watcher is moving the title in.
AddFolder(t, f, d, i) ==
  /\ lib[t] = None /\ wpc # t /\ Tick
  /\ lib' = [lib EXCEPT ![t] =
               [files |-> [Empty EXCEPT ![f] = Written(d)], info |-> i]]
  /\ UNCHANGED <<aside, stage, row, cache, scanVars, watchVars, histVars>>

RemoveFolder(t) ==
  /\ t \in Removable /\ lib[t] # None
  /\ lib' = [lib EXCEPT ![t] = None]
  /\ UNCHANGED <<clock, aside, stage, row, cache, scanVars, watchVars, histVars>>

StageFile(t, f, d, i) ==
  /\ t \in Staged /\ Tick
  /\ stage' = [stage EXCEPT ![t] =
       [files |-> [(IF @ = None THEN Empty ELSE @.files) EXCEPT ![f] = Written(d)],
        info |-> i]]
  /\ UNCHANGED <<lib, aside, row, cache, scanVars, watchVars, histVars>>

-----------------------------------------------------------------------------
(* scan_library: the folders found are scanned one by one. *)

Goto(s, place) == pc' = [pc EXCEPT ![s] = place]

titleVars == <<cur, prev, walked, built, info, loaded>>

ScanStart(s) ==
  /\ pc[s] = "idle" /\ Goto(s, "next")
  /\ todo' = [todo EXCEPT ![s] = {t \in Titles : lib[t] # None}]
  /\ seen' = [seen EXCEPT ![s] = {}]
  /\ overlap' = (overlap \/ \E r \in Scanners \ {s} : pc[r] # "idle")
  /\ UNCHANGED <<diskVars, row, cache, titleVars, gone, watchVars, served,
                 dropped>>

\* A folder that is gone by now is not counted as seen.
SkipTitle(s, t) ==
  /\ pc[s] = "next" /\ t \in todo[s] /\ lib[t] = None
  /\ todo' = [todo EXCEPT ![s] = @ \ {t}]
  /\ UNCHANGED <<diskVars, row, cache, pc, seen, titleVars, gone, watchVars,
                 histVars>>

\* ensure_title, then the title's row decides whether there is a previous
\* manifest to compare with.
ScanTitle(s, t) ==
  /\ pc[s] = "next" /\ t \in todo[s] /\ lib[t] # None
  /\ todo' = [todo EXCEPT ![s] = @ \ {t}]
  /\ seen' = [seen EXCEPT ![s] = @ \cup {t}]
  /\ cur' = [cur EXCEPT ![s] = t]
  /\ row' = IF row[t].state = "none"
              THEN [row EXCEPT ![t].state = "scanning"] ELSE row
  /\ Goto(s, IF HasManifest(row[t]) THEN "previous" ELSE "walk")
  /\ UNCHANGED <<diskVars, cache, prev, walked, built, info, loaded, gone,
                 watchVars, histVars>>

\* The served manifest, or else the one in the table.
Previous(s) ==
  LET t == cur[s] IN
  /\ pc[s] = "previous" /\ Goto(s, "walk")
  /\ prev' = [prev EXCEPT ![s] =
                IF cache[t] # None THEN cache[t] ELSE ManifestOf(row[t])]
  /\ UNCHANGED <<diskVars, row, cache, todo, seen, cur, walked, built, info,
                 loaded, gone, watchVars, histVars>>

\* The walk takes times and sizes; what they vouch for is not read again.
Walk(s) ==
  LET tree == lib[cur[s]]
      old  == OldEntries(prev[s])
  IN
  /\ pc[s] = "walk" /\ tree # None /\ Goto(s, "hash")
  /\ walked' = [walked EXCEPT ![s] =
       [f \in Files |-> IF tree.files[f] = None THEN None
          ELSE [mtime |-> tree.files[f].mtime, size |-> tree.files[f].size]]]
  /\ built' = [built EXCEPT ![s] =
       [f \in Files |-> IF tree.files[f] # None /\ SameStat(tree.files[f], old[f])
                          THEN old[f] ELSE None]]
  /\ UNCHANGED <<diskVars, row, cache, todo, seen, cur, prev, info, loaded, gone,
                 watchVars, histVars>>

ToHash(s) == {f \in Files : walked[s][f] # None /\ built[s][f] = None}

Entry(stat, d) == [mtime |-> stat.mtime, size |-> stat.size, data |-> d]

\* hash_one_file: the data is what the file holds now.
HashFile(s, f) ==
  LET tree == lib[cur[s]]
      old  == OldEntries(prev[s])[f]
      new  == Entry(walked[s][f], tree.files[f].data)
  IN
  /\ pc[s] = "hash" /\ f \in ToHash(s)
  /\ tree # None /\ tree.files[f] # None
  /\ built' = [built EXCEPT ![s][f] = IF SameContent(new, old) THEN old ELSE new]
  /\ UNCHANGED <<diskVars, row, cache, pc, todo, seen, cur, prev, walked, info,
                 loaded, gone, watchVars, histVars>>

EndTitle(s) ==
  /\ Goto(s, "next")
  /\ cur' = [cur EXCEPT ![s] = None] /\ prev' = [prev EXCEPT ![s] = None]
  /\ walked' = [walked EXCEPT ![s] = Empty]
  /\ built' = [built EXCEPT ![s] = Empty]
  /\ info' = [info EXCEPT ![s] = None] /\ loaded' = [loaded EXCEPT ![s] = None]

\* A file or the folder cannot be read: the scan goes on with the next title.
TitleError(s) ==
  /\ pc[s] \in {"walk", "hash"}
  /\ EndTitle(s)
  /\ UNCHANGED <<diskVars, row, cache, todo, seen, gone, watchVars, histVars>>

\* build_file_entry: a file that is longer or shorter than the walk saw may
\* have another number of chunks; the assertion ends the whole scan.
ScanPanics(s, f) ==
  LET tree == lib[cur[s]] IN
  /\ pc[s] = "hash" /\ f \in ToHash(s)
  /\ tree # None /\ tree.files[f] # None
  /\ tree.files[f].size # walked[s][f].size
  /\ pc' = [pc EXCEPT ![s] = "idle"]
  /\ cur' = [cur EXCEPT ![s] = None] /\ prev' = [prev EXCEPT ![s] = None]
  /\ walked' = [walked EXCEPT ![s] = Empty]
  /\ built' = [built EXCEPT ![s] = Empty]
  /\ todo' = [todo EXCEPT ![s] = {}] /\ seen' = [seen EXCEPT ![s] = {}]
  /\ UNCHANGED <<diskVars, row, cache, info, loaded, gone, watchVars, histVars>>

\* build_info_payload: no folder, no sidecar.
ReadSidecar(s) ==
  LET tree == lib[cur[s]] IN
  /\ pc[s] = "hash" /\ ToHash(s) = {} /\ Goto(s, "publish")
  /\ info' = [info EXCEPT ![s] = IF tree = None THEN None ELSE tree.info]
  /\ UNCHANGED <<diskVars, row, cache, todo, seen, cur, prev, walked, built,
                 loaded, gone, watchVars, histVars>>

\* Not any_change: every entry was reused and none is missing.
NoChange(s) == prev[s] # None /\ built[s] = OldEntries(prev[s])

\* As if the times were taken after the data was read.
Restat(e, tree, f) ==
  IF e = None \/ tree = None \/ (tree # None /\ tree.files[f] = None) THEN e
    ELSE Entry(tree.files[f], e.data)
PublishRestated(s) ==
  /\ pc[s] = "publish" /\ ~NoChange(s) /\ Goto(s, "load")
  /\ row' = [row EXCEPT ![cur[s]] =
               [state |-> "published", ver |-> NewVersion(prev[s]),
                files |-> [f \in Files |-> Restat(built[s][f], lib[cur[s]], f)],
                info |-> info[s]]]
  /\ UNCHANGED <<diskVars, cache, todo, seen, titleVars, gone, watchVars,
                 histVars>>

\* replace_manifest, in one transaction.
Publish(s) ==
  /\ pc[s] = "publish" /\ ~NoChange(s) /\ Goto(s, "load")
  /\ row' = [row EXCEPT ![cur[s]] =
               [state |-> "published", ver |-> NewVersion(prev[s]),
                files |-> built[s], info |-> info[s]]]
  /\ UNCHANGED <<diskVars, cache, todo, seen, titleVars, gone, watchVars,
                 histVars>>

\* update_info_only, or nothing when the sidecar is the same as well.
UpdateInfo(s) ==
  /\ pc[s] = "publish" /\ NoChange(s) /\ EndTitle(s)
  /\ row' = [row EXCEPT ![cur[s]].info = info[s]]
  /\ UNCHANGED <<diskVars, cache, todo, seen, gone, watchVars, histVars>>

\* The manifest is read back from the table ...
LoadManifest(s) ==
  /\ pc[s] = "load" /\ Goto(s, "cache")
  /\ loaded' = [loaded EXCEPT ![s] = ManifestOf(row[cur[s]])]
  /\ UNCHANGED <<diskVars, row, cache, todo, seen, cur, prev, walked, built, info,
                 gone, watchVars, histVars>>

\* ... and served from now on.
CacheManifest(s) ==
  /\ pc[s] = "cache" /\ EndTitle(s)
  /\ cache' = [cache EXCEPT ![cur[s]] = loaded[s]]
  /\ served' = [served EXCEPT ![cur[s]] = @ \cup {loaded[s]}]
  /\ UNCHANGED <<diskVars, row, todo, seen, gone, watchVars, dropped, overlap>>

\* Titles of the table whose folder the scan has not seen.
ListRemoved(s) ==
  /\ pc[s] = "next" /\ todo[s] = {} /\ Goto(s, "remove")
  /\ gone' = [gone EXCEPT ![s] =
                {t \in Titles : row[t].state \notin {"none", "removed"}} \ seen[s]]
  /\ UNCHANGED <<diskVars, row, cache, todo, seen, titleVars, watchVars, histVars>>

MarkRemoved(s, t) ==
  /\ pc[s] = "remove" /\ t \in gone[s] /\ Goto(s, "uncache")
  /\ row' = [row EXCEPT ![t].state = "removed"]
  /\ gone' = [gone EXCEPT ![s] = @ \ {t}]
  /\ cur' = [cur EXCEPT ![s] = t]
  /\ dropped' = dropped \cup {t}
  /\ UNCHANGED <<diskVars, cache, todo, seen, prev, walked, built, info, loaded,
                 watchVars, served, overlap>>

UncacheNothing(s) ==
  /\ pc[s] = "uncache" /\ Goto(s, "remove")
  /\ cur' = [cur EXCEPT ![s] = None]
  /\ UNCHANGED <<diskVars, row, cache, todo, seen, prev, walked, built, info, loaded,
                 gone, watchVars, histVars>>

Uncache(s) ==
  /\ pc[s] = "uncache" /\ Goto(s, "remove")
  /\ cache' = [cache EXCEPT ![cur[s]] = None]
  /\ cur' = [cur EXCEPT ![s] = None]
  /\ UNCHANGED <<diskVars, row, todo, seen, prev, walked, built, info, loaded,
                 gone, watchVars, histVars>>

ScanEnd(s) ==
  /\ pc[s] = "remove" /\ gone[s] = {} /\ Goto(s, "idle")
  /\ seen' = [seen EXCEPT ![s] = {}]
  /\ UNCHANGED <<diskVars, row, cache, todo, titleVars, gone, watchVars, histVars>>

-----------------------------------------------------------------------------
(* The staging watcher: a folder that has not changed for the settle window *)
(* is moved into the library.                                               *)

Observe(t) ==
  /\ wpc = None /\ observed[t] # stage[t]
  /\ observed' = [observed EXCEPT ![t] = stage[t]]
  /\ settled' = settled \ {t}
  /\ UNCHANGED <<diskVars, row, cache, scanVars, wpc, histVars>>

SettleWindowPasses(t) ==
  /\ observed[t] # None
  /\ settled' = settled \cup {t}
  /\ UNCHANGED <<diskVars, row, cache, scanVars, wpc, observed, histVars>>

Settled(t) == stage[t] # None /\ observed[t] = stage[t] /\ t \in settled

\* As if the folder were copied.
CopyIn(t) ==
  /\ lib' = [lib EXCEPT ![t] = stage[t]]
  /\ observed' = [observed EXCEPT ![t] = None]
  /\ settled' = settled \ {t}
  /\ stage' = stage

\* rename(staging/name, library/name) and what follows it.
MoveIn(t) ==
  /\ lib' = [lib EXCEPT ![t] = stage[t]]
  /\ stage' = [stage EXCEPT ![t] = None]
  /\ observed' = [observed EXCEPT ![t] = None]
  /\ settled' = settled \ {t}

PromoteNew(t) ==
  /\ wpc = None /\ Settled(t) /\ lib[t] = None
  /\ MoveIn(t)
  /\ UNCHANGED <<clock, aside, row, cache, scanVars, wpc, histVars>>

\* The title exists: its folder is moved aside first.
MoveAside(t) ==
  /\ wpc = None /\ Settled(t) /\ lib[t] # None
  /\ aside' = [aside EXCEPT ![t] = lib[t]]
  /\ lib' = [lib EXCEPT ![t] = None]
  /\ wpc' = t
  /\ UNCHANGED <<clock, stage, row, cache, scanVars, observed, settled, histVars>>

Replace(t) ==
  /\ wpc = t /\ stage[t] # None
  /\ MoveIn(t)
  /\ aside' = [aside EXCEPT ![t] = None]
  /\ wpc' = None
  /\ UNCHANGED <<clock, row, cache, scanVars, histVars>>

\* The second rename failed: the old folder is put back, or that fails too.
RestoreOld(t) ==
  /\ wpc = t
  /\ \/ /\ lib' = [lib EXCEPT ![t] = aside[t]]
        /\ aside' = [aside EXCEPT ![t] = None]
     \/ UNCHANGED <<lib, aside>>
  /\ wpc' = None
  /\ UNCHANGED <<clock, stage, row, cache, scanVars, observed, settled, histVars>>

-----------------------------------------------------------------------------
\* The process dies and starts again: what is served comes from the table.
Restart ==
  /\ cache' = [t \in Titles |-> Reloaded(row[t])]
  /\ served' = [t \in Titles |-> served[t] \cup ({Reloaded(row[t])} \ {None})]
  /\ pc' = [s \in Scanners |-> "idle"]
  /\ todo' = [s \in Scanners |-> {}] /\ seen' = [s \in Scanners |-> {}]
  /\ cur' = [s \in Scanners |-> None] /\ prev' = [s \in Scanners |-> None]
  /\ walked' = [s \in Scanners |-> Empty] /\ built' = [s \in Scanners |-> Empty]
  /\ info' = [s \in Scanners |-> None] /\ loaded' = [s \in Scanners |-> None]
  /\ gone' = [s \in Scanners |-> {}]
  /\ wpc' = None /\ observed' = [t \in Titles |-> None] /\ settled' = {}
  /\ UNCHANGED <<diskVars, row, dropped, overlap>>

Init ==
  /\ clock = 0
  /\ lib = [t \in Titles |-> None] /\ aside = [t \in Titles |-> None]
  /\ stage = [t \in Titles |-> None]
  /\ row = [t \in Titles |-> NoRow] /\ cache = [t \in Titles |-> None]
  /\ pc = [s \in Scanners |-> "idle"]
  /\ todo = [s \in Scanners |-> {}] /\ seen = [s \in Scanners |-> {}]
  /\ cur = [s \in Scanners |-> None] /\ prev = [s \in Scanners |-> None]
  /\ walked = [s \in Scanners |-> Empty] /\ built = [s \in Scanners |-> Empty]
  /\ info = [s \in Scanners |-> None] /\ loaded = [s \in Scanners |-> None]
  /\ gone = [s \in Scanners |-> {}]
  /\ wpc = None /\ observed = [t \in Titles |-> None] /\ settled = {}
  /\ served = [t \in Titles |-> {}] /\ dropped = {} /\ overlap = FALSE

Folders ==
  \E t \in Titles :
    \/ RemoveFolder(t)
    \/ \E i \in Infos : EditSidecar(t, i)
    \/ \E f \in Files :
         \/ RemoveFile(t, f)
         \/ \E d \in Data : WriteFile(t, f, d)
         \/ \E d \in Data, i \in Infos : AddFolder(t, f, d, i) \/ StageFile(t, f, d, i)

ScanStep(s) ==
  \/ ScanStart(s)
  \/ \E t \in Titles : SkipTitle(s, t) \/ ScanTitle(s, t) \/ MarkRemoved(s, t)
  \/ Previous(s) \/ Walk(s) \/ ReadSidecar(s) \/ Publish(s) \/ UpdateInfo(s)
  \/ LoadManifest(s) \/ CacheManifest(s)
  \/ \E f \in Files : HashFile(s, f) \/ ScanPanics(s, f)
  \/ ListRemoved(s) \/ Uncache(s) \/ ScanEnd(s)

Watcher ==
  \E t \in Titles :
    \/ Observe(t) \/ SettleWindowPasses(t)
    \/ PromoteNew(t) \/ MoveAside(t) \/ Replace(t) \/ RestoreOld(t)

Next ==
  \/ Folders \/ Watcher \/ Restart
  \/ \E s \in Scanners : ScanStep(s) \/ TitleError(s)

Spec == Init /\ [][Next]_vars

\* The periodic scan starts again and again, and a scan runs to its end.
FairSpec == Spec /\ \A s \in Scanners : WF_vars(ScanStep(s) \/ TitleError(s))

-----------------------------------------------------------------------------
\* A scan has a title at hand exactly where it works on one, and a manifest
\* where it is about to serve it.
AtTitle ==
  \A s \in Scanners :
    /\ cur[s] = None <=> pc[s] \in {"idle", "next", "remove"}
    /\ pc[s] = "cache" => loaded[s] # None

DiskType ==
  /\ clock \in Clock
  /\ lib \in [Titles -> Tree \cup {None}]
  /\ aside \in [Titles -> Tree \cup {None}]
  /\ stage \in [Titles -> Tree \cup {None}]
TableType ==
  /\ row \in [Titles -> Row]
  /\ cache \in [Titles -> Manifest \cup {None}]
ScanType ==
  /\ pc \in [Scanners -> {"idle", "next", "previous", "walk", "hash", "publish",
                          "load", "cache", "remove", "uncache"}]
  /\ todo \in [Scanners -> SUBSET Titles] /\ seen \in [Scanners -> SUBSET Titles]
  /\ cur \in [Scanners -> Titles \cup {None}]
  /\ gone \in [Scanners -> SUBSET Titles]
TitleType ==
  /\ prev \in [Scanners -> Manifest \cup {None}]
  /\ walked \in [Scanners -> [Files -> Stat \cup {None}]]
  /\ built \in [Scanners -> Listing]
  /\ info \in [Scanners -> Infos \cup {None}]
  /\ loaded \in [Scanners -> Manifest \cup {None}]
WatchType ==
  /\ wpc \in Titles \cup {None}
  /\ observed \in [Titles -> Tree \cup {None}]
  /\ settled \subseteq Titles
HistType ==
  /\ served \in [Titles -> SUBSET Manifest]
  /\ dropped \subseteq Titles /\ overlap \in BOOLEAN

TypeOK ==
  DiskType /\ TableType /\ ScanType /\ TitleType /\ WatchType /\ HistType /\ AtTitle

\* An entry with a file's time and size has that file's data.
Vouches(e, x) ==
  e # None /\ x # None /\ e.mtime = x.mtime /\ e.size = x.size => e.data = x.data

\* The fast check never vouches for bytes that were not hashed: however scans,
\* edits, promotions and restarts interleave, an entry of the table or of a
\* served manifest that has the time and the size of the file on disk has its
\* data (scan_title, "size+mtime match -> reuse previous hashes").
FastCheckSound ==
  \A t \in Titles, f \in Files :
    lib[t] # None =>
      /\ Vouches(row[t].files[f], lib[t].files[f])
      /\ cache[t] # None => Vouches(cache[t].files[f], lib[t].files[f])

\* Some scan is between its update of the table and that of the cache.
Updating(t) ==
  \E s \in Scanners : cur[s] = t /\ pc[s] \in {"load", "cache", "uncache"}

\* As long as no two scans have overlapped, what is served is what the table
\* says is published, through removals, failed scans and restarts.
CacheFollowsTable ==
  ~overlap => \A t \in Titles : ~Updating(t) => cache[t] = Reloaded(row[t])

\* "Versions are immutable snapshots (F4.9)" as long as no two scans have
\* overlapped and the title was never marked removed: one version number never
\* stands for two manifests.
VersionsFixed ==
  ~overlap =>
    \A t \in Titles \ dropped :
      \A m, n \in served[t] : m.ver = n.ver => m = n

\* What the clients can rely on: a title that is served stays served, across
\* crashes between the commit of a version and its being served too, under
\* versions that go up one by one and never without the manifest, until it is
\* marked removed or scans overlap ("versions are immutable snapshots (F4.9)";
\* replace_manifest, cache_manifest, reload_manifest_cache).
Lost == IF overlap THEN Titles ELSE dropped
Server == INSTANCE TitleServer WITH
  offer   <- [t \in Titles |-> IF t \in Lost THEN None ELSE cache[t]],
  lost    <- Lost,
  Nothing <- None
OffersStand == Server!ServerSpec

Contents(files) == [f \in Files |-> IF files[f] = None THEN None ELSE files[f].data]

\* "Versions are immutable snapshots (F4.9)" for a library of which no folder
\* is ever taken away by the admin: updates through staging included.
VersionsImmutable ==
  \A t \in Titles : \A m, n \in served[t] :
    m.ver = n.ver => Contents(m.files) = Contents(n.files)

\* What is served is the folder: its files with their data, or nothing.
Described(t) ==
  IF lib[t] = None
    THEN cache[t] = None /\ row[t].state \in {"none", "removed"}
    ELSE /\ row[t].state = "published" /\ cache[t] = ManifestOf(row[t])
         /\ Contents(row[t].files) = Contents(lib[t].files)

Undisturbed == lib' = lib /\ ~Restart /\ \A s \in Scanners : ~TitleError(s)

\* Once folders stay as they are and can be read, scans end up serving exactly
\* what is there, whatever state the changes, panics and crashes before have
\* left behind (F2.5, F2.6).
Converges ==
  [](~overlap) /\ <>[][Undisturbed]_vars => <>[](\A t \in Titles : Described(t))

-----------------------------------------------------------------------------
(* The inductive strengthening. *)

\* Outside the scan of a title the scan's locals are blank.
Blank(s) ==
  prev[s] = None /\ walked[s] = Empty /\ built[s] = Empty
LocalsBlank ==
  \A s \in Scanners :
    /\ pc[s] \in {"idle", "next", "previous", "remove", "uncache"} => Blank(s)
    /\ pc[s] # "cache" => loaded[s] = None

\* Every entry someone holds for a file of a title.
Known(t, f) ==
  {row[t].files[f], OldEntries(cache[t])[f]}
    \cup UNION {{OldEntries(prev[s])[f], OldEntries(loaded[s])[f], built[s][f]} :
                  s \in {r \in Scanners : cur[r] = t}}

FileIn(tree, f) == IF tree = None THEN None ELSE tree.files[f]

\* The times of entries and files lie in the past.
Past(e) == e # None => e.mtime <= clock
PastOnly ==
  \A t \in Titles, f \in Files :
    /\ Past(FileIn(lib[t], f)) /\ Past(FileIn(stage[t], f))
    /\ Past(FileIn(aside[t], f))
    /\ \A e \in Known(t, f) : Past(e)
    /\ \A s \in Scanners : Past(walked[s][f])

\* The old folder may come back from aside only while the watcher is at it, and
\* then the library has none.
Returning(t) == IF wpc = t THEN aside[t] ELSE None
AsideAlone == \A t \in Titles : wpc = t => lib[t] = None

\* Nobody has seen a staged file yet.
Apart(e, x) == e # None /\ x # None => e.mtime # x.mtime
StagedUnseen ==
  \A t \in Titles, f \in Files :
    LET x == FileIn(stage[t], f) IN
    /\ Apart(FileIn(lib[t], f), x) /\ Apart(FileIn(Returning(t), f), x)
    /\ \A e \in Known(t, f) : Apart(e, x)
    /\ \A s \in Scanners : cur[s] = t => Apart(walked[s][f], x)

\* Every entry vouches for the file in the library and for the one that may
\* come back.
KnownSound ==
  \A t \in Titles, f \in Files : \A e \in Known(t, f) :
    Vouches(e, FileIn(lib[t], f)) /\ Vouches(e, FileIn(Returning(t), f))

FastInv == LocalsBlank /\ PastOnly /\ AsideAlone /\ StagedUnseen /\ KnownSound

\* Without overlap there is one scan, and its locals agree with the table.
OneScan ==
  ~overlap => \A r, s \in Scanners : pc[r] # "idle" /\ pc[s] # "idle" => r = s

PublishedHasVersion == \A t \in Titles : row[t].state = "published" => row[t].ver > 0

LocalsFollowTable ==
  ~overlap => \A s \in Scanners :
    LET r == row[cur[s]] IN
    /\ pc[s] \in {"previous", "load", "cache"} => r.state = "published"
    /\ pc[s] \in {"walk", "hash", "publish"} =>
         prev[s] = Reloaded(r) /\ r.state # "none"
    /\ pc[s] = "cache" => loaded[s] = ManifestOf(r)
    /\ pc[s] = "uncache" => r.state = "removed"

\* The table is ahead of everything served, or is what was served last.
ServedBehind ==
  ~overlap => \A t \in Titles \ dropped :
    /\ row[t].state # "removed"
    /\ row[t].state \in {"none", "scanning"} => served[t] = {}
    /\ \A m \in served[t] :
         m.ver <= row[t].ver /\ (m.ver = row[t].ver => m = ManifestOf(row[t]))

TableInv ==
  /\ OneScan /\ PublishedHasVersion /\ LocalsFollowTable
  /\ CacheFollowsTable /\ ServedBehind /\ VersionsFixed

\* A version that is in the table and not served yet is the next one.
NextAwaited ==
  ~overlap => \A s \in Scanners :
    pc[s] \in {"load", "cache"} =>
      row[cur[s]].ver = Server!VersionOf(cache[cur[s]]) + 1

IndInv == TypeOK /\ FastInv /\ TableInv /\ NextAwaited

=============================================================================
