------------------------------ MODULE Download ------------------------------
(***************************************************************************)
(* The download engine of the desktop client (downloads.rs) together with  *)
(* the commands that touch the same state (commands.rs), the resume rows   *)
(* of the client database (db.rs) and the chunk writer (transfer.rs).      *)
(*                                                                         *)
(* One worker runs one job at a time.  A job fetches the missing chunks of *)
(* a batch group by group; the write of a group runs on a blocking thread  *)
(* while the next group is fetched, and a write that is interrupted by     *)
(* Pause or Cancel is left to finish on its own (a detached task).         *)
(*                                                                         *)
(* A chunk is named by the place it has on disk, a position: a file and an *)
(* offset.  The content of a position is the number of the version whose   *)
(* verified bytes were last written there, or Hole.  The destination       *)
(* folder is one per title.  The order of the queue is the subject of      *)
(* DownloadQueue; here the queue is the set of waiting jobs.               *)
(***************************************************************************)
EXTENDS Integers, FiniteSets

CONSTANTS
  Titles,        \* the titles of the library
  MaxVer,        \* bound: the server publishes versions 1..MaxVer of a title
  Positions,     \* chunk positions, numbered in manifest order
  Files,         \* the files of a title
  FileOf,        \* the file a position belongs to
  Layout,        \* the positions that make up a version
  BatchSize,     \* chunks scheduled per pass (64 in the code)
  GroupSize,     \* FETCH_CONCURRENCY (4 in the code)
  PersistEvery,  \* PERSIST_EVERY (32 in the code)
  MaxTries,      \* failed validations before a job gives up (3 in the code)
  Deletable,     \* titles the user may delete in this instance
  MaxDetached,   \* bound: write tasks left running in the background
  MaxRepairs,    \* bound: repair commands in flight
  NoTask         \* no write task in flight

Vers == 1..MaxVer
Hole == 0

ASSUME ConstantsAssumption ==
  /\ MaxVer \in Nat \ {0}
  /\ Positions \subseteq Nat
  /\ IsFiniteSet(Positions)
  /\ FileOf \in [Positions -> Files]
  /\ Layout \in [Vers -> SUBSET Positions]
  /\ BatchSize \in Nat \ {0} /\ GroupSize \in Nat \ {0}
  /\ PersistEvery \in Nat \ {0} /\ MaxTries \in Nat \ {0}
  /\ MaxDetached \in Nat /\ MaxRepairs \in Nat
  /\ Deletable \subseteq Titles

\* A version fills each of its files from the start.
ASSUME LayoutAssumption ==
  \A v \in Vers : \A p \in Layout[v] : \A q \in Positions :
    q < p /\ FileOf[q] = FileOf[p] => q \in Layout[v]

Job == [title : Titles, ver : Vers]

\* The pooled handle of a file: not open, open, or open on a removed file.
Handle == {"closed", "open", "unlinked"}
AllClosed == [f \in Files |-> "closed"]

\* A group handed to a blocking thread: what is left to write, which of it
\* carries the right bytes, what was written, and the handles.
Task == [title : Titles, ver : Vers, todo : SUBSET Positions,
         good : SUBSET Positions, ok : SUBSET Positions,
         fd : [Files -> Handle]]

ASSUME NoTaskAssumption == NoTask \notin Task

\* Of the statuses a row can show, the code only ever tells "complete" from
\* the others (fetch_titles, announce_seeds): those are "partial" here.
Status == {"none", "partial", "complete"}
KindUnlessActive(status) == IF status = "active" THEN "partial" ELSE "complete"
Kind(status) == IF status = "complete" THEN "complete" ELSE "partial"
Row == [status : Status, have : SUBSET Positions]
NoRow == [status |-> "none", have |-> {}]
Repair == [title : Titles, ver : Vers, good : SUBSET Positions]

Pcs == {"off", "pop", "manifest", "load", "activate", "top", "validate",
        "fetch", "collect", "drain", "endbatch", "fail", "done", "stop"}

\* The places where the worker holds a bitmap it has loaded for its job.
Loaded == {"activate", "top", "validate", "fetch", "collect", "drain",
           "endbatch"}

VARIABLES
  published,   \* the version of each title the server offers
  queue,       \* jobs waiting
  pc,          \* where the worker is; "off" when no worker runs
  job,         \* the job the worker popped last
  active,      \* the manager's active slot holds that job
  paused,      \* the flags of the active slot
  cancelled,
  bitmap,      \* chunks the job believes it has
  batch,       \* chunks of this pass still to fetch
  wjobs,       \* chunks of the last group that arrived: right and wrong bytes
  pending,     \* the write task of the previous group
  writer,      \* the pooled handles while no task holds them
  since,       \* since_persist
  anyOk,       \* any_ok
  tries,       \* validate_tries
  row,         \* download_state, per title and version
  disk,        \* content of each position of each title's folder
  located,     \* titles with a row in title_locations
  detached,    \* write tasks that outlived their job
  deleting,    \* delete_game between removing the files and the rows
  repairs,     \* repair_title between reading the files and saving the row
  stray        \* history: titles whose files were changed under a running
               \* operation, by delete_game or by a late detached write

jobVars   == <<bitmap, batch, wjobs, pending, writer, since, anyOk, tries>>
flagVars  == <<active, paused, cancelled>>
storeVars == <<row, disk, located, stray>>
otherVars == <<detached, deleting, repairs>>
vars == <<published, queue, pc, job, flagVars, jobVars, storeVars, otherVars>>

-----------------------------------------------------------------------------
(* The folder of a title. *)

DirExists(t) == \E p \in Positions : disk[t][p] # Hole

FilesOf(v) == {FileOf[p] : p \in Layout[v]}

\* The n first members of a set of positions.
FirstButOne(S, n) == {p \in S : Cardinality({q \in S : q < p}) < n - 1}
FirstN(S, n) == {p \in S : Cardinality({q \in S : q < p}) < n}

\* finalize_layout: what lies past the end of a file of the version is cut off.
Finalized(d, v) ==
  [p \in Positions |->
     IF p \notin Layout[v] /\ FileOf[p] \in FilesOf(v) THEN Hole ELSE d[p]]

\* validate_quick looks at sizes only: after finalize_layout a file has the
\* right size when something is written at or past its last position.
FileOk(d, v, f) ==
  \E p \in Positions :
    /\ FileOf[p] = f /\ d[p] # Hole
    /\ \A q \in Layout[v] : FileOf[q] = f => q <= p

FailedFiles(d, v) == {f \in FilesOf(v) : ~FileOk(d, v, f)}

-----------------------------------------------------------------------------
(* The write of one chunk: verify, get the handle, write at the offset. *)

MayWrite(task, p, okay) ==
  /\ p \in task.todo
  /\ \A q \in task.todo : p <= q
  /\ okay => p \in task.good

Opened(fd, f) == IF fd[f] = "closed" THEN [fd EXCEPT ![f] = "open"] ELSE fd

TaskAfterAnyWrite(task, p, okay) ==
  [task EXCEPT !.todo = @ \ {p}, !.ok = @ \cup {p},
               !.fd   = IF okay THEN Opened(@, FileOf[p]) ELSE @]
TaskAfter(task, p, okay) ==
  [task EXCEPT !.todo = @ \ {p},
               !.ok   = IF okay THEN @ \cup {p} ELSE @,
               !.fd   = IF okay THEN Opened(@, FileOf[p]) ELSE @]

\* Bytes written through a handle whose file was removed go nowhere.
Lands(task, p, okay) == okay /\ task.fd[FileOf[p]] # "unlinked"

DiskAfter(task, p, okay) ==
  IF Lands(task, p, okay) THEN [disk EXCEPT ![task.title][p] = task.ver]
                          ELSE disk

Unlinked(fd, F) ==
  [f \in Files |-> IF f \in F /\ fd[f] = "open" THEN "unlinked" ELSE fd[f]]

-----------------------------------------------------------------------------
(* Queue and rows. *)

\* enqueue + pump: a job already queued or active is not queued again.
EnqueueJob(j) ==
  IF j \in queue \/ (active /\ job = j)
    THEN UNCHANGED <<queue, pc>>
    ELSE /\ queue' = queue \cup {j}
         /\ pc' = IF pc = "off" THEN "pop" ELSE pc

SaveRow(t, v, status, have) ==
  row' = [row EXCEPT ![t][v] = [status |-> Kind(status), have |-> have]]

Persist(status, have) == SaveRow(job.title, job.ver, status, have)

NoRowsOf(t) == [row EXCEPT ![t] = [v \in Vers |-> NoRow]]

\* Some operation holds on to what it read of the title's files or rows.
InFlight(t) ==
  \/ pc \in Loaded /\ job.title = t
  \/ \E d \in detached : d.title = t
  \/ \E r \in repairs : r.title = t

-----------------------------------------------------------------------------
(* The server and the user. *)

\* External: the server publishes the next version of a title.
Publish(t) ==
  /\ published[t] < MaxVer
  /\ published' = [published EXCEPT ![t] = @ + 1]
  /\ UNCHANGED <<queue, pc, job, flagVars, jobVars, storeVars, otherVars>>

\* External: the user removes a game folder while the client is not using it.
FolderRemoved(t) ==
  /\ pc = "off" /\ queue = {} /\ detached = {} /\ repairs = {} /\ deleting = {}
  /\ disk' = [disk EXCEPT ![t] = [p \in Positions |-> Hole]]
  /\ UNCHANGED <<published, queue, pc, job, flagVars, jobVars, row, located,
                 stray, otherVars>>

\* The version is the one the list shown to the user carried.
BeginDownload(t, v) ==
  /\ v <= published[t]
  /\ row' = IF DirExists(t) THEN row ELSE NoRowsOf(t)
  /\ located' = located \cup {t}
  /\ EnqueueJob([title |-> t, ver |-> v])
  /\ UNCHANGED <<published, job, flagVars, jobVars, disk, stray, otherVars>>

ResumeDownload(t, v) ==
  /\ row[t][v] # NoRow
  /\ EnqueueJob([title |-> t, ver |-> v])
  /\ UNCHANGED <<published, job, flagVars, jobVars, storeVars, otherVars>>

PauseDownload(t) ==
  /\ active /\ job.title = t
  /\ paused' = TRUE
  /\ UNCHANGED <<published, queue, pc, job, active, cancelled, jobVars,
                 storeVars, otherVars>>

Cancel(t) ==
  /\ queue' = {j \in queue : j.title # t}
  /\ cancelled' = (cancelled \/ (active /\ job.title = t))

CancelDownload(t) ==
  /\ Cancel(t)
  /\ UNCHANGED <<published, pc, job, active, paused, jobVars, storeVars,
                 otherVars>>

\* remove_dir_all(dest) removed the files F.  A handle open on a removed file
\* goes on writing to it, unseen.
RemoveFiles(t, F) ==
  LET gone == IF t \in located THEN F ELSE {} IN
  /\ disk' = [disk EXCEPT ![t] =
                [p \in Positions |->
                   IF FileOf[p] \in gone THEN Hole ELSE disk[t][p]]]
  /\ detached' = {IF d.title = t THEN [d EXCEPT !.fd = Unlinked(@, gone)]
                                 ELSE d : d \in detached}
  /\ IF job.title = t
       THEN /\ writer' = Unlinked(writer, gone)
            /\ pending' = IF pending = NoTask THEN NoTask
                          ELSE [pending EXCEPT !.fd = Unlinked(@, gone)]
       ELSE UNCHANGED <<writer, pending>>
  /\ stray' = IF gone # {} /\ (F # Files \/ InFlight(t))
                THEN stray \cup {t} ELSE stray

\* delete_game up to remove_dir_all, which removes everything, or fails
\* halfway (then the rows stay).
DeleteFiles(t) ==
  /\ t \in Deletable \ deleting
  /\ Cancel(t)
  /\ \E F \in SUBSET Files :
       /\ t \notin located => F = Files
       /\ deleting' = IF F = Files THEN deleting \cup {t} ELSE deleting
       /\ RemoveFiles(t, F)
  /\ UNCHANGED <<published, pc, job, active, paused, bitmap, batch, wjobs,
                 since, anyOk, tries, row, located, repairs>>

\* The rest of delete_game: forget the rows and the location.
DeleteRows(t) ==
  /\ t \in deleting
  /\ row' = NoRowsOf(t)
  /\ located' = located \ {t}
  /\ deleting' = deleting \ {t}
  /\ UNCHANGED <<published, queue, pc, job, flagVars, jobVars, disk, stray,
                 detached, repairs>>

\* repair_title: read the manifest and find the bad chunks on disk ...
RepairScan(t) ==
  LET v == published[t] IN
  /\ Cardinality(repairs) < MaxRepairs
  /\ row[t][v] # NoRow
  /\ repairs' = repairs \cup
       {[title |-> t, ver |-> v, good |-> {p \in Layout[v] : disk[t][p] = v}]}
  /\ UNCHANGED <<published, queue, pc, job, flagVars, jobVars, storeVars,
                 detached, deleting>>

\* ... then rewrite the row and, when something was bad, resume.
RepairSave(r) ==
  /\ repairs' = repairs \ {r}
  /\ SaveRow(r.title, r.ver, "paused", r.good)
  /\ IF r.good = Layout[r.ver]
       THEN UNCHANGED <<queue, pc>>
       ELSE EnqueueJob([title |-> r.title, ver |-> r.ver])
  /\ UNCHANGED <<published, job, flagVars, jobVars, disk, located, stray,
                 detached, deleting>>

-----------------------------------------------------------------------------
(* The worker: pump's loop and run_job. *)

PopJob ==
  /\ pc = "pop"
  /\ \/ /\ queue = {}
        /\ pc' = "stop"
        /\ UNCHANGED <<queue, job>>
     \/ \E j \in queue :
          /\ job' = j
          /\ queue' = queue \ {j}
          /\ pc' = "manifest"
  /\ UNCHANGED <<published, flagVars, jobVars, storeVars, otherVars>>

StopWorker ==
  /\ pc = "stop"
  /\ pc' = "off"
  /\ UNCHANGED <<published, queue, job, flagVars, jobVars, storeVars, otherVars>>

\* The manifest endpoint serves the current version; any other is refused, and
\* the request may fail.
ServedOrOlder(j) == j.ver <= published[j.title]
Served(j) == j.ver = published[j.title]

FetchManifest ==
  /\ pc = "manifest"
  /\ \/ Served(job) /\ pc' = "load"
     \/ pc' = "fail"
  /\ UNCHANGED <<published, queue, job, flagVars, jobVars, storeVars, otherVars>>

\* A row counts only while the folder is there.
ResumableAnyway(t, v) == row[t][v] # NoRow
Resumable(t, v) == row[t][v] # NoRow /\ DirExists(t)

LoadBitmap ==
  /\ pc = "load"
  /\ bitmap' = IF Resumable(job.title, job.ver)
                 THEN row[job.title][job.ver].have ELSE {}
  /\ pc' = "activate"
  /\ UNCHANGED <<published, queue, job, flagVars, batch, wjobs, pending, writer,
                 since, anyOk, tries, storeVars, otherVars>>

Activate ==
  /\ pc = "activate"
  /\ active' = TRUE /\ paused' = FALSE /\ cancelled' = FALSE
  /\ Persist("active", bitmap)
  /\ writer' = AllClosed
  /\ since' = 0 /\ tries' = 0
  /\ pc' = "top"
  /\ UNCHANGED <<published, queue, job, bitmap, batch, wjobs, pending, anyOk,
                 disk, located, stray, otherVars>>

Flagged == paused \/ cancelled

\* The top of the loop: leave when asked to, else schedule the next batch.
LoopTop ==
  /\ pc = "top"
  /\ LET missing == Layout[job.ver] \ bitmap IN
     \/ /\ Flagged
        /\ Persist("paused", bitmap)
        /\ pc' = "done"
        /\ UNCHANGED <<batch, anyOk>>
     \/ /\ ~Flagged
        /\ batch' = FirstN(missing, BatchSize)
        /\ anyOk' = FALSE
        /\ pc' = IF missing = {} THEN "validate" ELSE "fetch"
        /\ UNCHANGED row
  /\ UNCHANGED <<published, queue, job, flagVars, bitmap, wjobs, pending,
                 writer, since, tries, disk, located, stray, otherVars>>

GivesUpLate(n) == n > MaxTries
GivesUp(n) == n >= MaxTries

\* Everything is there per the bitmap: close, finalize, look at the sizes.
\* Files that fail lose their bits and are fetched again, MaxTries times.
Validate ==
  LET d      == Finalized(disk[job.title], job.ver)
      failed == FailedFiles(d, job.ver)
      left   == {p \in bitmap : FileOf[p] \notin failed}
  IN
  /\ pc = "validate"
  /\ writer' = AllClosed
  /\ \/ /\ disk' = [disk EXCEPT ![job.title] = d]
        /\ IF failed = {}
             THEN /\ Persist("complete", bitmap)
                  /\ pc' = "done"
                  /\ UNCHANGED <<bitmap, tries>>
             ELSE /\ bitmap' = left
                  /\ tries' = tries + 1
                  /\ IF GivesUp(tries + 1)
                       THEN Persist("error", left) /\ pc' = "fail"
                       ELSE Persist("active", left) /\ pc' = "top"
     \/ \* finalize_layout failed
        /\ pc' = "fail"
        /\ UNCHANGED <<disk, row, bitmap, tries>>
  /\ UNCHANGED <<published, queue, job, flagVars, batch, wjobs, pending, since,
                 anyOk, located, stray, otherVars>>

\* A group is fetched: each chunk arrives with the right bytes, with wrong
\* ones, or not at all.
FetchGroup ==
  LET group == FirstN(batch, GroupSize) IN
  /\ pc = "fetch"
  /\ \E good \in SUBSET group : \E bad \in SUBSET (group \ good) :
       wjobs' = [good |-> good, bad |-> bad]
  /\ batch' = batch \ group
  /\ pc' = "collect"
  /\ UNCHANGED <<published, queue, job, flagVars, bitmap, pending, writer, since,
                 anyOk, tries, storeVars, otherVars>>

PendingDone == pending # NoTask => pending.todo = {}

\* The chunks whose write was good.
WrittenOrNot == IF pending = NoTask THEN {} ELSE pending.ok \cup pending.good
Written == IF pending = NoTask THEN {} ELSE pending.ok

\* account_write for every chunk of the finished task; the writer comes back.
Account(next) ==
  LET ok == Written
      fd == IF pending = NoTask THEN writer ELSE pending.fd
      todo == next.good \cup next.bad
  IN
  /\ bitmap' = bitmap \cup ok
  /\ since' = since + Cardinality(ok)
  /\ anyOk' = (anyOk \/ ok # {})
  /\ writer' = IF todo = {} THEN fd ELSE AllClosed
  /\ pending' = IF todo = {} THEN NoTask
                ELSE [title |-> job.title, ver |-> job.ver, todo |-> todo,
                      good |-> next.good, ok |-> {}, fd |-> fd]

NoJobs == [good |-> {}, bad |-> {}]

\* The previous group's write is collected and this group's is handed over.
Collect ==
  /\ pc = "collect"
  /\ PendingDone
  /\ Account(wjobs)
  /\ wjobs' = NoJobs
  /\ pc' = IF batch = {} THEN "drain" ELSE "fetch"
  /\ UNCHANGED <<published, queue, job, flagVars, batch, tries, storeVars,
                 otherVars>>

Drain ==
  /\ pc = "drain"
  /\ PendingDone
  /\ Account(NoJobs)
  /\ pc' = "endbatch"
  /\ UNCHANGED <<published, queue, job, flagVars, batch, wjobs, tries,
                 storeVars, otherVars>>

\* The waits that until_interrupted wraps: the fetch of a group, and a write.
WaitsOnWrite == pc \in {"collect", "drain"} /\ pending # NoTask
Waits == pc = "fetch" \/ WaitsOnWrite

\* until_interrupted gave up: the task in flight is dropped and runs on.
Interrupted ==
  /\ Flagged /\ Waits
  /\ IF PendingDone THEN UNCHANGED detached
     ELSE /\ Cardinality(detached) < MaxDetached
          /\ detached' = detached \cup {pending}
  /\ Persist("active", bitmap)
  /\ pending' = NoTask /\ wjobs' = NoJobs /\ batch' = {}
  /\ pc' = "top"
  /\ UNCHANGED <<published, queue, job, flagVars, bitmap, writer, since, anyOk,
                 tries, disk, located, stray, deleting, repairs>>

Unpersisted(n) == IF n >= PersistEvery THEN 0 ELSE n

\* The end of a pass: persist every PersistEvery chunks, and before a backoff.
EndBatch ==
  /\ pc = "endbatch"
  /\ IF since >= PersistEvery \/ ~anyOk
       THEN Persist("active", bitmap) ELSE UNCHANGED row
  /\ since' = Unpersisted(since)
  /\ pc' = "top"
  /\ UNCHANGED <<published, queue, job, flagVars, bitmap, batch, wjobs, pending,
                 writer, anyOk, tries, disk, located, stray, otherVars>>

\* run_job returned an error: the row, if there is one, shows it.
JobFailed ==
  /\ pc = "fail"
  /\ LET r == row[job.title][job.ver] IN
     IF r = NoRow THEN UNCHANGED row ELSE Persist("error", r.have)
  /\ pc' = "done"
  /\ UNCHANGED <<published, queue, job, flagVars, jobVars, disk, located, stray,
                 otherVars>>

\* The active slot is cleared and the worker's locals are gone.
JobDone ==
  /\ pc = "done"
  /\ active' = FALSE /\ paused' = FALSE /\ cancelled' = FALSE
  /\ bitmap' = {} /\ batch' = {} /\ since' = 0 /\ anyOk' = FALSE /\ tries' = 0
  /\ writer' = AllClosed
  /\ pc' = "pop"
  /\ UNCHANGED <<published, queue, job, wjobs, pending, storeVars, otherVars>>

-----------------------------------------------------------------------------
(* The blocking threads. *)

WriteChunk ==
  /\ pending # NoTask
  /\ \E p \in Positions, okay \in BOOLEAN :
       /\ MayWrite(pending, p, okay)
       /\ pending' = TaskAfter(pending, p, okay)
       /\ disk' = DiskAfter(pending, p, okay)
  /\ UNCHANGED <<published, queue, pc, job, flagVars, bitmap, batch, wjobs,
                 writer, since, anyOk, tries, row, located, stray, otherVars>>

\* A detached task writes on; overwriting a newer version is recorded.
DetachedWrite(d) ==
  /\ \E p \in Positions, okay \in BOOLEAN :
       LET e == TaskAfter(d, p, okay) IN
       /\ MayWrite(d, p, okay)
       /\ detached' = (detached \ {d}) \cup (IF e.todo = {} THEN {} ELSE {e})
       /\ disk' = DiskAfter(d, p, okay)
       /\ stray' = IF Lands(d, p, okay) /\ disk[d.title][p] > d.ver
                     THEN stray \cup {d.title} ELSE stray
  /\ UNCHANGED <<published, queue, pc, job, flagVars, jobVars, row, located,
                 deleting, repairs>>

\* The process dies: memory and threads are gone, files and rows stay.
Crash ==
  /\ queue' = {} /\ pc' = "off"
  /\ active' = FALSE /\ paused' = FALSE /\ cancelled' = FALSE
  /\ bitmap' = {} /\ batch' = {} /\ wjobs' = NoJobs /\ pending' = NoTask
  /\ writer' = AllClosed /\ since' = 0 /\ anyOk' = FALSE /\ tries' = 0
  /\ detached' = {} /\ deleting' = {} /\ repairs' = {}
  /\ UNCHANGED <<published, job, storeVars>>

-----------------------------------------------------------------------------
Init ==
  /\ published = [t \in Titles |-> 1]
  /\ queue = {} /\ pc = "off"
  /\ job \in Job
  /\ active = FALSE /\ paused = FALSE /\ cancelled = FALSE
  /\ bitmap = {} /\ batch = {} /\ wjobs = NoJobs /\ pending = NoTask
  /\ writer = AllClosed /\ since = 0 /\ anyOk = FALSE /\ tries = 0
  /\ row = [t \in Titles |-> [v \in Vers |-> NoRow]]
  /\ disk = [t \in Titles |-> [p \in Positions |-> Hole]]
  /\ located = {} /\ stray = {}
  /\ detached = {} /\ deleting = {} /\ repairs = {}

User ==
  \E t \in Titles :
    \/ Publish(t) \/ FolderRemoved(t)
    \/ PauseDownload(t) \/ CancelDownload(t)
    \/ DeleteFiles(t) \/ DeleteRows(t) \/ RepairScan(t)
    \/ \E v \in Vers : BeginDownload(t, v) \/ ResumeDownload(t, v)

Worker ==
  \/ PopJob \/ StopWorker \/ FetchManifest \/ LoadBitmap \/ Activate
  \/ LoopTop \/ Validate \/ FetchGroup \/ Collect \/ Drain \/ Interrupted
  \/ EndBatch \/ JobFailed \/ JobDone

Next ==
  \/ User \/ Worker \/ WriteChunk
  \/ \E d \in detached : DetachedWrite(d)
  \/ \E r \in repairs : RepairSave(r)
  \/ Crash

Spec == Init /\ [][Next]_vars

\* Nothing that waits for the network or for a user is fair.  The worker's own
\* steps are: the timer inside until_interrupted fires whatever it wraps, and a
\* blocking write returns.
FairSpec ==
  /\ Spec
  /\ WF_vars(PopJob \/ StopWorker \/ LoadBitmap \/ Activate \/ LoopTop)
  /\ WF_vars(Validate) /\ WF_vars(Collect \/ Drain) /\ WF_vars(Interrupted)
  /\ WF_vars(EndBatch \/ JobFailed \/ JobDone)
  /\ WF_vars(\E d \in detached : DetachedWrite(d))

-----------------------------------------------------------------------------
TypeOK ==
  /\ published \in [Titles -> Vers]
  /\ queue \subseteq Job
  /\ pc \in Pcs
  /\ job \in Job
  /\ active \in BOOLEAN /\ paused \in BOOLEAN /\ cancelled \in BOOLEAN
  /\ bitmap \subseteq Positions /\ batch \subseteq Positions
  /\ wjobs \in [good : SUBSET Positions, bad : SUBSET Positions]
  /\ pending \in Task \cup {NoTask}
  /\ writer \in [Files -> Handle]
  /\ since \in Nat /\ anyOk \in BOOLEAN /\ tries \in 0..MaxTries
  /\ row \in [Titles -> [Vers -> Row]]
  /\ disk \in [Titles -> [Positions -> Vers \cup {Hole}]]
  /\ located \subseteq Titles /\ stray \subseteq Titles
  /\ detached \subseteq Task
  /\ deleting \subseteq Titles
  /\ repairs \subseteq Repair

\* What the bits of a version claim: its bytes are at those positions.
Backed(t, v, S) == \A p \in S : disk[t][p] = v

\* A job's bitmap never runs ahead of the disk, through groups in flight,
\* failed validations, pauses and crashes: each bit the running job holds is
\* backed by verified bytes (account_write after write_group).
RunSound ==
  pc \in Loaded /\ job.title \notin stray
    => Backed(job.title, job.ver, bitmap)

\* What a later session resumes from is sound: for the version the server
\* offers, every bit of the persisted row is backed, or the folder is gone and
\* run_job will not use the row.
ResumeSound ==
  \A t \in Titles \ stray :
    DirExists(t) => Backed(t, published[t], row[t][published[t]].have)

\* A game shown as complete on the current version has every chunk of that
\* version on disk, although the last check before it looks at sizes only.
CompleteIsWhole ==
  \A t \in Titles \ stray :
    row[t][published[t]].status = "complete" /\ DirExists(t)
      => Backed(t, published[t], Layout[published[t]])

\* What is promised without exception: "always complete against the version
\* they started on" (downloads.rs), "stop any in-flight download first"
\* (delete_game).  A write task that outlives its job breaks both.
CompleteAgainstVersion ==
  \A t \in Titles :
    row[t][published[t]].status = "complete" /\ DirExists(t)
      => Backed(t, published[t], Layout[published[t]])

\* Pause and Cancel end the active job even while a fetch or a write hangs
\* (until_interrupted).
PauseTakesEffect ==
  \A t \in Titles : (active /\ Flagged /\ job.title = t) ~> ~active

\* A network and a disk that work now and then, however often they fail.
FetchAllGood == FetchGroup /\ wjobs'.good = FirstN(batch, GroupSize)
WriteOk == WriteChunk /\ pending'.ok # pending.ok
WorksNowAndThen ==
  /\ WF_vars(FetchManifest) /\ WF_vars(FetchGroup) /\ WF_vars(WriteChunk)
  /\ SF_vars(FetchAllGood) /\ SF_vars(WriteOk)

\* A job that has started ends, given a network and a disk that work now and
\* then: retries, failed validations and lost writes never keep it in the loop
\* for good ("the download survives", F4.7).
StartedJobEnds ==
  WorksNowAndThen => ((pc = "top") ~> (pc \in {"done", "off"}))

-----------------------------------------------------------------------------
(* The inductive strengthening of RunSound, ResumeSound, CompleteIsWhole. *)

\* The worker is past the check of the manifest's version.
Pinned == {"load"} \cup Loaded

\* The worker may have a writer.
Writing == Loaded \ {"activate"}

\* A task in flight belongs to the job and is confined to its version.
TaskShape ==
  pending # NoTask =>
    /\ pc \in {"fetch", "collect", "drain"}
    /\ pending.title = job.title /\ pending.ver = job.ver
    /\ pending.todo \cup pending.ok \subseteq Layout[job.ver]

\* What is known of the worker's locals at each place of the loop.
LoopShape ==
  /\ pc \in Loaded => bitmap \subseteq Layout[job.ver]
  /\ pc = "validate" => bitmap = Layout[job.ver]
  /\ pc \in {"fetch", "collect"} => batch \subseteq Layout[job.ver]
  /\ pc = "collect" => wjobs.good \cup wjobs.bad \subseteq Layout[job.ver]
  /\ pc \in Writing => tries < MaxTries

RowShape ==
  \A t \in Titles, v \in Vers :
    /\ row[t][v].have \subseteq Layout[v]
    /\ row[t][v].status = "complete" => row[t][v].have = Layout[v]

RepairShape == \A r \in repairs : r.good \subseteq Layout[r.ver]

Shape == TaskShape /\ LoopShape /\ RowShape /\ RepairShape

\* Nothing is of a later version than the server offers, and nothing that
\* concerns the title of a pinned job is of a later version than the job's.
VersionsBounded(t, v) ==
  /\ \A u \in Vers : u > v => row[t][u] = NoRow
  /\ \A p \in Positions : disk[t][p] <= v
  /\ \A d \in detached : d.title = t => d.ver <= v
  /\ \A r \in repairs : r.title = t => r.ver <= v

Versions ==
  /\ \A t \in Titles : VersionsBounded(t, published[t])
  /\ pc \in Pinned => /\ job.ver <= published[job.title]
                      /\ VersionsBounded(job.title, job.ver)

\* A handle is open on a removed file only where delete_game came in between.
NoneUnlinked(fd) == \A f \in Files : fd[f] # "unlinked"
Handles ==
  /\ pc \in Writing /\ job.title \notin stray =>
       NoneUnlinked(writer) /\ (pending # NoTask => NoneUnlinked(pending.fd))
  /\ \A d \in detached : d.title \notin stray => NoneUnlinked(d.fd)

\* No one is about to write into the folder of the title.
Quiet(t) ==
  /\ \A d \in detached : d.title # t
  /\ pc \in Writing => job.title # t

\* The versions whose bytes must be right: the one the server offers and the
\* one the worker is on, which may be older.
Current(t) ==
  {published[t]} \cup (IF pc \in Pinned /\ job.title = t THEN {job.ver} ELSE {})

\* What was written, what repair found good and what the rows say is backed.
TaskBacked ==
  pending # NoTask /\ job.title \notin stray
    => Backed(job.title, job.ver, pending.ok)

RepairsBacked ==
  \A r \in repairs :
    r.title \notin stray /\ r.ver \in Current(r.title)
      => Backed(r.title, r.ver, r.good)

RowsBacked ==
  \A t \in Titles \ stray : \A v \in Current(t) :
    \/ Backed(t, v, row[t][v].have)
    \/ ~DirExists(t) /\ Quiet(t)

AllBacked == RunSound /\ TaskBacked /\ RepairsBacked /\ RowsBacked

\* The invariant that every step of the client preserves by itself.
IndInv == TypeOK /\ Shape /\ Versions /\ Handles /\ AllBacked

-----------------------------------------------------------------------------
\* The server that Download assumes offers manifests of which only the version
\* matters here, each title from its first version on, and gives up none.
Server == INSTANCE TitleServer WITH
            offer <- [t \in Titles |-> [ver |-> published[t]]], lost <- {},
            Nothing <- [ver |-> Hole]

=============================================================================
