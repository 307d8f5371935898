------------------------------- MODULE Shares -------------------------------
(***************************************************************************)
(* The share pool (crates/server/src/share.rs): uploads that write files   *)
(* and then a row, deletions that remove the files and then the row, the   *)
(* orphan sweep (tasks.rs), a restart at any point, and the desktop        *)
(* client's download of a share, which takes the list of files first and   *)
(* then asks for them one by one (commands.rs).                            *)
(*                                                                         *)
(* kinds[s]     what is on the share drive under the name s                *)
(* files[s][p]  part p of that entry: whose bytes, and whether all of them *)
(* fresh        the entries touched in the last ORPHAN_MIN_AGE_SECS        *)
(* rows         the table shares, by row id                                *)
(* up[u]        the upload request u     del[d]  the delete request d      *)
(* sweep        the sweeper, the names it takes for valid, and those it    *)
(*              has tried to remove in vain                                *)
(* fetch[f]     the downloads of a client into one place, one at a time:   *)
(*              a folder that the user chose, and the display name         *)
(* exposed      history: names whose entry may be touched by another than  *)
(*              its owner, an upload or a row. Four things expose a name:  *)
(*              an upload takes it while it is in use; an upload that runs *)
(*              leaves its time stamp for too long; a sweep cannot read    *)
(*              the rows; a deletion comes to it when its row is gone      *)
(*                                                                         *)
(* A name is a base name and the number that resolve_collision appends;    *)
(* number 1 stands for none. The files of a folder are numbered parts; a   *)
(* single-file share is its own part 1.                                    *)
(***************************************************************************)
EXTENDS Integers, FiniteSets, FiniteSetsExt, Functions

CONSTANTS
  Uploads,    \* upload requests, each one for good
  Deletes,    \* handlers of delete requests
  Fetches,    \* downloads of the desktop clients
  Names,      \* base names after sanitisation
  MaxCopies,  \* bound on the number resolve_collision appends
  Parts,      \* bound on the file parts of an upload
  Null

VARIABLES kinds, files, fresh, rows, up, del, sweep, fetch, exposed

poolVars == <<kinds, files, fresh, rows, up, del, sweep, fetch, exposed>>
driveVars == <<kinds, files, fresh>>

Stored  == Names \X (1..MaxCopies)
PartIds == 1..Parts
Kinds   == {"file", "folder"}
Mixed   == "mixed"       \* bytes of two uploads in one file

NoFile   == [by |-> Null, whole |-> FALSE]
FileRec  == [by : Uploads \cup {Mixed, Null}, whole : BOOLEAN]
NoUpload == [pc |-> "idle", kind |-> Null, name |-> Null, used |-> {},
             at |-> Null, part |-> 0]
Ended(how) == [NoUpload EXCEPT !.pc = how]
NoDelete == [pc |-> "idle", id |-> 0, at |-> Null]
NoSweep  == [on |-> FALSE, valid |-> {}, tried |-> {}]

Running(u)  == up[u].pc \in {"open", "writing"}
UsedBy(s)   == {u \in Uploads : Running(u) /\ up[u].at = s}
OnDrive     == {s \in Stored : kinds[s] # "none"}
Emptied     == [p \in PartIds |-> NoFile]

\* The download: the kind and the number of what it asks for, and whose it was
\* when it was listed; the parts of the list, those still to come and those that
\* came in this attempt; what is in the place, as a file or in a folder;
\* foreign: shares of more than one upload were listed into it.
NoFetch  == [pc |-> "idle", name |-> Null, kind |-> Null, id |-> 0, of |-> Null,
             plan |-> {}, todo |-> {}, came |-> {},
             got |-> [k \in Kinds |-> Emptied], foreign |-> FALSE]
\* An attempt that failed leaves what is in the place, and nothing else.
Broken(g) == [g EXCEPT !.pc = "failed", !.kind = Null, !.id = 0, !.plan = {},
                       !.todo = {}, !.came = {}]

\* Row ids are INTEGER PRIMARY KEY without AUTOINCREMENT: the largest one in
\* use plus one, so the id of the newest share is handed out again.
NextId == 1 + Max(DOMAIN rows \cup {0})

-----------------------------------------------------------------------------
(* upload_share *)

\* pathsafe::resolve_collision: the name itself, or with the first free number.
Unique(used, n) == <<n, Min({c \in 1..MaxCopies : <<n, c>> \notin used})>>

\* The request arrives: the names on the drive are read once.
Begin(u, k, n) ==
  /\ up[u].pc = "idle"
  /\ up' = [up EXCEPT ![u] = [@ EXCEPT !.pc = "open", !.kind = k, !.name = n,
                                       !.used = OnDrive]]
  /\ UNCHANGED <<driveVars, rows, del, sweep, fetch, exposed>>

\* Where the next file part goes: a folder is named once, a file each time.
HasRoom(u) == \E c \in 1..MaxCopies : <<up[u].name, c>> \notin up[u].used
Place(u) == IF up[u].kind = "folder" /\ up[u].at # Null
            THEN up[u].at ELSE Unique(up[u].used, up[u].name)
Slot(k, p) == IF k = "folder" THEN p ELSE 1

\* The name is in use by then: another upload made the entry since the drive
\* was read, or a row still stands for it whose deletion removed the files.
Taken(s) == kinds[s] # "none" \/ \E i \in DOMAIN rows : rows[i].at = s

\* A folder's time stamp moves only with what is directly in it: files in a
\* folder of it leave it alone.
Touch(s) == fresh' \in {fresh, fresh \cup {s}}

\* Next file part: the folder is made and the file created, or truncated.
StartPart(u) ==
  LET s == Place(u)
      named == s # up[u].at
      p == Slot(up[u].kind, up[u].part + 1)
  IN /\ up[u].pc = "open" /\ up[u].part < Parts /\ HasRoom(u)
     /\ kinds[s] \in {"none", up[u].kind}
     /\ up' = [up EXCEPT ![u] = [@ EXCEPT !.pc = "writing", !.at = s,
                                          !.used = up[u].used \cup {s},
                                          !.part = up[u].part + 1]]
     /\ kinds' = [kinds EXCEPT ![s] = up[u].kind]
     /\ files' = [files EXCEPT ![s][p] = [by |-> u, whole |-> FALSE]]
     /\ IF named THEN fresh' = fresh \cup {s} ELSE Touch(s)
     /\ exposed' = IF named /\ Taken(s) THEN exposed \cup {s} ELSE exposed
     /\ UNCHANGED <<rows, del, sweep, fetch>>

\* What the file holds when u has written its last byte: nothing if it was
\* removed meanwhile, bytes of two uploads if another one opened it too.
Closed(f, u) == CASE f.by = Null -> f
                  [] f.by = u    -> [by |-> u, whole |-> TRUE]
                  [] OTHER       -> [by |-> Mixed, whole |-> FALSE]

FinishPart(u) ==
  LET s == up[u].at
      p == Slot(up[u].kind, up[u].part)
  IN /\ up[u].pc = "writing"
     /\ files' = [files EXCEPT ![s][p] = Closed(@, u)]
     /\ fresh' = IF up[u].kind = "file" /\ files[s][p].by # Null
                 THEN fresh \cup {s} ELSE fresh
     /\ up' = [up EXCEPT ![u].pc = "open"]
     /\ UNCHANGED <<kinds, rows, del, sweep, fetch, exposed>>

\* The stream ends in an error, or grows too large: this file is removed, the
\* ones written before it stay.
AbortPart(u) ==
  LET s == up[u].at
      p == Slot(up[u].kind, up[u].part)
  IN /\ up[u].pc = "writing"
     /\ files' = [files EXCEPT ![s][p] = NoFile]
     /\ kinds' = IF up[u].kind = "file" THEN [kinds EXCEPT ![s] = "none"] ELSE kinds
     /\ IF kinds[s] = "folder" THEN Touch(s) ELSE fresh' = fresh \ {s}
     /\ up' = [up EXCEPT ![u] = Ended("failed")]
     /\ UNCHANGED <<rows, del, sweep, fetch, exposed>>

\* Any other early return, and a client that is gone: nothing is cleaned up.
Fail(u) ==
  /\ Running(u)
  /\ up' = [up EXCEPT ![u] = Ended("failed")]
  /\ UNCHANGED <<driveVars, rows, del, sweep, fetch, exposed>>

WithRow(u) == [i \in DOMAIN rows \cup {NextId} |->
  IF i = NextId THEN [up |-> u, at |-> up[u].at, kind |-> up[u].kind,
                      parts |-> 1..up[u].part, doomed |-> FALSE]
                ELSE rows[i]]

\* Every part is in: the row is inserted, in one transaction.
ListEarly(u) ==   \* mutant: before the last file is in
  /\ up[u].pc \in {"open", "writing"} /\ up[u].part > 0
  /\ rows' = WithRow(u)
  /\ up' = [up EXCEPT ![u] = Ended("listed")]
  /\ UNCHANGED <<driveVars, del, sweep, fetch, exposed>>
List(u) ==
  /\ up[u].pc = "open" /\ up[u].part > 0
  /\ rows' = WithRow(u)
  /\ up' = [up EXCEPT ![u] = Ended("listed")]
  /\ UNCHANGED <<driveVars, del, sweep, fetch, exposed>>

-----------------------------------------------------------------------------
(* delete_share, admin_delete_share and remove_share_data *)

LookUp(d, i) ==
  /\ del[d].pc = "idle" /\ i \in DOMAIN rows
  /\ del' = [del EXCEPT ![d] = [pc |-> "found", id |-> i, at |-> rows[i].at]]
  /\ UNCHANGED <<driveVars, rows, up, sweep, fetch, exposed>>

\* remove_dir_all and remove_file: all of it goes, or an error leaves some.
Held(s) == {p \in PartIds : files[s][p] # NoFile}
RemoveAll(s) ==
  /\ files' = [files EXCEPT ![s] = Emptied]
  /\ kinds' = [kinds EXCEPT ![s] = "none"]
  /\ fresh' = fresh \ {s}
RemoveSome(s) ==
  /\ \E left \in IF kinds[s] = "folder" THEN SUBSET Held(s) ELSE {Held(s)} :
       files' = [files EXCEPT ![s] = [p \in PartIds |->
                   IF p \in left THEN files[s][p] ELSE NoFile]]
  /\ IF kinds[s] = "folder" THEN Touch(s) ELSE UNCHANGED fresh
  /\ UNCHANGED kinds

\* The files go first, by the name that was looked up; an error is ignored.
\* Another deletion may have dropped the row meanwhile.
RemoveFiles(d) ==
  LET s == del[d].at
      i == del[d].id
  IN /\ del[d].pc = "found"
     /\ RemoveAll(s) \/ RemoveSome(s)
     /\ rows' = IF i \in DOMAIN rows THEN [rows EXCEPT ![i].doomed = TRUE] ELSE rows
     /\ exposed' = IF i \in DOMAIN rows /\ rows[i].at = s THEN exposed
                   ELSE exposed \cup {s}
     /\ del' = [del EXCEPT ![d].pc = "removed"]
     /\ UNCHANGED <<up, sweep, fetch>>

\* Then the row, with whatever waits in the jukebox for it.
DropRow(d) ==
  /\ del[d].pc = "removed"
  /\ rows' = Restrict(rows, DOMAIN rows \ {del[d].id})
  /\ del' = [del EXCEPT ![d] = NoDelete]
  /\ UNCHANGED <<driveVars, up, sweep, fetch, exposed>>

-----------------------------------------------------------------------------
(* share_orphan_sweep, and the time it goes by *)

InRows == {rows[i].at : i \in DOMAIN rows}

\* The names of the rows are read, none if the query fails, then the drive.
SweepStart ==
  /\ ~sweep.on
  /\ \E failed \in BOOLEAN :
       /\ sweep' = [on |-> TRUE, valid |-> IF failed THEN {} ELSE InRows, tried |-> {}]
       /\ exposed' = IF failed THEN exposed \cup (InRows \ fresh) ELSE exposed
  /\ UNCHANGED <<driveVars, rows, up, del, fetch>>

EligibleFile(s) ==   \* mutant: folders are left
  kinds[s] = "file" /\ s \notin sweep.valid \cup sweep.tried \cup fresh
Eligible(s) == s \in OnDrive /\ s \notin sweep.valid \cup sweep.tried \cup fresh

SweepEntry(s) ==
  /\ sweep.on /\ Eligible(s)
  /\ RemoveAll(s)
  /\ UNCHANGED <<rows, up, del, sweep, fetch, exposed>>

\* The removal fails, in use or half-way: it is logged and left to a later sweep.
SweepFails(s) ==
  /\ sweep.on /\ Eligible(s)
  /\ RemoveSome(s)
  /\ sweep' = [sweep EXCEPT !.tried = @ \cup {s}]
  /\ UNCHANGED <<rows, up, del, fetch, exposed>>

SweepEnd ==
  /\ sweep.on /\ ~ \E s \in Stored : Eligible(s)
  /\ sweep' = NoSweep
  /\ UNCHANGED <<driveVars, rows, up, del, fetch, exposed>>

\* ORPHAN_MIN_AGE_SECS pass without a change that the entry's own time stamp
\* shows, even while an upload writes: one large file, or files in a folder of
\* it, do not keep a folder young. A sweep reads the clock once: what ages while
\* it runs is for the next one.
Age(s) ==
  /\ s \in fresh /\ ~sweep.on
  /\ fresh' = fresh \ {s}
  /\ exposed' = IF UsedBy(s) # {} THEN exposed \cup {s} ELSE exposed
  /\ UNCHANGED <<kinds, files, rows, up, del, sweep, fetch>>

\* The server stops at any point and starts again.
PoolRestart ==
  /\ \/ \E u \in Uploads : Running(u)
     \/ \E d \in Deletes : del[d].pc # "idle"
     \/ sweep.on
  /\ up' = [u \in Uploads |-> IF Running(u) THEN Ended("failed") ELSE up[u]]
  /\ del' = [d \in Deletes |-> NoDelete]
  /\ sweep' = NoSweep
  /\ UNCHANGED <<driveVars, rows, fetch, exposed>>

-----------------------------------------------------------------------------
(* share_download on the client, serve_share_file on the server *)

\* Present at the size the list gives, which is all completeness_check and
\* only_missing compare. The uploads are of one size: what is whole passes.
AtSize(g) == g.whole

\* The listing is taken. The share goes into the chosen folder under its display
\* name, the number of a collision left off: every share of that name goes there.
\* With only_missing, files of the expected size are kept, whatever left them.
Listing(f, i) ==
  LET r == rows[i]
  IN /\ fetch[f].pc # "get" /\ i \in DOMAIN rows
     /\ fetch[f].name \in {Null, r.at[1]}
     /\ \E only_missing \in BOOLEAN :
          fetch' = [fetch EXCEPT ![f] =
            [@ EXCEPT !.pc = "get", !.name = r.at[1], !.kind = r.kind, !.id = i,
                      !.of = r.up, !.plan = r.parts, !.came = {},
                      !.todo = {p \in r.parts :
                                 ~(only_missing /\ AtSize(fetch[f].got[r.kind][p]))},
                      !.foreign = fetch[f].foreign \/ fetch[f].of \notin {Null, r.up}]]
     /\ UNCHANGED <<driveVars, rows, up, del, sweep, exposed>>

\* The file the server opens for a part: by the row the id has now. None, and
\* the answer is 410.
Serves(i, p) == IF i \in DOMAIN rows
                THEN files[rows[i].at][Slot(rows[i].kind, p)] ELSE NoFile

\* A file is where the folder would be, or a folder where the file would be.
Blocked(f) == \E k \in Kinds \ {fetch[f].kind}, q \in PartIds :
                fetch[f].got[k][q] # NoFile

\* The next file is asked for: it comes whole, or the connection breaks in it.
Get(f, p) ==
  LET b == Serves(fetch[f].id, p)
      k == fetch[f].kind
  IN /\ fetch[f].pc = "get" /\ p \in fetch[f].todo
     /\ \A q \in fetch[f].todo : p <= q
     /\ \E broken \in BOOLEAN :
          fetch' = [fetch EXCEPT ![f] =
            IF b = NoFile \/ Blocked(f) THEN Broken(@)
            ELSE IF broken THEN [Broken(@) EXCEPT !.got[k][p] = [b EXCEPT !.whole = FALSE]]
            ELSE [@ EXCEPT !.got[k][p] = b, !.todo = fetch[f].todo \ {p},
                           !.came = fetch[f].came \cup {p}]]
     /\ UNCHANGED <<driveVars, rows, up, del, sweep, exposed>>

\* Cancelled between two files: the rest is skipped, the report still made.
Cancel(f) ==
  /\ fetch[f].pc = "get" /\ fetch[f].todo # {}
  /\ fetch' = [fetch EXCEPT ![f].todo = {}]
  /\ UNCHANGED <<driveVars, rows, up, del, sweep, exposed>>

\* completeness_check: complete if every file of the list is there at its size.
ReportUnchecked(f) ==   \* mutant: taken for complete
  /\ fetch[f].pc = "get" /\ fetch[f].todo = {}
  /\ fetch' = [fetch EXCEPT ![f] = [@ EXCEPT !.pc = "complete", !.id = 0, !.plan = {}]]
  /\ UNCHANGED <<driveVars, rows, up, del, sweep, exposed>>
Report(f) ==
  /\ fetch[f].pc = "get" /\ fetch[f].todo = {}
  /\ fetch' = [fetch EXCEPT ![f] =
                 IF \A p \in fetch[f].plan : AtSize(fetch[f].got[fetch[f].kind][p])
                 THEN [@ EXCEPT !.pc = "complete", !.id = 0, !.plan = {}]
                 ELSE Broken(@)]
  /\ UNCHANGED <<driveVars, rows, up, del, sweep, exposed>>

-----------------------------------------------------------------------------
PoolInit ==
  /\ kinds = [s \in Stored |-> "none"]
  /\ files = [s \in Stored |-> Emptied]
  /\ fresh = {}
  /\ rows = <<>>
  /\ up = [u \in Uploads |-> NoUpload]
  /\ del = [d \in Deletes |-> NoDelete]
  /\ sweep = NoSweep
  /\ fetch = [f \in Fetches |-> NoFetch]
  /\ exposed = {}

\* The client (share_upload, collect_tree) sends a directory as one folder with
\* the files of its tree one after the other, and a loose file by itself.
UploadStep(u) == \/ \E k \in Kinds, n \in Names : Begin(u, k, n)
                 \/ StartPart(u) \/ FinishPart(u) \/ AbortPart(u)
                 \/ Fail(u) \/ List(u)
DeleteStep(d) == \/ \E i \in DOMAIN rows : LookUp(d, i)
                 \/ RemoveFiles(d) \/ DropRow(d)
SweepStep     == \/ SweepStart \/ SweepEnd
                 \/ \E s \in Stored : SweepEntry(s) \/ SweepFails(s) \/ Age(s)
FetchStep(f)  == \/ \E i \in DOMAIN rows : Listing(f, i)
                 \/ \E p \in PartIds : Get(f, p)
                 \/ Cancel(f) \/ Report(f)

PoolNext ==
  \/ \E u \in Uploads : UploadStep(u)
  \/ \E d \in Deletes : DeleteStep(d)
  \/ \E f \in Fetches : FetchStep(f)
  \/ SweepStep
  \/ PoolRestart

PoolSpec == PoolInit /\ [][PoolNext]_poolVars

\* The sweep runs every SWEEP_INTERVAL_SECS for good and walks the whole drive
\* each time; time passes; the server is not stopped in every single sweep, and
\* the removal of an entry does not fail every time. Uploads, deletions and
\* downloads owe nothing.
PoolFairness ==
  /\ WF_poolVars(SweepStart) /\ WF_poolVars(SweepEnd)
  /\ \A s \in Stored : SF_poolVars(SweepEntry(s)) /\ SF_poolVars(Age(s))
PoolFairSpec == PoolSpec /\ PoolFairness

-----------------------------------------------------------------------------
PoolTypeOK ==
  /\ kinds \in [Stored -> Kinds \cup {"none"}]
  /\ files \in [Stored -> [PartIds -> FileRec]]
  /\ fresh \subseteq Stored /\ exposed \subseteq Stored
  /\ DOMAIN rows \subseteq 1..Cardinality(Uploads)
  /\ \A i \in DOMAIN rows :
       rows[i] \in [up : Uploads, at : Stored, kind : Kinds,
                    parts : SUBSET PartIds, doomed : BOOLEAN]
  /\ up \in [Uploads -> [pc : {"idle", "open", "writing", "failed", "listed"},
                        kind : Kinds \cup {Null}, name : Names \cup {Null},
                        used : SUBSET Stored, at : Stored \cup {Null},
                        part : 0..Parts]]
  /\ del \in [Deletes -> [pc : {"idle", "found", "removed"}, id : Nat,
                         at : Stored \cup {Null}]]
  /\ sweep \in [on : BOOLEAN, valid : SUBSET Stored, tried : SUBSET Stored]
  /\ fetch \in [Fetches -> [pc : {"idle", "get", "failed", "complete"},
                           name : Names \cup {Null}, kind : Kinds \cup {Null},
                           id : Nat, of : Uploads \cup {Null},
                           plan : SUBSET PartIds, todo : SUBSET PartIds,
                           came : SUBSET PartIds,
                           got : [Kinds -> [PartIds -> FileRec]], foreign : BOOLEAN]]

\* A share that is in the list, and that no deletion has come to, has every
\* file it was uploaded with, whole and its own, whatever uploads, sweeps,
\* deletions and restarts ran beside it (the order of upload_share and
\* remove_share_data, the collision set, the age guard). The exceptions are the
\* exposed names: one that was in use when it was taken, by an upload that runs
\* at the same time or by a deletion that stopped between files and row; one
\* whose upload left its time stamp for 30 minutes; one that a sweep met which
\* could not read the rows; one that a deletion removed after another deletion
\* had dropped the row. A deletion comes to the row that has, by then, the number
\* it looked up.
Owned(r, p) == files[r.at][Slot(r.kind, p)] = [by |-> r.up, whole |-> TRUE]
ListedIsWhole ==
  \A i \in DOMAIN rows :
    LET r == rows[i]
    IN ~r.doomed /\ r.at \notin exposed =>
         \A p \in r.parts : Owned(r, p)

\* A download that reports every file present, of a share that is in the list
\* and that no deletion has come to, has all its files at their size, and
\* those that came in this attempt are the share's own, whole; so are the others
\* unless a share of another upload was downloaded into the same place before,
\* whose files only_missing keeps. All this after whatever broken, cancelled and
\* repeated attempts; exposed names apart (share_download, serve_share_file).
FetchedIsShare ==
  \A f \in Fetches : \A i \in DOMAIN rows :
    LET r == rows[i]
    IN fetch[f].pc = "complete" /\ r.up = fetch[f].of
         /\ ~r.doomed /\ r.at \notin exposed
       => \A p \in r.parts :
            LET g == fetch[f].got[r.kind][p]
            IN /\ AtSize(g)
               /\ p \in fetch[f].came \/ ~fetch[f].foreign
                    => g = [by |-> r.up, whole |-> TRUE]

\* What an upload that failed, or a deletion that could not remove everything,
\* leaves on the drive does not stay there, as long as its removal does not fail
\* for ever (share_orphan_sweep).
Orphan(s) == s \in OnDrive /\ UsedBy(s) = {} /\ s \notin InRows
OrphansSwept == \A s \in Stored : Orphan(s) ~> ~Orphan(s)

-----------------------------------------------------------------------------
(* What a comment says and the code does not keep *)

\* A share that vanished during a download answers "gone": what came in a
\* download that reports every file present is that share's (serve_share_file).
GoneNotCorrupt ==
  exposed = {} =>
    \A f \in Fetches : fetch[f].pc = "complete" =>
      \A p \in fetch[f].came : fetch[f].got[fetch[f].kind][p].by = fetch[f].of
=============================================================================
