--------------------------- MODULE DownloadProofs ---------------------------
(***************************************************************************)
(* Proofs about Download for every set of titles, every number of          *)
(* versions, every layout and every batch and group size.                  *)
(***************************************************************************)
EXTENDS Download, FiniteSetTheorems, TLAPS

\* One-line names that every proof sees through.
USE DEF Hole, Written, Waits, WaitsOnWrite, Served, Resumable, GivesUp, Unpersisted

-----------------------------------------------------------------------------
(* Facts about the operators the actions are built from. *)

\* A set of positions has a size.
LEMMA PositionsCard ==
  ASSUME NEW S, S \subseteq Positions
  PROVE  Cardinality(S) \in Nat
BY ConstantsAssumption, FS_Subset, FS_CardinalityType

\* FirstN picks members of the set it is given.
LEMMA FirstNSubset ==
  ASSUME NEW S, NEW n
  PROVE  FirstN(S, n) \subseteq S
BY DEF FirstN

\* Every version has a layout made of positions.
LEMMA LayoutType ==
  ASSUME NEW v \in Vers
  PROVE  Layout[v] \subseteq Positions
BY ConstantsAssumption

\* A handle keeps its type when its file is removed.
LEMMA UnlinkedType ==
  ASSUME NEW fd \in [Files -> Handle], NEW F
  PROVE  Unlinked(fd, F) \in [Files -> Handle]
BY DEF Unlinked, Handle

\* A write leaves a task a task.
LEMMA TaskAfterType ==
  ASSUME NEW task \in Task, NEW p \in Positions, NEW okay \in BOOLEAN
  PROVE  /\ TaskAfter(task, p, okay) \in Task
         /\ TaskAfter(task, p, okay).title = task.title
         /\ TaskAfter(task, p, okay).ver = task.ver
         /\ TaskAfter(task, p, okay).todo = task.todo \ {p}
         /\ okay => /\ TaskAfter(task, p, okay).ok = task.ok \cup {p}
                    /\ TaskAfter(task, p, okay).fd = Opened(task.fd, FileOf[p])
         /\ ~okay => /\ TaskAfter(task, p, okay).ok = task.ok
                     /\ TaskAfter(task, p, okay).fd = task.fd
<1>1. FileOf[p] \in Files
  BY ConstantsAssumption
<1>2. Opened(task.fd, FileOf[p]) \in [Files -> Handle]
  BY <1>1 DEF Opened, Task, Handle
<1> QED
  BY <1>2 DEF TaskAfter, Task

\* A write leaves the disk a disk and changes at most the task's position.
LEMMA DiskAfterType ==
  ASSUME TypeOK, NEW task \in Task, NEW p \in Positions, NEW okay \in BOOLEAN
  PROVE  DiskAfter(task, p, okay) \in [Titles -> [Positions -> Vers \cup {Hole}]]
BY DEF DiskAfter, TypeOK, Task

-----------------------------------------------------------------------------
(* Every step keeps the types. *)

\* What enqueue and pump leave of the queue and the worker's place.
LEMMA EnqueueType ==
  ASSUME TypeOK, NEW j \in Job, EnqueueJob(j)
  PROVE  queue' \subseteq Job /\ pc' \in Pcs
BY DEF EnqueueJob, TypeOK, Pcs

\* A saved row is a row.
LEMMA SaveRowType ==
  ASSUME TypeOK, NEW t \in Titles, NEW v \in Vers, NEW status,
         NEW have \in SUBSET Positions, SaveRow(t, v, status, have)
  PROVE  row' \in [Titles -> [Vers -> Row]]
<1>1. [status |-> Kind(status), have |-> have] \in Row
  BY DEF Row, Status, Kind
<1> QED
  BY <1>1 DEF SaveRow, TypeOK

\* Forgetting a title's rows leaves rows.
LEMMA NoRowsType ==
  ASSUME TypeOK, NEW t \in Titles
  PROVE  NoRowsOf(t) \in [Titles -> [Vers -> Row]]
<1>1. NoRow \in Row
  BY DEF NoRow, Row, Status
<1> QED
  BY <1>1 DEF NoRowsOf, TypeOK

\* Collecting a task and handing over the next keeps the types.
LEMMA AccountType ==
  ASSUME TypeOK, NEW next \in [good : SUBSET Positions, bad : SUBSET Positions],
         Account(next)
  PROVE  /\ bitmap' \subseteq Positions /\ since' \in Nat /\ anyOk' \in BOOLEAN
         /\ writer' \in [Files -> Handle] /\ pending' \in Task \cup {NoTask}
<1> DEFINE ok == IF pending = NoTask THEN {} ELSE pending.ok
           fd == IF pending = NoTask THEN writer ELSE pending.fd
           todo == next.good \cup next.bad
<1>1. ok \subseteq Positions /\ fd \in [Files -> Handle]
  BY DEF TypeOK, Task
<1>2. Cardinality(ok) \in Nat
  BY <1>1, PositionsCard
<1>3. AllClosed \in [Files -> Handle]
  BY DEF AllClosed, Handle
<1>4. todo \subseteq Positions /\ next.good \subseteq Positions
  OBVIOUS
<1>5. [title |-> job.title, ver |-> job.ver, todo |-> todo,
       good |-> next.good, ok |-> {}, fd |-> fd] \in Task
  BY <1>1, <1>4 DEF TypeOK, Task, Job
<1> HIDE DEF ok, fd, todo
<1>6. /\ bitmap' = bitmap \cup ok
      /\ since' = since + Cardinality(ok)
      /\ anyOk' = (anyOk \/ ok # {})
      /\ writer' = IF todo = {} THEN fd ELSE AllClosed
      /\ pending' = IF todo = {} THEN NoTask
                    ELSE [title |-> job.title, ver |-> job.ver, todo |-> todo,
                          good |-> next.good, ok |-> {}, fd |-> fd]
  BY DEF Account, ok, fd, todo
<1>7. bitmap' \subseteq Positions /\ since' \in Nat
  BY <1>1, <1>2, <1>6 DEF TypeOK
<1>8. anyOk' \in BOOLEAN
  BY <1>6 DEF TypeOK
<1>9. writer' \in [Files -> Handle]
  BY <1>1, <1>3, <1>6
<1>10. pending' \in Task \cup {NoTask}
  BY <1>5, <1>6
<1> QED
  BY <1>7, <1>8, <1>9, <1>10

\* A task keeps its type when its files are removed.
LEMMA UnlinkedTask ==
  ASSUME NEW task \in Task, NEW F
  PROVE  /\ [task EXCEPT !.fd = Unlinked(@, F)] \in Task
         /\ [task EXCEPT !.fd = Unlinked(@, F)].fd = Unlinked(task.fd, F)
         /\ [task EXCEPT !.fd = Unlinked(@, F)].title = task.title
         /\ [task EXCEPT !.fd = Unlinked(@, F)].ver = task.ver
         /\ [task EXCEPT !.fd = Unlinked(@, F)].todo = task.todo
         /\ [task EXCEPT !.fd = Unlinked(@, F)].ok = task.ok
<1>1. Unlinked(task.fd, F) \in [Files -> Handle]
  BY UnlinkedType DEF Task
<1> QED
  BY <1>1 DEF Task

\* The step of every action, one by one.
LEMMA NextTypeOK ==
  ASSUME TypeOK, Shape, [Next]_vars
  PROVE  TypeOK'
<1> USE DEF vars, jobVars, flagVars, storeVars, otherVars
<1>0. AllClosed \in [Files -> Handle] /\ NoJobs \in [good : SUBSET Positions, bad : SUBSET Positions]
  BY DEF AllClosed, Handle, NoJobs
<1>a. 0 \in Nat /\ 0 \in 0..MaxTries
  BY ConstantsAssumption
<1>1. ASSUME NEW t \in Titles, Publish(t) PROVE TypeOK'
  BY <1>1, ConstantsAssumption DEF Publish, TypeOK, Vers
<1>2. ASSUME NEW t \in Titles, FolderRemoved(t) PROVE TypeOK'
  BY <1>2 DEF FolderRemoved, TypeOK
<1>3. ASSUME NEW t \in Titles, NEW v \in Vers, BeginDownload(t, v) PROVE TypeOK'
  <2>1. queue' \subseteq Job /\ pc' \in Pcs
    BY <1>3, EnqueueType DEF BeginDownload, Job
  <2>2. row' \in [Titles -> [Vers -> Row]]
    BY <1>3, NoRowsType DEF BeginDownload, TypeOK
  <2> QED
    BY <1>3, <2>1, <2>2 DEF BeginDownload, TypeOK
<1>4. ASSUME NEW t \in Titles, NEW v \in Vers, ResumeDownload(t, v) PROVE TypeOK'
  <2>1. queue' \subseteq Job /\ pc' \in Pcs
    BY <1>4, EnqueueType DEF ResumeDownload, Job
  <2> QED
    BY <1>4, <2>1 DEF ResumeDownload, TypeOK
<1>5. ASSUME NEW t \in Titles, PauseDownload(t) PROVE TypeOK'
  BY <1>5 DEF PauseDownload, TypeOK
<1>6. ASSUME NEW t \in Titles, CancelDownload(t) PROVE TypeOK'
  BY <1>6 DEF CancelDownload, Cancel, TypeOK
<1>7. ASSUME NEW t \in Titles, DeleteFiles(t) PROVE TypeOK'
  <2>1. PICK F \in SUBSET Files :
          /\ deleting' = IF F = Files THEN deleting \cup {t} ELSE deleting
          /\ RemoveFiles(t, F)
    BY <1>7 DEF DeleteFiles
  <2>2. disk' \in [Titles -> [Positions -> Vers \cup {Hole}]]
    BY <2>1 DEF RemoveFiles, TypeOK
  <2> DEFINE gone == IF t \in located THEN F ELSE {}
             cut(d) == [d EXCEPT !.fd = Unlinked(@, gone)]
  <2>3. detached' \subseteq Task
    <3>1. \A d \in detached : d \in Task /\ cut(d) \in Task
      BY UnlinkedTask DEF TypeOK
    <3>2. detached' = {IF d.title = t THEN cut(d) ELSE d : d \in detached}
      BY <2>1 DEF RemoveFiles
    <3> HIDE DEF cut
    <3> QED
      BY <3>1, <3>2
  <2>4. writer' \in [Files -> Handle] /\ pending' \in Task \cup {NoTask}
    <3>1. Unlinked(writer, gone) \in [Files -> Handle]
      BY UnlinkedType DEF TypeOK
    <3>2. pending = NoTask \/ (pending \in Task /\ cut(pending) \in Task)
      BY UnlinkedTask DEF TypeOK
    <3>3. \/ /\ writer' = Unlinked(writer, gone)
             /\ pending' = IF pending = NoTask THEN NoTask ELSE cut(pending)
          \/ UNCHANGED <<writer, pending>>
      BY <2>1 DEF RemoveFiles
    <3> HIDE DEF cut
    <3> QED
      BY <3>1, <3>2, <3>3 DEF TypeOK
  <2>5. deleting' \subseteq Titles /\ stray' \subseteq Titles
    BY <2>1 DEF RemoveFiles, TypeOK
  <2>6. queue' \subseteq Job /\ cancelled' \in BOOLEAN
    BY <1>7 DEF DeleteFiles, Cancel, TypeOK
  <2> QED
    BY <1>7, <2>2, <2>3, <2>4, <2>5, <2>6 DEF DeleteFiles, TypeOK
<1>8. ASSUME NEW t \in Titles, DeleteRows(t) PROVE TypeOK'
  BY <1>8, NoRowsType DEF DeleteRows, TypeOK
<1>9. ASSUME NEW t \in Titles, RepairScan(t) PROVE TypeOK'
  <2>1. repairs' \subseteq Repair
    BY <1>9, LayoutType DEF RepairScan, TypeOK, Repair
  <2> QED
    BY <1>9, <2>1 DEF RepairScan, TypeOK
<1>10. ASSUME NEW r \in repairs, RepairSave(r) PROVE TypeOK'
  <2>1. r.title \in Titles /\ r.ver \in Vers /\ r.good \subseteq Positions
    BY DEF TypeOK, Repair
  <2>2. row' \in [Titles -> [Vers -> Row]]
    BY <1>10, <2>1, SaveRowType DEF RepairSave
  <2>3. queue' \subseteq Job /\ pc' \in Pcs
    BY <1>10, <2>1, EnqueueType DEF RepairSave, Job, TypeOK
  <2> QED
    BY <1>10, <2>2, <2>3 DEF RepairSave, TypeOK
<1>11. ASSUME PopJob PROVE TypeOK'
  BY <1>11 DEF PopJob, TypeOK, Pcs
<1>12. ASSUME StopWorker PROVE TypeOK'
  BY <1>12 DEF StopWorker, TypeOK, Pcs
<1>13. ASSUME FetchManifest PROVE TypeOK'
  BY <1>13 DEF FetchManifest, TypeOK, Pcs
<1>14. ASSUME LoadBitmap PROVE TypeOK'
  <2>1. bitmap' \subseteq Positions
    BY <1>14 DEF LoadBitmap, TypeOK, Job, Row
  <2> QED
    BY <1>14, <2>1 DEF LoadBitmap, TypeOK, Pcs
<1>15. ASSUME Activate PROVE TypeOK'
  <2>1. row' \in [Titles -> [Vers -> Row]]
    BY <1>15, SaveRowType DEF Activate, Persist, TypeOK, Job
  <2> QED
    BY <1>15, <2>1, <1>0, <1>a DEF Activate, TypeOK, Pcs
<1>16. ASSUME LoopTop PROVE TypeOK'
  <2>1. row' \in [Titles -> [Vers -> Row]]
    BY <1>16, SaveRowType DEF LoopTop, Persist, TypeOK, Job
  <2>2. batch' \subseteq Positions
    BY <1>16, LayoutType, FirstNSubset DEF LoopTop, TypeOK, Job
  <2>3. anyOk' \in BOOLEAN /\ pc' \in Pcs
    BY <1>16 DEF LoopTop, TypeOK, Pcs
  <2> QED
    BY <1>16, <2>1, <2>2, <2>3 DEF LoopTop, TypeOK
<1>17. ASSUME Validate PROVE TypeOK'
  <2> DEFINE d      == Finalized(disk[job.title], job.ver)
             failed == FailedFiles(d, job.ver)
             left   == {p \in bitmap : FileOf[p] \notin failed}
  <2>1. job.title \in Titles /\ job.ver \in Vers
    BY DEF TypeOK, Job
  <2>2. d \in [Positions -> Vers \cup {Hole}]
    BY <2>1 DEF Finalized, TypeOK
  <2>3. left \subseteq Positions /\ bitmap \subseteq Positions
    BY DEF TypeOK
  <2>4. tries < MaxTries /\ tries \in Nat
    BY <1>17 DEF Validate, Shape, LoopShape, Writing, Loaded, TypeOK
  <2> HIDE DEF d, failed, left
  <2>5. \/ /\ disk' = [disk EXCEPT ![job.title] = d]
           /\ \/ Persist("complete", bitmap) /\ UNCHANGED <<bitmap, tries>> /\ pc' = "done"
              \/ /\ bitmap' = left /\ tries' = tries + 1
                 /\ \/ Persist("error", left) /\ pc' = "fail"
                    \/ Persist("active", left) /\ pc' = "top"
        \/ pc' = "fail" /\ UNCHANGED <<disk, row, bitmap, tries>>
    BY <1>17 DEF Validate, d, failed, left
  <2>6. row' \in [Titles -> [Vers -> Row]]
    BY <2>1, <2>3, <2>5, SaveRowType DEF Persist, TypeOK
  <2>7. disk' \in [Titles -> [Positions -> Vers \cup {Hole}]]
    BY <2>2, <2>5 DEF TypeOK
  <2>8. bitmap' \subseteq Positions /\ pc' \in Pcs
    BY <2>3, <2>5 DEF Pcs
  <2>9. tries' \in 0..MaxTries
    BY <2>4, <2>5, ConstantsAssumption DEF TypeOK
  <2> QED
    BY <1>0, <1>17, <2>6, <2>7, <2>8, <2>9 DEF Validate, TypeOK
<1>18. ASSUME FetchGroup PROVE TypeOK'
  <2>1. FirstN(batch, GroupSize) \subseteq Positions
    BY FirstNSubset DEF TypeOK
  <2> QED
    BY <1>18, <2>1 DEF FetchGroup, TypeOK, Pcs
<1>19. ASSUME Collect PROVE TypeOK'
  <2>1. pc' \in Pcs
    BY <1>19 DEF Collect, Pcs
  <2>2. /\ bitmap' \subseteq Positions /\ since' \in Nat /\ anyOk' \in BOOLEAN
        /\ writer' \in [Files -> Handle] /\ pending' \in Task \cup {NoTask}
    BY <1>19, AccountType DEF Collect, TypeOK
  <2> QED
    BY <1>19, <1>0, <2>1, <2>2 DEF Collect, TypeOK
<1>20. ASSUME Drain PROVE TypeOK'
  <2>1. pc' \in Pcs
    BY <1>20 DEF Drain, Pcs
  <2>2. /\ bitmap' \subseteq Positions /\ since' \in Nat /\ anyOk' \in BOOLEAN
        /\ writer' \in [Files -> Handle] /\ pending' \in Task \cup {NoTask}
    BY <1>20, <1>0, AccountType DEF Drain
  <2> QED
    BY <1>20, <2>1, <2>2 DEF Drain, TypeOK
<1>21. ASSUME Interrupted PROVE TypeOK'
  <2>1. row' \in [Titles -> [Vers -> Row]]
    BY <1>21, SaveRowType DEF Interrupted, Persist, TypeOK, Job
  <2>2. detached' \subseteq Task
    BY <1>21 DEF Interrupted, PendingDone, TypeOK
  <2> QED
    BY <1>21, <1>0, <2>1, <2>2 DEF Interrupted, TypeOK, Pcs
<1>22. ASSUME EndBatch PROVE TypeOK'
  <2>1. row' \in [Titles -> [Vers -> Row]]
    BY <1>22, SaveRowType DEF EndBatch, Persist, TypeOK, Job
  <2> QED
    BY <1>22, <2>1 DEF EndBatch, TypeOK, Pcs
<1>23. ASSUME JobFailed PROVE TypeOK'
  <2>1. row[job.title][job.ver].have \in SUBSET Positions
    BY DEF TypeOK, Job, Row
  <2>2. row' \in [Titles -> [Vers -> Row]]
    BY <1>23, <2>1, SaveRowType DEF JobFailed, Persist, TypeOK, Job
  <2> QED
    BY <1>23, <2>2 DEF JobFailed, TypeOK, Pcs
<1>24. ASSUME JobDone PROVE TypeOK'
  BY <1>24, <1>0, <1>a DEF JobDone, TypeOK, Pcs
<1>25. ASSUME WriteChunk PROVE TypeOK'
  <2>1. PICK p \in Positions, okay \in BOOLEAN :
          /\ pending' = TaskAfter(pending, p, okay)
          /\ disk' = DiskAfter(pending, p, okay)
    BY <1>25 DEF WriteChunk
  <2>2. pending \in Task
    BY <1>25 DEF WriteChunk, TypeOK
  <2>3. pending' \in Task /\ disk' \in [Titles -> [Positions -> Vers \cup {Hole}]]
    BY <2>1, <2>2, TaskAfterType, DiskAfterType
  <2> QED
    BY <1>25, <2>3 DEF WriteChunk, TypeOK
<1>26. ASSUME NEW d \in detached, DetachedWrite(d) PROVE TypeOK'
  <2>1. PICK p \in Positions, okay \in BOOLEAN :
          LET e == TaskAfter(d, p, okay) IN
          /\ detached' = (detached \ {d}) \cup (IF e.todo = {} THEN {} ELSE {e})
          /\ disk' = DiskAfter(d, p, okay)
          /\ stray' = IF Lands(d, p, okay) /\ disk[d.title][p] > d.ver
                        THEN stray \cup {d.title} ELSE stray
    BY <1>26 DEF DetachedWrite
  <2>2. d \in Task /\ d.title \in Titles
    BY DEF TypeOK, Task
  <2>3. /\ TaskAfter(d, p, okay) \in Task
        /\ disk' \in [Titles -> [Positions -> Vers \cup {Hole}]]
    BY <2>1, <2>2, TaskAfterType, DiskAfterType
  <2>4. detached' \subseteq Task /\ stray' \subseteq Titles
    BY <2>1, <2>2, <2>3 DEF TypeOK
  <2> QED
    BY <1>26, <2>3, <2>4 DEF DetachedWrite, TypeOK
<1>27. ASSUME Crash PROVE TypeOK'
  BY <1>27, <1>0, <1>a DEF Crash, TypeOK, Pcs
<1>28. CASE UNCHANGED vars
  BY <1>28 DEF TypeOK
<1> QED
  BY <1>1, <1>2, <1>3, <1>4, <1>5, <1>6, <1>7, <1>8, <1>9, <1>10, <1>11, <1>12,
     <1>13, <1>14, <1>15, <1>16, <1>17, <1>18, <1>19, <1>20, <1>21, <1>22,
     <1>23, <1>24, <1>25, <1>26, <1>27, <1>28
  DEF Next, User, Worker

-----------------------------------------------------------------------------
(* Every step keeps the shape of the worker's locals and of the rows. *)

\* enqueue and pump start a worker or leave it where it is.
LEMMA EnqueuePc ==
  ASSUME NEW j, EnqueueJob(j)
  PROVE  pc' = pc \/ (pc = "off" /\ pc' = "pop")
BY DEF EnqueueJob

\* A row is well shaped after a save of a part of its version, or of all of it.
LEMMA SaveRowShape ==
  ASSUME TypeOK, RowShape, NEW t \in Titles, NEW v \in Vers, NEW status,
         NEW have \in SUBSET Layout[v],
         status = "complete" => have = Layout[v],
         SaveRow(t, v, status, have)
  PROVE  RowShape'
BY DEF SaveRow, RowShape, TypeOK, Kind

\* Forgetting the rows of a title keeps every row within its version.
LEMMA NoRowsShape ==
  ASSUME TypeOK, RowShape, NEW t \in Titles, row' = NoRowsOf(t)
  PROVE  RowShape'
BY DEF NoRowsOf, NoRow, RowShape, TypeOK

\* No step persists a bit outside the version, or "complete" with a bit missing.
LEMMA NextRowShape ==
  ASSUME TypeOK, Shape, [Next]_vars
  PROVE  RowShape'
<1> USE DEF vars, jobVars, flagVars, storeVars, otherVars, Shape
<1>0. job.title \in Titles /\ job.ver \in Vers
  BY DEF TypeOK, Job
<1>a. pc \in Loaded => bitmap \in SUBSET Layout[job.ver]
  BY DEF LoopShape
<1>1. CASE UNCHANGED row
  BY <1>1 DEF RowShape
<1>2. ASSUME NEW t \in Titles, NEW v \in Vers, BeginDownload(t, v) PROVE RowShape'
  BY <1>1, <1>2, NoRowsShape DEF BeginDownload
<1>3. ASSUME NEW t \in Titles, DeleteRows(t) PROVE RowShape'
  BY <1>3, NoRowsShape DEF DeleteRows
<1>4. ASSUME NEW r \in repairs, RepairSave(r) PROVE RowShape'
  <2>1. r.title \in Titles /\ r.ver \in Vers /\ r.good \in SUBSET Layout[r.ver]
    BY DEF TypeOK, Repair, RepairShape
  <2> QED
    BY <1>4, <2>1, SaveRowShape DEF RepairSave
<1>5. ASSUME Activate PROVE RowShape'
  BY <1>0, <1>a, <1>5, SaveRowShape DEF Activate, Persist, Loaded
<1>6. ASSUME LoopTop PROVE RowShape'
  BY <1>0, <1>a, <1>1, <1>6, SaveRowShape DEF LoopTop, Persist, Loaded
<1>7. ASSUME Validate PROVE RowShape'
  <2> DEFINE left == {p \in bitmap : FileOf[p] \notin
                        FailedFiles(Finalized(disk[job.title], job.ver), job.ver)}
  <2>1. bitmap = Layout[job.ver]
    BY <1>7 DEF Validate, LoopShape
  <2>2. left \in SUBSET Layout[job.ver]
    BY <2>1
  <2> HIDE DEF left
  <2>3. \/ Persist("complete", bitmap) \/ Persist("error", left)
        \/ Persist("active", left) \/ UNCHANGED row
    BY <1>7 DEF Validate, left
  <2> QED
    BY <1>0, <1>1, <2>1, <2>2, <2>3, SaveRowShape DEF Persist
<1>8. ASSUME Interrupted PROVE RowShape'
  BY <1>0, <1>a, <1>8, SaveRowShape DEF Interrupted, Persist, Loaded
<1>9. ASSUME EndBatch PROVE RowShape'
  BY <1>0, <1>a, <1>1, <1>9, SaveRowShape DEF EndBatch, Persist, Loaded
<1>10. ASSUME JobFailed PROVE RowShape'
  <2>1. row[job.title][job.ver].have \in SUBSET Layout[job.ver]
    BY <1>0 DEF RowShape
  <2> QED
    BY <1>0, <1>1, <1>10, <2>1, SaveRowShape DEF JobFailed, Persist
<1>11. ASSUME NEW t \in Titles,
              \/ Publish(t) \/ FolderRemoved(t) \/ PauseDownload(t)
              \/ CancelDownload(t) \/ DeleteFiles(t) \/ RepairScan(t)
              \/ \E v \in Vers : ResumeDownload(t, v)
       PROVE  UNCHANGED row
  BY <1>11 DEF Publish, FolderRemoved, PauseDownload, CancelDownload,
               DeleteFiles, RepairScan, ResumeDownload
<1>12. CASE PopJob \/ StopWorker \/ FetchManifest \/ LoadBitmap \/ FetchGroup
              \/ Collect \/ Drain \/ JobDone \/ WriteChunk \/ Crash
              \/ (\E d \in detached : DetachedWrite(d)) \/ UNCHANGED vars
  BY <1>1, <1>12 DEF PopJob, StopWorker, FetchManifest, LoadBitmap, FetchGroup,
                     Collect, Drain, JobDone, WriteChunk, Crash, DetachedWrite
<1> QED
  BY <1>1, <1>2, <1>3, <1>4, <1>5, <1>6, <1>7, <1>8, <1>9, <1>10, <1>11, <1>12
  DEF Next, User, Worker

\* What repair_title found good stays within the version it scanned.
LEMMA NextRepairShape ==
  ASSUME TypeOK, RepairShape, [Next]_vars
  PROVE  RepairShape'
<1> USE DEF vars, jobVars, flagVars, storeVars, otherVars, RepairShape
<1>1. CASE repairs' \subseteq repairs
  BY <1>1
<1>2. ASSUME NEW t \in Titles, RepairScan(t) PROVE RepairShape'
  BY <1>2 DEF RepairScan
<1>3. ASSUME NEW t \in Titles,
             \/ Publish(t) \/ FolderRemoved(t) \/ PauseDownload(t)
             \/ CancelDownload(t) \/ DeleteFiles(t) \/ DeleteRows(t)
             \/ \E v \in Vers : BeginDownload(t, v) \/ ResumeDownload(t, v)
      PROVE  UNCHANGED repairs
  BY <1>3 DEF Publish, FolderRemoved, PauseDownload, CancelDownload,
              DeleteFiles, DeleteRows, BeginDownload, ResumeDownload
<1>4. CASE WriteChunk \/ Crash \/ UNCHANGED vars
           \/ (\E d \in detached : DetachedWrite(d))
           \/ (\E r \in repairs : RepairSave(r))
  BY <1>1, <1>4 DEF WriteChunk, Crash, DetachedWrite, RepairSave
<1>5. CASE Worker
  BY <1>1, <1>5 DEF Worker, PopJob, StopWorker, FetchManifest, LoadBitmap,
     Activate, LoopTop, Validate, FetchGroup, Collect, Drain, Interrupted,
     EndBatch, JobFailed, JobDone
<1> QED
  BY <1>1, <1>2, <1>3, <1>4, <1>5 DEF Next, User

\* The steps that are not the worker's.
Outside ==
  \/ User \/ UNCHANGED vars
  \/ \E d \in detached : DetachedWrite(d)
  \/ \E r \in repairs : RepairSave(r)

\* Users, repairs and detached writes leave the worker's locals alone but for
\* the handles that delete_game cuts off.
LEMMA OutsideStep ==
  ASSUME TypeOK, Outside
  PROVE  /\ UNCHANGED <<job, bitmap, batch, wjobs, tries>>
         /\ pc' = pc \/ (pc = "off" /\ pc' = "pop")
         /\ pending' = NoTask <=> pending = NoTask
         /\ pending # NoTask =>
              /\ pending'.title = pending.title /\ pending'.ver = pending.ver
              /\ pending'.todo = pending.todo /\ pending'.ok = pending.ok
<1> USE DEF vars, jobVars, flagVars, storeVars, otherVars
<1> DEFINE Same == UNCHANGED <<job, bitmap, batch, wjobs, tries, pending>>
           Pc   == pc' = pc \/ (pc = "off" /\ pc' = "pop")
<1>1. ASSUME NEW t \in Titles,
             \/ Publish(t) \/ FolderRemoved(t) \/ PauseDownload(t)
             \/ CancelDownload(t) \/ DeleteRows(t) \/ RepairScan(t)
      PROVE  Same /\ Pc
  BY <1>1 DEF Publish, FolderRemoved, PauseDownload, CancelDownload, DeleteRows,
              RepairScan
<1>2. ASSUME NEW t \in Titles, NEW v \in Vers,
             BeginDownload(t, v) \/ ResumeDownload(t, v)
      PROVE  Same /\ Pc
  BY <1>2, EnqueuePc DEF BeginDownload, ResumeDownload
<1>3. ASSUME NEW r \in repairs, RepairSave(r)
      PROVE  Same /\ Pc
  BY <1>3, EnqueuePc DEF RepairSave
<1>4. ASSUME NEW d \in detached, DetachedWrite(d)
      PROVE  Same /\ Pc
  BY <1>4 DEF DetachedWrite
<1>5. ASSUME NEW t \in Titles, DeleteFiles(t)
      PROVE  /\ UNCHANGED <<job, bitmap, batch, wjobs, tries>> /\ Pc
             /\ pending' = NoTask <=> pending = NoTask
             /\ pending # NoTask =>
                  /\ pending'.title = pending.title /\ pending'.ver = pending.ver
                  /\ pending'.todo = pending.todo /\ pending'.ok = pending.ok
  <2>1. UNCHANGED <<job, bitmap, batch, wjobs, tries>> /\ Pc
    BY <1>5 DEF DeleteFiles
  <2>2. PICK F \in SUBSET Files : RemoveFiles(t, F)
    BY <1>5 DEF DeleteFiles
  <2> DEFINE gone == IF t \in located THEN F ELSE {}
             cut  == [pending EXCEPT !.fd = Unlinked(@, gone)]
  <2>3. \/ UNCHANGED pending
        \/ pending' = IF pending = NoTask THEN NoTask ELSE cut
    BY <2>2 DEF RemoveFiles
  <2>4. CASE pending = NoTask
    BY <2>1, <2>3, <2>4
  <2>5. CASE pending # NoTask
    <3>1. pending \in Task
      BY <2>5 DEF TypeOK
    <3>2. /\ cut \in Task /\ cut.title = pending.title /\ cut.ver = pending.ver
          /\ cut.todo = pending.todo /\ cut.ok = pending.ok
      BY <3>1, UnlinkedTask
    <3> HIDE DEF cut
    <3> QED
      BY <2>1, <2>3, <2>5, <3>1, <3>2, NoTaskAssumption
  <2> QED
    BY <2>4, <2>5
<1> QED
  BY <1>1, <1>2, <1>3, <1>4, <1>5 DEF Outside, User

\* What Account leaves of the bitmap and of the task, at the end of a group.
LEMMA AccountShape ==
  ASSUME TypeOK, Shape, pc \in Loaded, Account(wjobs) \/ Account(NoJobs),
         pc = "collect" \/ Account(NoJobs)
  PROVE  /\ bitmap' \subseteq Layout[job.ver]
         /\ pending' # NoTask =>
              /\ pending'.title = job.title /\ pending'.ver = job.ver
              /\ pending'.todo \cup pending'.ok \subseteq Layout[job.ver]
<1>1. bitmap' \subseteq Layout[job.ver]
  BY DEF Account, Shape, TaskShape, LoopShape
<1>2. CASE Account(wjobs) /\ pc = "collect"
  BY <1>1, <1>2 DEF Account, Shape, LoopShape
<1>3. CASE Account(NoJobs)
  BY <1>1, <1>3 DEF Account, NoJobs
<1> QED
  BY <1>2, <1>3

\* A write task in flight stays one of the running job, within its version.
LEMMA NextTaskShape ==
  ASSUME TypeOK, Shape, [Next]_vars
  PROVE  TaskShape'
<1> USE DEF vars, jobVars, flagVars, storeVars, otherVars, TaskShape
<1>0. TaskShape
  BY DEF Shape
<1>1. CASE Outside
  BY <1>0, <1>1, OutsideStep
<1>2. CASE PopJob \/ StopWorker \/ FetchManifest \/ LoadBitmap \/ Activate
           \/ LoopTop \/ Validate \/ FetchGroup \/ EndBatch \/ JobFailed
           \/ JobDone
  BY <1>0, <1>2 DEF PopJob, StopWorker, FetchManifest, LoadBitmap, Activate,
     LoopTop, Validate, FetchGroup, EndBatch, JobFailed, JobDone
<1>3. CASE Collect
  BY <1>3, AccountShape DEF Collect, Loaded
<1>4. CASE Drain
  BY <1>4 DEF Drain, Account, NoJobs
<1>5. CASE Interrupted \/ Crash
  BY <1>5 DEF Interrupted, Crash
<1>6. CASE WriteChunk
  <2>1. PICK p \in Positions, okay \in BOOLEAN :
          MayWrite(pending, p, okay) /\ pending' = TaskAfter(pending, p, okay)
    BY <1>6 DEF WriteChunk
  <2>2. pending \in Task /\ pending # NoTask /\ UNCHANGED <<pc, job>>
    BY <1>6 DEF WriteChunk, TypeOK
  <2>3. /\ pending'.title = pending.title /\ pending'.ver = pending.ver
        /\ pending'.todo \subseteq pending.todo
        /\ pending'.ok \subseteq pending.ok \cup {p}
    <3> DEFINE e == TaskAfter(pending, p, okay)
    <3>1. /\ e.title = pending.title /\ e.ver = pending.ver
          /\ e.todo = pending.todo \ {p}
          /\ okay => e.ok = pending.ok \cup {p}
          /\ ~okay => e.ok = pending.ok
      BY <2>2, TaskAfterType
    <3>2. pending' = e
      BY <2>1
    <3> HIDE DEF e
    <3> QED
      BY <3>1, <3>2
  <2> QED
    BY <1>0, <2>1, <2>2, <2>3 DEF MayWrite
<1> QED
  BY <1>1, <1>2, <1>3, <1>4, <1>5, <1>6 DEF Next, Worker, Outside

\* Each step of the worker loop keeps what is known of its locals.
LEMMA NextLoopShape ==
  ASSUME TypeOK, Shape, [Next]_vars
  PROVE  LoopShape'
<1> USE DEF vars, jobVars, flagVars, storeVars, otherVars, LoopShape, Loaded, Writing
<1>0. LoopShape
  BY DEF Shape
<1>a. tries \in Nat /\ MaxTries \in Nat \ {0}
  BY ConstantsAssumption DEF TypeOK
<1>1. CASE Outside
  BY <1>0, <1>1, OutsideStep
<1>2. CASE PopJob \/ StopWorker \/ FetchManifest \/ JobFailed \/ JobDone \/ Crash
  BY <1>2 DEF PopJob, StopWorker, FetchManifest, JobFailed, JobDone, Crash
<1>3. CASE LoadBitmap
  BY <1>3 DEF LoadBitmap, Shape, RowShape, TypeOK, Job
<1>4. CASE Activate
  BY <1>0, <1>a, <1>4 DEF Activate
<1>5. CASE LoopTop
  <2>1. FirstN(Layout[job.ver] \ bitmap, BatchSize) \subseteq Layout[job.ver]
    BY FirstNSubset
  <2> QED
    BY <1>0, <1>5, <2>1 DEF LoopTop
<1>6. CASE Validate
  BY <1>0, <1>a, <1>6 DEF Validate
<1>7. CASE FetchGroup
  <2>1. FirstN(batch, GroupSize) \subseteq batch
    BY FirstNSubset
  <2> QED
    BY <1>0, <1>7, <2>1 DEF FetchGroup
<1>8. CASE Collect
  BY <1>0, <1>8, AccountShape DEF Collect
<1>9. CASE Drain
  BY <1>0, <1>9, AccountShape DEF Drain
<1>10. CASE Interrupted
  BY <1>0, <1>10 DEF Interrupted
<1>11. CASE EndBatch \/ WriteChunk
  BY <1>0, <1>11 DEF EndBatch, WriteChunk
<1> QED
  BY <1>1, <1>2, <1>3, <1>4, <1>5, <1>6, <1>7, <1>8, <1>9, <1>10, <1>11
  DEF Next, Worker, Outside

\* The four shape invariants together, step by step.
LEMMA NextShape ==
  ASSUME TypeOK, Shape, [Next]_vars
  PROVE  Shape'
BY NextTaskShape, NextLoopShape, NextRowShape, NextRepairShape DEF Shape

-----------------------------------------------------------------------------
(* Nothing is of a later version than the worker and the server allow. *)

\* A task in flight is the worker's, which then is in the loop.
LEMMA PendingIsJobs ==
  ASSUME TypeOK, Shape, pending # NoTask
  PROVE  /\ pending \in Task /\ pc \in Loaded \cap Writing
         /\ pending.title = job.title /\ pending.ver = job.ver
BY DEF TypeOK, Shape, TaskShape, Loaded, Writing

\* The positions of a title's folder change in five places only.
LEMMA DiskSteps ==
  ASSUME TypeOK, Shape, [Next]_vars
  PROVE  \/ UNCHANGED disk
         \/ \E t \in Titles : FolderRemoved(t) \/ DeleteFiles(t)
         \/ Validate \/ WriteChunk
         \/ \E d \in detached : DetachedWrite(d)
<1> USE DEF vars, jobVars, flagVars, storeVars, otherVars
<1>1. ASSUME NEW t \in Titles, User, ~FolderRemoved(t), ~DeleteFiles(t)
      PROVE  UNCHANGED disk \/ \E u \in Titles : FolderRemoved(u) \/ DeleteFiles(u)
  BY <1>1 DEF User, Publish, BeginDownload, ResumeDownload, PauseDownload,
              CancelDownload, DeleteRows, RepairScan
<1>2. CASE Worker
  BY <1>2 DEF Worker, PopJob, StopWorker, FetchManifest, LoadBitmap, Activate,
              LoopTop, FetchGroup, Collect, Drain, Interrupted, EndBatch,
              JobFailed, JobDone
<1>3. ASSUME NEW r \in repairs, RepairSave(r) PROVE UNCHANGED disk
  BY <1>3 DEF RepairSave
<1>4. CASE Crash \/ UNCHANGED vars
  BY <1>4 DEF Crash
<1> QED
  BY <1>1, <1>2, <1>3, <1>4 DEF Next, User

\* No step puts bytes of a version past v into a folder that holds none, unless
\* the running job or a detached task is past v.
LEMMA DiskBounded ==
  ASSUME TypeOK, Shape, [Next]_vars, NEW t \in Titles, NEW v \in Vers,
         VersionsBounded(t, v),
         pc \in Loaded /\ job.title = t => job.ver <= v
  PROVE  \A p \in Positions : disk'[t][p] <= v
<1> USE DEF VersionsBounded
<1>0. v \in Nat /\ 0 <= v /\ Vers \subseteq Nat
  BY ConstantsAssumption DEF Vers
<1>1. CASE UNCHANGED disk
  BY <1>1
<1>2. ASSUME NEW u \in Titles, FolderRemoved(u)
      PROVE  \A p \in Positions : disk'[t][p] <= v
  BY <1>0, <1>2 DEF FolderRemoved, TypeOK
<1>3. ASSUME NEW u \in Titles, DeleteFiles(u)
      PROVE  \A p \in Positions : disk'[t][p] <= v
  BY <1>0, <1>3 DEF DeleteFiles, RemoveFiles, TypeOK
<1>4. CASE Validate
  <2>1. \/ disk' = [disk EXCEPT ![job.title] = Finalized(disk[job.title], job.ver)]
        \/ UNCHANGED disk
    BY <1>4 DEF Validate
  <2> QED
    BY <1>0, <1>1, <2>1 DEF Finalized, TypeOK, Job
<1>5. ASSUME NEW task \in Task, NEW p \in Positions, NEW okay \in BOOLEAN,
             disk' = DiskAfter(task, p, okay), task.title = t => task.ver <= v
      PROVE  \A q \in Positions : disk'[t][q] <= v
  BY <1>0, <1>5 DEF DiskAfter, TypeOK, Task
<1>6. CASE WriteChunk
  BY <1>5, <1>6, PendingIsJobs DEF WriteChunk
<1>7. ASSUME NEW d \in detached, DetachedWrite(d)
      PROVE  \A p \in Positions : disk'[t][p] <= v
  BY <1>5, <1>7 DEF DetachedWrite, TypeOK
<1> QED
  BY <1>1, <1>2, <1>3, <1>4, <1>6, <1>7, DiskSteps

\* No step creates a row of a version past v, unless the running job or a
\* repair is past v.
LEMMA RowBounded ==
  ASSUME TypeOK, Shape, [Next]_vars, NEW t \in Titles, NEW v \in Vers,
         VersionsBounded(t, v),
         pc \in Loaded /\ job.title = t => job.ver <= v
  PROVE  \A u \in Vers : u > v => row'[t][u] = NoRow
<1> USE DEF vars, jobVars, flagVars, storeVars, otherVars
<1> DEFINE Goal == \A u \in Vers : u > v => row'[t][u] = NoRow
<1>0. Vers \subseteq Nat /\ job.title \in Titles /\ job.ver \in Vers
  BY ConstantsAssumption DEF Vers, TypeOK, Job
<1>1. CASE UNCHANGED row
  BY <1>1 DEF VersionsBounded
<1>2. ASSUME NEW x \in Titles, row' = NoRowsOf(x) PROVE Goal
  BY <1>2 DEF NoRowsOf, VersionsBounded, TypeOK
<1>3. ASSUME NEW x \in Titles, NEW w \in Vers, NEW status, NEW have,
             SaveRow(x, w, status, have), x = t => w <= v
      PROVE  Goal
  BY <1>0, <1>3 DEF SaveRow, VersionsBounded, TypeOK
<1>4. ASSUME NEW x \in Titles, NEW w \in Vers, BeginDownload(x, w) PROVE Goal
  BY <1>1, <1>2, <1>4 DEF BeginDownload
<1>5. ASSUME NEW x \in Titles, DeleteRows(x) PROVE Goal
  BY <1>2, <1>5 DEF DeleteRows
<1>6. ASSUME NEW r \in repairs, RepairSave(r) PROVE Goal
  <2>1. r.title \in Titles /\ r.ver \in Vers /\ (r.title = t => r.ver <= v)
    BY DEF VersionsBounded, TypeOK, Repair
  <2> QED
    BY <1>3, <1>6, <2>1 DEF RepairSave
<1>7. ASSUME pc \in Loaded, NEW status, NEW have, Persist(status, have) PROVE Goal
  BY <1>0, <1>3, <1>7 DEF Persist
<1>8. CASE Activate
  BY <1>7, <1>8 DEF Activate, Loaded
<1>9. CASE LoopTop
  BY <1>1, <1>7, <1>9 DEF LoopTop, Loaded
<1>10. CASE Validate
  BY <1>1, <1>7, <1>10 DEF Validate, Loaded
<1>11. CASE Interrupted
  BY <1>7, <1>11 DEF Interrupted, Loaded
<1>12. CASE EndBatch
  BY <1>1, <1>7, <1>12 DEF EndBatch, Loaded
<1>13. CASE JobFailed
  <2>1. CASE row[job.title][job.ver] = NoRow
    BY <1>1, <1>13, <2>1 DEF JobFailed
  <2>2. CASE row[job.title][job.ver] # NoRow
    <3>1. v \in Int /\ job.ver \in Int
      BY ConstantsAssumption DEF Vers, TypeOK, Job
    <3>2. job.title = t => ~(job.ver > v)
      BY <1>0, <2>2 DEF VersionsBounded
    <3>3. job.title = t => job.ver <= v
      BY <3>1, <3>2
    <3> QED
      BY <1>0, <1>3, <1>13, <2>2, <3>3 DEF JobFailed, Persist
  <2> QED
    BY <2>1, <2>2
<1>14. ASSUME NEW x \in Titles,
              \/ Publish(x) \/ FolderRemoved(x) \/ PauseDownload(x)
              \/ CancelDownload(x) \/ DeleteFiles(x) \/ RepairScan(x)
              \/ \E w \in Vers : ResumeDownload(x, w)
       PROVE  UNCHANGED row
  BY <1>14 DEF Publish, FolderRemoved, PauseDownload, CancelDownload,
               DeleteFiles, RepairScan, ResumeDownload
<1>15. CASE PopJob \/ StopWorker \/ FetchManifest \/ LoadBitmap \/ FetchGroup
              \/ Collect \/ Drain \/ JobDone \/ WriteChunk \/ Crash
              \/ (\E d \in detached : DetachedWrite(d)) \/ UNCHANGED vars
  BY <1>1, <1>15 DEF PopJob, StopWorker, FetchManifest, LoadBitmap, FetchGroup,
                     Collect, Drain, JobDone, WriteChunk, Crash, DetachedWrite
<1> QED
  BY <1>1, <1>4, <1>5, <1>6, <1>8, <1>9, <1>10, <1>11, <1>12, <1>13, <1>14, <1>15
  DEF Next, User, Worker

\* Cutting off handles leaves each detached task its title, version and chunks.
LEMMA CutTasks ==
  ASSUME TypeOK, NEW t, NEW F, RemoveFiles(t, F), NEW e \in detached'
  PROVE  \E d \in detached :
           /\ d \in Task /\ e.title = d.title /\ e.ver = d.ver
           /\ e.fd = d.fd \/ (e.fd = Unlinked(d.fd, IF t \in located THEN F ELSE {})
                              /\ d.title = t)
<1> DEFINE gone == IF t \in located THEN F ELSE {}
           cut(d) == [d EXCEPT !.fd = Unlinked(@, gone)]
<1>1. detached' = {IF d.title = t THEN cut(d) ELSE d : d \in detached}
  BY DEF RemoveFiles
<1>2. PICK d \in detached : e = IF d.title = t THEN cut(d) ELSE d
  BY <1>1
<1>3. d \in Task
  BY DEF TypeOK
<1>4. cut(d).title = d.title /\ cut(d).ver = d.ver /\ cut(d).fd = Unlinked(d.fd, gone)
  BY <1>3, UnlinkedTask
<1> HIDE DEF cut, gone
<1>5. /\ e.title = d.title /\ e.ver = d.ver
      /\ e.fd = d.fd \/ (e.fd = Unlinked(d.fd, gone) /\ d.title = t)
  BY <1>2, <1>4
<1> QED
  BY <1>3, <1>5 DEF gone

\* The detached tasks after a step: those before it, cut off or one chunk
\* further, and the running job's task when it is interrupted.
LEMMA DetachedSteps ==
  ASSUME TypeOK, Shape, [Next]_vars, NEW e \in detached'
  PROVE  \/ e \in detached
         \/ \E d \in detached : e.title = d.title /\ e.ver = d.ver
         \/ Interrupted /\ pending # NoTask /\ e = pending
<1> USE DEF vars, jobVars, flagVars, storeVars, otherVars
<1>1. ASSUME NEW t \in Titles, DeleteFiles(t)
      PROVE  \E d \in detached : e.title = d.title /\ e.ver = d.ver
  BY <1>1, CutTasks DEF DeleteFiles
<1>2. ASSUME NEW d \in detached, DetachedWrite(d)
      PROVE  e \in detached \/ (e.title = d.title /\ e.ver = d.ver)
  <2>1. PICK p \in Positions, okay \in BOOLEAN :
          LET a == TaskAfter(d, p, okay) IN
          detached' = (detached \ {d}) \cup (IF a.todo = {} THEN {} ELSE {a})
    BY <1>2 DEF DetachedWrite
  <2>2. d \in Task
    BY DEF TypeOK
  <2>3. /\ TaskAfter(d, p, okay).title = d.title
        /\ TaskAfter(d, p, okay).ver = d.ver
    BY <2>2, TaskAfterType
  <2> QED
    BY <2>1, <2>3
<1>3. CASE Interrupted
  BY <1>3 DEF Interrupted, PendingDone
<1>4. ASSUME NEW t \in Titles,
             \/ Publish(t) \/ FolderRemoved(t) \/ PauseDownload(t)
             \/ CancelDownload(t) \/ DeleteRows(t) \/ RepairScan(t)
             \/ \E v \in Vers : BeginDownload(t, v) \/ ResumeDownload(t, v)
      PROVE  e \in detached
  BY <1>4 DEF Publish, FolderRemoved, PauseDownload, CancelDownload,
              DeleteRows, RepairScan, BeginDownload, ResumeDownload
<1>5. CASE WriteChunk \/ Crash \/ UNCHANGED vars
           \/ (\E r \in repairs : RepairSave(r))
  BY <1>5 DEF WriteChunk, Crash, RepairSave
<1>6. CASE Worker /\ ~Interrupted
  BY <1>6 DEF Worker, PopJob, StopWorker, FetchManifest, LoadBitmap,
     Activate, LoopTop, Validate, FetchGroup, Collect, Drain,
     EndBatch, JobFailed, JobDone
<1> QED
  BY <1>1, <1>2, <1>3, <1>4, <1>5, <1>6 DEF Next, User

\* The repairs after a step: those before it, and one of the version offered,
\* for a title that has a row of it, backed by what is on disk.
LEMMA RepairSteps ==
  ASSUME TypeOK, [Next]_vars, NEW r \in repairs'
  PROVE  \/ r \in repairs
         \/ /\ r.title \in Titles /\ r.ver = published[r.title]
            /\ row[r.title][r.ver] # NoRow
            /\ r.good \subseteq {p \in Positions : disk[r.title][p] = r.ver}
            /\ UNCHANGED <<published, disk, stray>>
<1> USE DEF vars, jobVars, flagVars, storeVars, otherVars
<1>1. ASSUME NEW t \in Titles, RepairScan(t)
      PROVE  \/ r \in repairs
             \/ /\ r.title = t /\ r.ver = published[t] /\ row[t][r.ver] # NoRow
                /\ r.good \subseteq {p \in Positions : disk[t][p] = r.ver}
                /\ UNCHANGED <<published, disk, stray>>
  <2>1. Layout[published[t]] \subseteq Positions
    BY LayoutType DEF TypeOK
  <2> QED
    BY <1>1, <2>1 DEF RepairScan
<1>2. ASSUME NEW t \in Titles,
             \/ Publish(t) \/ FolderRemoved(t) \/ PauseDownload(t)
             \/ CancelDownload(t) \/ DeleteFiles(t) \/ DeleteRows(t)
             \/ \E v \in Vers : BeginDownload(t, v) \/ ResumeDownload(t, v)
      PROVE  r \in repairs
  BY <1>2 DEF Publish, FolderRemoved, PauseDownload, CancelDownload,
              DeleteFiles, DeleteRows, BeginDownload, ResumeDownload
<1>3. CASE WriteChunk \/ Crash \/ UNCHANGED vars
           \/ (\E d \in detached : DetachedWrite(d))
           \/ (\E s \in repairs : RepairSave(s))
  BY <1>3 DEF WriteChunk, Crash, DetachedWrite, RepairSave
<1>4. CASE Worker
  BY <1>4 DEF Worker, PopJob, StopWorker, FetchManifest, LoadBitmap,
     Activate, LoopTop, Validate, FetchGroup, Collect, Drain, Interrupted,
     EndBatch, JobFailed, JobDone
<1> QED
  BY <1>1, <1>2, <1>3, <1>4 DEF Next, User

\* What is bounded by a version stays bounded by it and by every later one.
LEMMA BoundedStep ==
  ASSUME TypeOK, Shape, [Next]_vars, NEW t \in Titles, NEW v \in Vers,
         VersionsBounded(t, v), NEW w \in Vers, v <= w,
         pc \in Loaded /\ job.title = t => job.ver <= v
  PROVE  VersionsBounded(t, w)'
<1>1. \A u \in Vers : u > v => row'[t][u] = NoRow
  BY RowBounded
<1>2. \A p \in Positions : disk'[t][p] <= v
  BY DiskBounded
<1>3. ASSUME NEW e \in detached', e.title = t PROVE e.ver <= v
  <2>1. CASE \E d \in detached : e.title = d.title /\ e.ver = d.ver
    BY <1>3, <2>1 DEF VersionsBounded
  <2>2. CASE pending # NoTask /\ e = pending
    BY <1>3, <2>2, PendingIsJobs
  <2> QED
    BY <2>1, <2>2, DetachedSteps
<1>4. ASSUME NEW r \in repairs', r.title = t PROVE r.ver <= v
  <2>1. CASE r \in repairs
    BY <1>4, <2>1 DEF VersionsBounded
  <2>2. CASE r.ver = published[t] /\ row[t][r.ver] # NoRow
    <3>1. r.ver \in Vers /\ r.ver \in Int /\ v \in Int
      BY <2>2, ConstantsAssumption DEF TypeOK, Vers
    <3>2. ~(r.ver > v)
      BY <2>2, <3>1 DEF VersionsBounded
    <3> QED
      BY <3>1, <3>2
  <2> QED
    BY <1>4, <2>1, <2>2, RepairSteps
<1>0. TypeOK'
  BY NextTypeOK
<1>5. v \in Int /\ w \in Int /\ \A u \in Vers : u \in Int
  BY ConstantsAssumption DEF Vers
<1>6. \A u \in Vers : u > w => row'[t][u] = NoRow
  BY <1>1, <1>5
<1>7. \A p \in Positions : disk'[t][p] <= w
  <2>1. \A p \in Positions : disk'[t][p] \in Int
    <3>1. \A p \in Positions : disk'[t][p] \in Vers \cup {0}
      BY <1>0 DEF TypeOK
    <3> QED
      BY <3>1, ConstantsAssumption DEF Vers
  <2> QED
    BY <1>2, <1>5, <2>1
<1>8. \A e \in detached' : e.title = t => e.ver <= w
  <2>1. \A e \in detached' : e.ver \in Int
    <3>1. \A e \in Task : e.ver \in Int
      BY <1>5 DEF Task
    <3> QED
      BY <1>0, <3>1 DEF TypeOK
  <2> QED
    BY <1>3, <1>5, <2>1
<1>9. \A r \in repairs' : r.title = t => r.ver <= w
  <2>1. \A r \in repairs' : r.ver \in Int
    <3>1. \A r \in Repair : r.ver \in Int
      BY <1>5 DEF Repair
    <3> QED
      BY <1>0, <3>1 DEF TypeOK
  <2> QED
    BY <1>4, <1>5, <2>1
<1> QED
  BY <1>6, <1>7, <1>8, <1>9 DEF VersionsBounded

\* Nobody but Publish changes what is published.
LEMMA OnlyPublish ==
  ASSUME [Next]_vars
  PROVE  (\E t \in Titles : Publish(t)) \/ UNCHANGED published
<1>1. CASE User
  BY <1>1 DEF User, FolderRemoved, PauseDownload, CancelDownload, DeleteFiles,
     DeleteRows, RepairScan, BeginDownload, ResumeDownload
<1>2. CASE Worker
  BY <1>2 DEF Worker, PopJob, StopWorker, FetchManifest, LoadBitmap, Activate,
     LoopTop, Validate, FetchGroup, Collect, Drain, Interrupted, EndBatch,
     JobFailed, JobDone
<1>3. CASE WriteChunk \/ (\E d \in detached : DetachedWrite(d))
  BY <1>3 DEF WriteChunk, DetachedWrite
<1>4. CASE (\E r \in repairs : RepairSave(r)) \/ Crash \/ UNCHANGED vars
  BY <1>4 DEF RepairSave, Crash, vars
<1> QED
  BY <1>1, <1>2, <1>3, <1>4 DEF Next

\* The server only ever moves on.
LEMMA PublishedGrows ==
  ASSUME TypeOK, [Next]_vars, NEW t \in Titles
  PROVE  published[t] <= published'[t]
<1>1. published[t] \in Int
  BY ConstantsAssumption DEF TypeOK, Vers
<1>2. ASSUME NEW u \in Titles, Publish(u) PROVE published[t] <= published'[t]
  BY <1>1, <1>2 DEF Publish, TypeOK
<1> QED
  BY <1>1, <1>2, OnlyPublish

\* A job becomes pinned only through the check of its manifest.
LEMMA PinnedSteps ==
  ASSUME TypeOK, [Next]_vars, pc' \in Pinned
  PROVE  /\ UNCHANGED job
         /\ pc \in Pinned \/ published[job.title] = job.ver
<1> USE DEF vars, jobVars, flagVars, storeVars, otherVars, Pinned, Loaded
<1>1. CASE Outside
  BY <1>1, OutsideStep
<1>2. CASE FetchManifest
  BY <1>2 DEF FetchManifest
<1>3. CASE LoadBitmap \/ Activate \/ LoopTop \/ FetchGroup \/ Collect
           \/ Drain \/ Interrupted \/ EndBatch \/ WriteChunk
  BY <1>3 DEF LoadBitmap, Activate, LoopTop, FetchGroup, Collect, Drain,
              Interrupted, EndBatch, WriteChunk
<1>4. CASE Validate
  BY <1>4 DEF Validate
<1>5. CASE PopJob \/ StopWorker \/ JobFailed \/ JobDone \/ Crash
  BY <1>5 DEF PopJob, StopWorker, JobFailed, JobDone, Crash
<1> QED
  BY <1>1, <1>2, <1>3, <1>4, <1>5 DEF Next, Worker, Outside

\* No step brings in something newer than the server offers, or newer than the
\* version a pinned job is on.
LEMMA NextVersions ==
  ASSUME TypeOK, Shape, Versions, [Next]_vars
  PROVE  Versions'
<1>0. TypeOK' /\ job.title \in Titles /\ job.ver \in Vers
  BY NextTypeOK DEF TypeOK, Job
<1>1. ASSUME NEW t \in Titles PROVE VersionsBounded(t, published[t])'
  <2>1. PICK v \in Vers : v = published[t]
    BY DEF TypeOK
  <2>2. PICK w \in Vers : w = published'[t]
    BY <1>0 DEF TypeOK
  <2>3. pc \in Loaded /\ job.title = t => job.ver <= v
    BY <2>1 DEF Versions, Pinned
  <2>4. VersionsBounded(t, v) /\ v <= w
    BY <2>1, <2>2, PublishedGrows DEF Versions
  <2>5. VersionsBounded(t, w)'
    BY <2>3, <2>4, BoundedStep
  <2> QED
    BY <2>2, <2>5 DEF VersionsBounded
<1>2. ASSUME pc' \in Pinned
      PROVE  /\ job'.ver <= published'[job'.title]
             /\ VersionsBounded(job.title, job.ver)'
  <2>1. job' = job /\ (pc \in Pinned \/ published[job.title] = job.ver)
    BY <1>2, PinnedSteps
  <2>2. PICK t \in Titles, v \in Vers : t = job.title /\ v = job.ver
    BY <1>0
  <2>3. v <= published[t] /\ VersionsBounded(t, v)
    <3>1. v \in Int
      BY ConstantsAssumption DEF Vers
    <3> QED
      BY <2>1, <2>2, <3>1 DEF Versions
  <2>4. v <= published'[t]
    <3>1. v \in Int /\ published[t] \in Int /\ published'[t] \in Int
      BY <1>0, ConstantsAssumption DEF Vers, TypeOK
    <3> QED
      BY <2>3, <3>1, PublishedGrows
  <2>5. VersionsBounded(t, v)'
    <3>1. v <= v
      BY ConstantsAssumption DEF Vers
    <3> QED
      BY <2>2, <2>3, <3>1, BoundedStep
  <2> QED
    BY <2>1, <2>2, <2>4, <2>5 DEF VersionsBounded
<1> QED
  BY <1>1, <1>2 DEF Versions

-----------------------------------------------------------------------------
(* Handles stay on files that exist, but where delete_game came in between. *)

\* Opening a file never yields a handle on a removed one.
LEMMA OpenedLinked ==
  ASSUME NEW fd \in [Files -> Handle], NEW f \in Files, NoneUnlinked(fd)
  PROVE  NoneUnlinked(Opened(fd, f))
BY DEF NoneUnlinked, Opened, Handle

\* Removing nothing cuts nothing off.
LEMMA UnlinkedNone ==
  ASSUME NEW fd \in [Files -> Handle], NoneUnlinked(fd)
  PROVE  NoneUnlinked(Unlinked(fd, {}))
BY DEF NoneUnlinked, Unlinked

\* A write through handles on files that exist leaves such handles.
LEMMA TaskAfterLinked ==
  ASSUME NEW task \in Task, NEW p \in Positions, NEW okay \in BOOLEAN,
         NoneUnlinked(task.fd)
  PROVE  NoneUnlinked(TaskAfter(task, p, okay).fd)
<1>1. FileOf[p] \in Files /\ task.fd \in [Files -> Handle]
  BY ConstantsAssumption DEF Task
<1>2. /\ okay => TaskAfter(task, p, okay).fd = Opened(task.fd, FileOf[p])
      /\ ~okay => TaskAfter(task, p, okay).fd = task.fd
  BY TaskAfterType
<1>3. NoneUnlinked(Opened(task.fd, FileOf[p]))
  BY <1>1, OpenedLinked
<1>4. CASE okay
  BY <1>2, <1>3, <1>4
<1>5. CASE ~okay
  BY <1>2, <1>5
<1> QED
  BY <1>4, <1>5

\* The history of strays only grows.
LEMMA StrayGrows ==
  ASSUME [Next]_vars
  PROVE  stray \subseteq stray'
<1> USE DEF vars, jobVars, flagVars, storeVars, otherVars
<1>1. ASSUME NEW u \in Titles,
             \/ Publish(u) \/ FolderRemoved(u) \/ PauseDownload(u)
             \/ CancelDownload(u) \/ DeleteFiles(u) \/ DeleteRows(u)
             \/ RepairScan(u)
             \/ \E v \in Vers : BeginDownload(u, v) \/ ResumeDownload(u, v)
      PROVE  stray \subseteq stray'
  BY <1>1 DEF Publish, FolderRemoved, PauseDownload, CancelDownload, DeleteFiles,
              RemoveFiles, DeleteRows, RepairScan, BeginDownload, ResumeDownload
<1>2. CASE WriteChunk \/ Crash \/ UNCHANGED vars
           \/ (\E d \in detached : DetachedWrite(d))
           \/ (\E s \in repairs : RepairSave(s))
  BY <1>2 DEF WriteChunk, Crash, DetachedWrite, RepairSave
<1>3. CASE Worker
  BY <1>3 DEF Worker, PopJob, StopWorker, FetchManifest, LoadBitmap,
     Activate, LoopTop, Validate, FetchGroup, Collect, Drain, Interrupted,
     EndBatch, JobFailed, JobDone
<1> QED
  BY <1>1, <1>2, <1>3 DEF Next, User

\* delete_game removes files of a title that is not stray afterwards only when
\* no operation on the title is in flight.
LEMMA DeleteInFlight ==
  ASSUME NEW t \in Titles, NEW F, RemoveFiles(t, F), t \notin stray'
  PROVE  \/ (IF t \in located THEN F ELSE {}) = {}
         \/ /\ F = Files
            /\ ~(pc \in Loaded /\ job.title = t)
            /\ \A d \in detached : d.title # t
            /\ \A r \in repairs : r.title # t
BY DEF RemoveFiles, InFlight

\* A detached task's handle is unlinked only where delete_game was recorded.
LEMMA NextDetachedHandles ==
  ASSUME TypeOK, Shape, Handles, [Next]_vars, NEW e \in detached',
         e.title \notin stray'
  PROVE  NoneUnlinked(e.fd)
<1> USE DEF vars, jobVars, flagVars, storeVars, otherVars
<1>0. stray \subseteq stray'
  BY StrayGrows
<1>1. CASE e \in detached
  BY <1>0, <1>1 DEF Handles
<1>2. ASSUME NEW t \in Titles, DeleteFiles(t) PROVE NoneUnlinked(e.fd)
  <2>1. PICK F \in SUBSET Files : RemoveFiles(t, F)
    BY <1>2 DEF DeleteFiles
  <2> DEFINE gone == IF t \in located THEN F ELSE {}
  <2>2. PICK d \in detached :
          /\ d \in Task /\ e.title = d.title
          /\ e.fd = d.fd \/ (e.fd = Unlinked(d.fd, gone) /\ d.title = t)
    BY <2>1, CutTasks
  <2>3. NoneUnlinked(d.fd) /\ d.fd \in [Files -> Handle]
    BY <1>0, <2>2 DEF Handles, Task
  <2>4. CASE e.fd = Unlinked(d.fd, gone) /\ d.title = t
    <3>1. gone = {}
      BY <2>1, <2>2, <2>4, DeleteInFlight
    <3> HIDE DEF gone
    <3> QED
      BY <2>3, <2>4, <3>1, UnlinkedNone
  <2> QED
    BY <2>2, <2>3, <2>4
<1>3. ASSUME NEW d \in detached, DetachedWrite(d) PROVE NoneUnlinked(e.fd)
  <2>1. PICK p \in Positions, okay \in BOOLEAN :
          LET a == TaskAfter(d, p, okay) IN
          detached' = (detached \ {d}) \cup (IF a.todo = {} THEN {} ELSE {a})
    BY <1>3 DEF DetachedWrite
  <2>2. d \in Task
    BY DEF TypeOK
  <2>3. CASE e = TaskAfter(d, p, okay)
    <3>1. e.title = d.title
      BY <2>2, <2>3, TaskAfterType
    <3>2. NoneUnlinked(d.fd)
      BY <1>0, <3>1 DEF Handles
    <3> QED
      BY <2>2, <2>3, <3>2, TaskAfterLinked
  <2> QED
    BY <1>1, <2>1, <2>3
<1>4. CASE Interrupted
  <2>1. CASE pending # NoTask /\ e = pending
    BY <1>0, <2>1, PendingIsJobs DEF Handles
  <2> QED
    BY <1>1, <1>4, <2>1 DEF Interrupted, PendingDone
<1>5. ASSUME NEW t \in Titles,
             \/ Publish(t) \/ FolderRemoved(t) \/ PauseDownload(t)
             \/ CancelDownload(t) \/ DeleteRows(t) \/ RepairScan(t)
             \/ \E v \in Vers : BeginDownload(t, v) \/ ResumeDownload(t, v)
      PROVE  e \in detached
  BY <1>5 DEF Publish, FolderRemoved, PauseDownload, CancelDownload,
              DeleteRows, RepairScan, BeginDownload, ResumeDownload
<1>6. CASE WriteChunk \/ Crash \/ UNCHANGED vars
           \/ (\E r \in repairs : RepairSave(r))
  BY <1>1, <1>6 DEF WriteChunk, Crash, RepairSave
<1>7. CASE Worker /\ ~Interrupted
  BY <1>1, <1>7 DEF Worker, PopJob, StopWorker, FetchManifest, LoadBitmap,
     Activate, LoopTop, Validate, FetchGroup, Collect, Drain,
     EndBatch, JobFailed, JobDone
<1> QED
  BY <1>1, <1>2, <1>3, <1>4, <1>5, <1>6, <1>7 DEF Next, User

\* The same for the handles of the running job and of its write task.
LEMMA NextJobHandles ==
  ASSUME TypeOK, Shape, Handles, [Next]_vars, pc' \in Writing,
         job'.title \notin stray'
  PROVE  NoneUnlinked(writer') /\ (pending' # NoTask => NoneUnlinked(pending'.fd))
<1> USE DEF vars, jobVars, flagVars, storeVars, otherVars
<1> DEFINE Goal == NoneUnlinked(writer') /\ (pending' # NoTask => NoneUnlinked(pending'.fd))
<1>0. stray \subseteq stray' /\ NoneUnlinked(AllClosed)
  BY StrayGrows DEF NoneUnlinked, AllClosed
<1>a. pc \in Writing /\ job' = job =>
        NoneUnlinked(writer) /\ (pending # NoTask => NoneUnlinked(pending.fd))
  BY <1>0 DEF Handles
<1>1. CASE pc \in Writing /\ job' = job /\ UNCHANGED <<writer, pending>>
  BY <1>a, <1>1
<1>2. ASSUME NEW t \in Titles, DeleteFiles(t) PROVE Goal
  <2>0. pc \in Writing /\ pc \in Loaded /\ job' = job
    BY <1>2 DEF DeleteFiles, Writing
  <2>1. PICK F \in SUBSET Files : RemoveFiles(t, F)
    BY <1>2 DEF DeleteFiles
  <2> DEFINE gone == IF t \in located THEN F ELSE {}
             cut == [pending EXCEPT !.fd = Unlinked(@, gone)]
  <2>2. CASE job.title = t
    <3>1. gone = {}
      BY <2>0, <2>1, <2>2, DeleteInFlight
    <3>2. /\ writer' = Unlinked(writer, gone)
          /\ pending' = IF pending = NoTask THEN NoTask ELSE cut
      BY <2>1, <2>2 DEF RemoveFiles
    <3>3. pending # NoTask => pending \in Task /\ pending.fd \in [Files -> Handle]
      BY DEF TypeOK, Task
    <3>4. pending # NoTask => cut.fd = Unlinked(pending.fd, gone)
      BY <3>3, UnlinkedTask
    <3>5. writer \in [Files -> Handle]
      BY DEF TypeOK
    <3> HIDE DEF gone, cut
    <3> QED
      BY <1>a, <2>0, <3>1, <3>2, <3>3, <3>4, <3>5, UnlinkedNone
  <2>3. CASE job.title # t
    BY <1>1, <2>0, <2>1, <2>3 DEF RemoveFiles
  <2> QED
    BY <2>2, <2>3
<1>3. ASSUME NEW t \in Titles,
             \/ Publish(t) \/ FolderRemoved(t) \/ PauseDownload(t)
             \/ CancelDownload(t) \/ DeleteRows(t) \/ RepairScan(t)
      PROVE  UNCHANGED <<pc, job, writer, pending>>
  BY <1>3 DEF Publish, FolderRemoved, PauseDownload, CancelDownload,
              DeleteRows, RepairScan
<1>4. ASSUME NEW t \in Titles, NEW v \in Vers,
             BeginDownload(t, v) \/ ResumeDownload(t, v)
      PROVE  UNCHANGED <<pc, job, writer, pending>>
  BY <1>4, EnqueuePc DEF BeginDownload, ResumeDownload, Writing, Loaded
<1>5. ASSUME NEW r \in repairs, RepairSave(r)
      PROVE  UNCHANGED <<pc, job, writer, pending>>
  BY <1>5, EnqueuePc DEF RepairSave, Writing, Loaded
<1>6. CASE UNCHANGED vars \/ (\E d \in detached : DetachedWrite(d))
  BY <1>1, <1>6 DEF DetachedWrite
<1>7. CASE PopJob \/ StopWorker \/ FetchManifest \/ LoadBitmap \/ JobFailed
           \/ JobDone \/ Crash
  BY <1>7 DEF PopJob, StopWorker, FetchManifest, LoadBitmap, JobFailed, JobDone,
              Crash, Writing, Loaded
<1>8. CASE Activate
  BY <1>0, <1>8 DEF Activate, Shape, TaskShape
<1>9. CASE LoopTop \/ FetchGroup \/ EndBatch
  BY <1>1, <1>9 DEF LoopTop, FetchGroup, EndBatch, Writing, Loaded
<1>10. CASE Validate
  BY <1>0, <1>10 DEF Validate, Shape, TaskShape
<1>11. CASE Collect \/ Drain
  <2>1. pc \in Writing /\ job' = job
    BY <1>11 DEF Collect, Drain, Writing, Loaded
  <2>2. Account(wjobs) \/ Account(NoJobs)
    BY <1>11 DEF Collect, Drain
  <2> QED
    BY <1>0, <1>a, <2>1, <2>2 DEF Account
<1>12. CASE Interrupted
  BY <1>a, <1>12 DEF Interrupted, Writing, Loaded
<1>13. CASE WriteChunk
  <2>1. PICK p \in Positions, okay \in BOOLEAN :
          pending' = TaskAfter(pending, p, okay)
    BY <1>13 DEF WriteChunk
  <2>2. pending \in Task /\ pending # NoTask /\ UNCHANGED <<pc, job, writer>>
    BY <1>13 DEF WriteChunk, TypeOK
  <2> QED
    BY <1>a, <2>1, <2>2, TaskAfterLinked
<1> QED
  BY <1>1, <1>2, <1>3, <1>4, <1>5, <1>6, <1>7, <1>8, <1>9, <1>10, <1>11, <1>12,
     <1>13
  DEF Next, User, Worker

\* The handle invariant, step by step.
LEMMA NextHandles ==
  ASSUME TypeOK, Shape, Handles, [Next]_vars
  PROVE  Handles'
BY NextDetachedHandles, NextJobHandles DEF Handles, NoneUnlinked

-----------------------------------------------------------------------------
(* Verified bytes stay where they are. *)

\* The files of a title that nothing works on were removed in this step.
Removed(t) ==
  /\ FolderRemoved(t) \/ DeleteFiles(t)
  /\ ~InFlight(t)
  /\ \A p \in Positions : disk'[t][p] = Hole

\* Bytes of v survive every step when no version past v is around and the
\* running job, if it is on the title, is on v; or the whole folder goes.
LEMMA DiskKeeps ==
  ASSUME TypeOK, Shape, [Next]_vars, NEW t \in Titles, t \notin stray',
         NEW v \in Vers, VersionsBounded(t, v),
         pc \in Loaded /\ job.title = t => job.ver = v,
         NEW S \in SUBSET Layout[v], \A p \in S : disk[t][p] = v
  PROVE  (\A p \in S : disk'[t][p] = v) \/ Removed(t)
<1> USE DEF vars, jobVars, flagVars, storeVars, otherVars
<1> DEFINE Kept == \A p \in S : disk'[t][p] = v
<1>0. S \subseteq Positions
  BY LayoutType
<1>1. CASE UNCHANGED disk
  BY <1>1
<1>2. ASSUME NEW u \in Titles, FolderRemoved(u) PROVE Kept \/ Removed(t)
  <2>1. CASE u = t
    BY <1>2, <2>1 DEF FolderRemoved, Removed, InFlight, Loaded, TypeOK
  <2>2. CASE u # t
    BY <1>2, <2>2 DEF FolderRemoved, TypeOK
  <2> QED
    BY <2>1, <2>2
<1>3. ASSUME NEW u \in Titles, DeleteFiles(u) PROVE Kept \/ Removed(t)
  <2>1. PICK F \in SUBSET Files : RemoveFiles(u, F)
    BY <1>3 DEF DeleteFiles
  <2> DEFINE gone == IF u \in located THEN F ELSE {}
  <2>2. disk' = [disk EXCEPT ![u] = [p \in Positions |->
                   IF FileOf[p] \in gone THEN Hole ELSE disk[u][p]]]
    BY <2>1 DEF RemoveFiles
  <2>3. CASE u # t
    BY <2>2, <2>3 DEF TypeOK
  <2>4. CASE u = t /\ gone = {}
    <3>1. \A p \in Positions : disk'[t][p] = disk[t][p]
      BY <2>2, <2>4 DEF TypeOK
    <3> QED
      BY <1>0, <3>1
  <2>5. CASE u = t /\ gone # {}
    <3>1. F = Files /\ ~InFlight(t)
      BY <2>1, <2>5, DeleteInFlight DEF InFlight
    <3>2. gone = Files
      BY <2>5, <3>1
    <3>3. \A p \in Positions : FileOf[p] \in Files
      BY ConstantsAssumption
    <3> HIDE DEF gone
    <3>4. \A p \in Positions : disk'[t][p] = Hole
      BY <2>2, <2>5, <3>2, <3>3 DEF TypeOK
    <3> QED
      BY <1>3, <2>5, <3>1, <3>4 DEF Removed
  <2> QED
    BY <2>3, <2>4, <2>5
<1>4. CASE Validate
  <2>1. \/ disk' = [disk EXCEPT ![job.title] = Finalized(disk[job.title], job.ver)]
        \/ UNCHANGED disk
    BY <1>4 DEF Validate
  <2>2. job.title = t => job.ver = v
    BY <1>4 DEF Validate, Loaded
  <2>3. CASE job.title = t
    BY <1>0, <1>1, <2>1, <2>2, <2>3 DEF Finalized, TypeOK
  <2>4. CASE job.title # t
    BY <1>1, <2>1, <2>4 DEF TypeOK
  <2> QED
    BY <2>3, <2>4
<1>5. ASSUME NEW task \in Task, NEW p \in Positions, NEW okay \in BOOLEAN,
             disk' = DiskAfter(task, p, okay),
             Lands(task, p, okay) /\ task.title = t /\ p \in S => task.ver = v
      PROVE  Kept
  BY <1>0, <1>5 DEF DiskAfter, TypeOK, Task
<1>6. CASE WriteChunk
  <2>1. pending \in Task /\ (pending.title = t => pending.ver = v)
    BY <1>6, PendingIsJobs DEF WriteChunk
  <2> QED
    BY <1>5, <1>6, <2>1 DEF WriteChunk
<1>7. ASSUME NEW d \in detached, DetachedWrite(d) PROVE Kept
  <2>1. PICK p \in Positions, okay \in BOOLEAN :
          /\ disk' = DiskAfter(d, p, okay)
          /\ stray' = IF Lands(d, p, okay) /\ disk[d.title][p] > d.ver
                        THEN stray \cup {d.title} ELSE stray
    BY <1>7 DEF DetachedWrite
  <2>2. d \in Task /\ d.ver \in Int /\ v \in Int
    BY ConstantsAssumption DEF TypeOK, Task, Vers
  <2>3. ASSUME Lands(d, p, okay), d.title = t, p \in S PROVE d.ver = v
    <3>1. ~(v > d.ver)
      BY <2>1, <2>3
    <3>2. d.ver <= v
      BY <2>3 DEF VersionsBounded
    <3> QED
      BY <2>2, <3>1, <3>2
  <2> QED
    BY <1>5, <2>1, <2>2, <2>3
<1> QED
  BY <1>1, <1>2, <1>3, <1>4, <1>6, <1>7, DiskSteps

-----------------------------------------------------------------------------
(* Bits, tasks, repairs and rows stay backed. *)

\* The running job's bytes survive every step.
LEMMA JobKeeps ==
  ASSUME TypeOK, Shape, Versions, [Next]_vars, pc \in Loaded,
         job.title \notin stray',
         NEW S \in SUBSET Layout[job.ver],
         \A p \in S : disk[job.title][p] = job.ver
  PROVE  \A p \in S : disk'[job.title][p] = job.ver
<1>1. PICK t \in Titles, v \in Vers : t = job.title /\ v = job.ver
  BY DEF TypeOK, Job
<1>2. VersionsBounded(t, v)
  BY <1>1 DEF Versions, Pinned
<1>3. ~Removed(t)
  BY <1>1 DEF Removed, InFlight
<1>4. (\A p \in S : disk'[t][p] = v) \/ Removed(t)
  BY <1>1, <1>2, DiskKeeps
<1> QED
  BY <1>1, <1>3, <1>4

\* Where the worker has a bitmap after a step, the job is the one it had before,
\* and the bitmap grew only by what a finished task wrote or by loading a row.
LEMMA BitmapSteps ==
  ASSUME TypeOK, Shape, [Next]_vars, pc' \in Loaded
  PROVE  /\ job' = job
         /\ \/ pc \in Loaded /\ bitmap' \subseteq bitmap
            \/ /\ pc \in Loaded /\ UNCHANGED disk
               /\ pending = NoTask => bitmap' = bitmap
               /\ pending # NoTask => bitmap' = bitmap \cup pending.ok
            \/ LoadBitmap
<1> USE DEF vars, jobVars, flagVars, storeVars, otherVars, Loaded
<1>1. CASE Outside
  BY <1>1, OutsideStep
<1>2. CASE PopJob \/ StopWorker \/ FetchManifest \/ JobFailed \/ JobDone \/ Crash
  BY <1>2 DEF PopJob, StopWorker, FetchManifest, JobFailed, JobDone, Crash
<1>3. CASE LoadBitmap
  BY <1>3 DEF LoadBitmap
<1>4. CASE Activate \/ LoopTop \/ FetchGroup \/ Interrupted \/ EndBatch \/ WriteChunk
  BY <1>4 DEF Activate, LoopTop, FetchGroup, Interrupted, EndBatch, WriteChunk
<1>5. CASE Validate
  BY <1>5 DEF Validate
<1>6. CASE Collect \/ Drain
  <2>1. Account(wjobs) \/ Account(NoJobs)
    BY <1>6 DEF Collect, Drain
  <2>2. pc \in Loaded /\ job' = job /\ UNCHANGED disk
    BY <1>6 DEF Collect, Drain
  <2> QED
    BY <2>1, <2>2 DEF Account
<1> QED
  BY <1>1, <1>2, <1>3, <1>4, <1>5, <1>6 DEF Next, Worker, Outside

\* No step leaves the running job with a bit that is not backed.
LEMMA NextRunSound ==
  ASSUME TypeOK, Shape, Versions, AllBacked, [Next]_vars
  PROVE  RunSound'
<1> SUFFICES ASSUME pc' \in Loaded, job'.title \notin stray'
             PROVE  \A p \in bitmap' : disk'[job'.title][p] = job'.ver
  BY DEF RunSound, Backed
<1>0. job' = job /\ job.title \notin stray /\ job.title \in Titles /\ job.ver \in Vers
  BY BitmapSteps, StrayGrows DEF TypeOK, Job
<1>1. pc \in Loaded => /\ bitmap \in SUBSET Layout[job.ver]
                       /\ \A p \in bitmap : disk[job.title][p] = job.ver
  BY <1>0 DEF Shape, LoopShape, AllBacked, RunSound, Backed
<1>2. CASE pc \in Loaded /\ bitmap' \subseteq bitmap
  BY <1>0, <1>1, <1>2, JobKeeps
<1>3. CASE /\ pc \in Loaded /\ UNCHANGED disk
           /\ pending = NoTask => bitmap' = bitmap
           /\ pending # NoTask => bitmap' = bitmap \cup pending.ok
  <2>1. pending # NoTask => \A p \in pending.ok : disk[job.title][p] = job.ver
    BY <1>0 DEF AllBacked, TaskBacked, Backed
  <2> QED
    BY <1>0, <1>1, <1>3, <2>1
<1>4. CASE LoadBitmap
  <2>1. job.ver \in Current(job.title)
    BY <1>4 DEF LoadBitmap, Current, Pinned
  <2>2. DirExists(job.title) =>
          \A p \in row[job.title][job.ver].have : disk[job.title][p] = job.ver
    BY <1>0, <2>1 DEF AllBacked, RowsBacked, Backed
  <2>3. UNCHANGED disk
    BY <1>4 DEF LoadBitmap, storeVars
  <2>4. bitmap' = {} \/ (DirExists(job.title) /\ bitmap' = row[job.title][job.ver].have)
    BY <1>4 DEF LoadBitmap
  <2> QED
    BY <1>0, <2>2, <2>3, <2>4
<1> QED
  BY <1>2, <1>3, <1>4, BitmapSteps

\* The chunks of a task that are written after a step: the ones written before,
\* and the one a good write landed.
LEMMA OkSteps ==
  ASSUME TypeOK, Shape, Handles, [Next]_vars, pending' # NoTask,
         job'.title \notin stray'
  PROVE  /\ job' = job
         /\ \/ pending'.ok = {}
            \/ pending # NoTask /\ pending'.ok = pending.ok
            \/ /\ pending # NoTask
               /\ \E p \in Positions : /\ pending'.ok = pending.ok \cup {p}
                                       /\ disk'[job.title][p] = job.ver
<1> USE DEF vars, jobVars, flagVars, storeVars, otherVars
<1>1. CASE Outside
  BY <1>1, OutsideStep
<1>2. CASE PopJob \/ StopWorker \/ FetchManifest \/ LoadBitmap \/ Activate
           \/ LoopTop \/ Validate \/ EndBatch \/ JobFailed \/ JobDone
  BY <1>2 DEF PopJob, StopWorker, FetchManifest, LoadBitmap, Activate, LoopTop,
              Validate, EndBatch, JobFailed, JobDone, Shape, TaskShape
<1>3. CASE FetchGroup
  BY <1>3 DEF FetchGroup
<1>4. CASE Collect \/ Drain
  <2>1. Account(wjobs) \/ Account(NoJobs)
    BY <1>4 DEF Collect, Drain
  <2>2. job' = job
    BY <1>4 DEF Collect, Drain
  <2> QED
    BY <2>1, <2>2 DEF Account
<1>5. CASE Interrupted \/ Crash
  BY <1>5 DEF Interrupted, Crash
<1>6. CASE WriteChunk
  <2>1. PICK p \in Positions, okay \in BOOLEAN :
          /\ pending' = TaskAfter(pending, p, okay)
          /\ disk' = DiskAfter(pending, p, okay)
    BY <1>6 DEF WriteChunk
  <2>2. pending # NoTask /\ UNCHANGED <<job, stray>>
    BY <1>6 DEF WriteChunk
  <2>3. /\ pending \in Task /\ pc \in Writing
        /\ pending.title = job.title /\ pending.ver = job.ver
    BY <2>2, PendingIsJobs
  <2>4. NoneUnlinked(pending.fd)
    BY <2>2, <2>3 DEF Handles
  <2>5. FileOf[p] \in Files
    BY ConstantsAssumption
  <2>6. okay => disk'[job.title][p] = job.ver
    <3>1. okay => Lands(pending, p, okay)
      BY <2>4, <2>5 DEF NoneUnlinked, Lands
    <3>2. okay => disk' = [disk EXCEPT ![job.title][p] = job.ver]
      BY <2>1, <2>3, <3>1 DEF DiskAfter
    <3> QED
      BY <3>2 DEF TypeOK, Job
  <2>7. /\ okay => TaskAfter(pending, p, okay).ok = pending.ok \cup {p}
        /\ ~okay => TaskAfter(pending, p, okay).ok = pending.ok
    BY <2>3, TaskAfterType
  <2>8. CASE okay
    BY <2>1, <2>2, <2>6, <2>7, <2>8
  <2>9. CASE ~okay
    BY <2>1, <2>2, <2>7, <2>9
  <2> QED
    BY <2>8, <2>9
<1> QED
  BY <1>1, <1>2, <1>3, <1>4, <1>5, <1>6 DEF Next, Worker, Outside

\* What a write task reports as written stays backed until it is collected.
LEMMA NextTaskBacked ==
  ASSUME TypeOK, Shape, Versions, Handles, AllBacked, [Next]_vars
  PROVE  TaskBacked'
<1> SUFFICES ASSUME pending' # NoTask, job'.title \notin stray'
             PROVE  \A p \in pending'.ok : disk'[job'.title][p] = job'.ver
  BY DEF TaskBacked, Backed
<1>0. job' = job /\ job.title \notin stray
  BY OkSteps, StrayGrows
<1>1. pending # NoTask => \A p \in pending.ok : disk'[job.title][p] = job.ver
  <2>1. SUFFICES ASSUME pending # NoTask
                 PROVE  \A p \in pending.ok : disk'[job.title][p] = job.ver
    OBVIOUS
  <2>2. pc \in Loaded /\ pending.ok \in SUBSET Layout[job.ver]
    BY <2>1, PendingIsJobs DEF Shape, TaskShape
  <2>3. \A p \in pending.ok : disk[job.title][p] = job.ver
    BY <1>0, <2>1 DEF AllBacked, TaskBacked, Backed
  <2> QED
    BY <1>0, <2>2, <2>3, JobKeeps
<1> QED
  BY <1>0, <1>1, OkSteps

\* A version that counts after a step counted before it, or was published in it.
LEMMA CurrentSteps ==
  ASSUME TypeOK, Shape, [Next]_vars, NEW t \in Titles, NEW v \in Current(t)'
  PROVE  v \in Vers /\ (v \in Current(t) \/ v = published'[t])
<1>0. TypeOK'
  BY NextTypeOK
<1>1. CASE v = published'[t]
  BY <1>0, <1>1 DEF TypeOK
<1>2. CASE pc' \in Pinned /\ job'.title = t /\ v = job'.ver
  BY <1>2, PinnedSteps DEF Current, TypeOK, Job
<1> QED
  BY <1>1, <1>2 DEF Current

\* A version that counts bounds the title's rows, bytes, tasks and repairs, or
\* it is newer than the job on the title and has no trace yet.
LEMMA CurrentBounded ==
  ASSUME TypeOK, Versions, NEW t \in Titles, NEW v \in Current(t)
  PROVE  /\ v \in Vers /\ VersionsBounded(t, v)
         /\ \/ pc \in Loaded /\ job.title = t => job.ver = v
            \/ /\ row[t][v] = NoRow
               /\ \A r \in repairs : r.title = t => r.ver # v
<1>1. v \in Vers /\ VersionsBounded(t, v)
  BY DEF Current, Versions, TypeOK, Job
<1>2. CASE pc \in Loaded /\ job.title = t /\ job.ver # v
  <2>1. v = published[t] /\ job.ver <= v /\ VersionsBounded(t, job.ver)
    BY <1>2 DEF Current, Versions, Pinned
  <2>2. job.ver \in Int /\ v \in Int /\ job.ver < v
    BY <1>1, <1>2, <2>1, ConstantsAssumption DEF TypeOK, Job, Vers
  <2>3. row[t][v] = NoRow
    BY <1>1, <2>1, <2>2 DEF VersionsBounded
  <2>4. \A r \in repairs : r.title = t => r.ver <= job.ver
    BY <2>1 DEF VersionsBounded
  <2>5. \A r \in repairs : r.title = t => r.ver # v
    BY <2>2, <2>4
  <2> QED
    BY <1>1, <2>3, <2>5
<1> QED
  BY <1>1, <1>2

\* What a repair found good stays backed until it saves the row.
LEMMA NextRepairsBacked ==
  ASSUME TypeOK, Shape, Versions, AllBacked, [Next]_vars
  PROVE  RepairsBacked'
<1> SUFFICES ASSUME NEW r \in repairs', r.title \notin stray',
                    r.ver \in Current(r.title)'
             PROVE  \A p \in r.good : disk'[r.title][p] = r.ver
  BY DEF RepairsBacked, Backed
<1>1. CASE r \in repairs
  <2>1. r.title \in Titles /\ r.ver \in Vers /\ r.title \notin stray
    BY <1>1, StrayGrows DEF TypeOK, Repair
  <2>2. r.ver \in Current(r.title)
    <3>1. r.ver \in Current(r.title) \/ r.ver = published'[r.title]
      BY <2>1, CurrentSteps
    <3>2. /\ r.ver \in Int /\ published[r.title] \in Int /\ published'[r.title] \in Int
          /\ r.ver <= published[r.title] /\ published[r.title] <= published'[r.title]
      <4>1. TypeOK'
        BY NextTypeOK
      <4>2. r.ver <= published[r.title]
        BY <1>1, <2>1 DEF Versions, VersionsBounded
      <4>3. published[r.title] <= published'[r.title]
        BY <2>1, PublishedGrows
      <4> QED
        BY <2>1, <4>1, <4>2, <4>3, ConstantsAssumption DEF TypeOK, Vers
    <3>3. r.ver = published'[r.title] => r.ver = published[r.title]
      BY <3>2
    <3> QED
      BY <3>1, <3>3 DEF Current
  <2>3. \A p \in r.good : disk[r.title][p] = r.ver
    BY <1>1, <2>1, <2>2 DEF AllBacked, RepairsBacked, Backed
  <2>4. /\ VersionsBounded(r.title, r.ver)
        /\ pc \in Loaded /\ job.title = r.title => job.ver = r.ver
    BY <1>1, <2>1, <2>2, CurrentBounded
  <2>5. r.good \in SUBSET Layout[r.ver]
    BY <1>1 DEF Shape, RepairShape
  <2>6. ~Removed(r.title)
    BY <1>1 DEF Removed, InFlight
  <2> QED
    BY <2>1, <2>3, <2>4, <2>5, <2>6, DiskKeeps
<1>2. CASE /\ r.good \subseteq {p \in Positions : disk[r.title][p] = r.ver}
           /\ UNCHANGED <<published, disk, stray>>
  BY <1>2
<1> QED
  BY <1>1, <1>2, RepairSteps

\* A save changes one row.
LEMMA SaveRowHave ==
  ASSUME TypeOK, NEW x \in Titles, NEW w \in Vers, NEW status, NEW have,
         SaveRow(x, w, status, have), NEW t \in Titles, NEW v \in Vers
  PROVE  /\ x = t /\ w = v => row'[t][v].have = have
         /\ ~(x = t /\ w = v) => row'[t][v] = row[t][v]
BY DEF SaveRow, TypeOK

\* Where the bits of a row come from: the row itself, the running job's bitmap,
\* or a repair.
LEMMA RowSteps ==
  ASSUME TypeOK, Shape, [Next]_vars, NEW t \in Titles, NEW v \in Vers
  PROVE  \/ row'[t][v].have \subseteq row[t][v].have
         \/ /\ pc \in Loaded /\ job.title = t /\ job.ver = v
            /\ row'[t][v].have \subseteq bitmap
         \/ /\ \E r \in repairs : /\ r.title = t /\ r.ver = v
                                   /\ row'[t][v].have = r.good
            /\ UNCHANGED disk
<1> USE DEF vars, jobVars, flagVars, storeVars, otherVars
<1> DEFINE Less == row'[t][v].have \subseteq row[t][v].have
           Bits == /\ pc \in Loaded /\ job.title = t /\ job.ver = v
                   /\ row'[t][v].have \subseteq bitmap
           Rep  == /\ \E r \in repairs : /\ r.title = t /\ r.ver = v
                                         /\ row'[t][v].have = r.good
                   /\ UNCHANGED disk
<1>0. job.title \in Titles /\ job.ver \in Vers
  BY DEF TypeOK, Job
<1>1. ASSUME pc \in Loaded, NEW status, NEW have \in SUBSET bitmap,
             Persist(status, have)
      PROVE  Less \/ Bits
  <2>1. SaveRow(job.title, job.ver, status, have)
    BY <1>1 DEF Persist
  <2>2. /\ job.title = t /\ job.ver = v => row'[t][v].have = have
        /\ ~(job.title = t /\ job.ver = v) => row'[t][v] = row[t][v]
    BY <1>0, <2>1, SaveRowHave
  <2> QED
    BY <1>1, <2>2
<1>2. UNCHANGED row => Less
  OBVIOUS
<1>3. ASSUME NEW x \in Titles, row' = NoRowsOf(x) PROVE Less
  BY <1>3 DEF NoRowsOf, NoRow, TypeOK
<1>4. ASSUME NEW x \in Titles, NEW w \in Vers, BeginDownload(x, w) PROVE Less
  BY <1>2, <1>3, <1>4 DEF BeginDownload
<1>5. ASSUME NEW x \in Titles, DeleteRows(x) PROVE Less
  BY <1>3, <1>5 DEF DeleteRows
<1>6. ASSUME NEW r \in repairs, RepairSave(r) PROVE Less \/ Rep
  <2>1. r.title \in Titles /\ r.ver \in Vers
    BY DEF TypeOK, Repair
  <2>2. SaveRow(r.title, r.ver, "paused", r.good) /\ UNCHANGED disk
    BY <1>6 DEF RepairSave
  <2>3. /\ r.title = t /\ r.ver = v => row'[t][v].have = r.good
        /\ ~(r.title = t /\ r.ver = v) => row'[t][v] = row[t][v]
    BY <2>1, <2>2, SaveRowHave
  <2> QED
    BY <2>2, <2>3
<1>7. CASE Activate \/ Interrupted
  <2>1. pc \in Loaded /\ Persist("active", bitmap)
    BY <1>7 DEF Activate, Interrupted, Loaded
  <2> QED
    BY <1>1, <2>1
<1>8. CASE LoopTop \/ EndBatch
  <2>1. pc \in Loaded
    BY <1>8 DEF LoopTop, EndBatch, Loaded
  <2>2. Persist("paused", bitmap) \/ Persist("active", bitmap) \/ UNCHANGED row
    BY <1>8 DEF LoopTop, EndBatch
  <2> QED
    BY <1>1, <1>2, <2>1, <2>2
<1>9. CASE Validate
  <2> DEFINE left == {p \in bitmap : FileOf[p] \notin
                        FailedFiles(Finalized(disk[job.title], job.ver), job.ver)}
  <2>1. pc \in Loaded /\ left \in SUBSET bitmap
    BY <1>9 DEF Validate, Loaded
  <2> HIDE DEF left
  <2>2. \/ Persist("complete", bitmap) \/ Persist("error", left)
        \/ Persist("active", left) \/ UNCHANGED row
    BY <1>9 DEF Validate, left
  <2> QED
    BY <1>1, <1>2, <2>1, <2>2
<1>10. CASE JobFailed
  <2>1. CASE UNCHANGED row
    BY <1>2, <2>1
  <2>2. CASE SaveRow(job.title, job.ver, "error", row[job.title][job.ver].have)
    <3>1. /\ job.title = t /\ job.ver = v => row'[t][v].have = row[job.title][job.ver].have
          /\ ~(job.title = t /\ job.ver = v) => row'[t][v] = row[t][v]
      BY <1>0, <2>2, SaveRowHave
    <3> QED
      BY <3>1
  <2> QED
    BY <1>10, <2>1, <2>2 DEF JobFailed, Persist
<1>11. ASSUME NEW x \in Titles,
              \/ Publish(x) \/ FolderRemoved(x) \/ PauseDownload(x)
              \/ CancelDownload(x) \/ DeleteFiles(x) \/ RepairScan(x)
              \/ \E w \in Vers : ResumeDownload(x, w)
       PROVE  UNCHANGED row
  BY <1>11 DEF Publish, FolderRemoved, PauseDownload, CancelDownload,
               DeleteFiles, RepairScan, ResumeDownload
<1>12. CASE PopJob \/ StopWorker \/ FetchManifest \/ LoadBitmap \/ FetchGroup
              \/ Collect \/ Drain \/ JobDone \/ WriteChunk \/ Crash
              \/ (\E d \in detached : DetachedWrite(d)) \/ UNCHANGED vars
  BY <1>2, <1>12 DEF PopJob, StopWorker, FetchManifest, LoadBitmap, FetchGroup,
                     Collect, Drain, JobDone, WriteChunk, Crash, DetachedWrite
<1> QED
  BY <1>2, <1>4, <1>5, <1>6, <1>7, <1>8, <1>9, <1>10, <1>11, <1>12
  DEF Next, User, Worker

\* Where the worker gets a writer.
LEMMA WritingSteps ==
  ASSUME TypeOK, Shape, [Next]_vars, pc' \in Writing
  PROVE  job' = job /\ (pc \in Writing \/ Activate)
<1> USE DEF vars, jobVars, flagVars, storeVars, otherVars, Writing, Loaded
<1>1. CASE Outside
  BY <1>1, OutsideStep
<1>2. CASE PopJob \/ StopWorker \/ FetchManifest \/ LoadBitmap \/ JobFailed
           \/ JobDone \/ Crash
  BY <1>2 DEF PopJob, StopWorker, FetchManifest, LoadBitmap, JobFailed, JobDone, Crash
<1>3. CASE Activate \/ LoopTop \/ FetchGroup \/ Interrupted \/ EndBatch
           \/ Collect \/ Drain
  BY <1>3 DEF Activate, LoopTop, FetchGroup, Interrupted, EndBatch, Collect, Drain
<1>4. CASE Validate
  BY <1>4 DEF Validate
<1>5. CASE WriteChunk
  BY <1>5 DEF WriteChunk
<1> QED
  BY <1>1, <1>2, <1>3, <1>4, <1>5 DEF Next, Worker, Outside

\* An empty folder that no one is about to write into stays so, until a job on
\* the title gets a writer.
LEMMA QuietStays ==
  ASSUME TypeOK, Shape, [Next]_vars, NEW t \in Titles,
         ~DirExists(t), Quiet(t), ~(Activate /\ job.title = t)
  PROVE  ~DirExists(t)' /\ Quiet(t)'
<1>0. \A p \in Positions : disk[t][p] = Hole
  BY DEF DirExists
<1>1. \A p \in Positions : disk'[t][p] = Hole
  <2>1. CASE UNCHANGED disk
    BY <1>0, <2>1
  <2>2. ASSUME NEW u \in Titles, FolderRemoved(u)
        PROVE  \A p \in Positions : disk'[t][p] = Hole
    BY <1>0, <2>2 DEF FolderRemoved, TypeOK
  <2>3. ASSUME NEW u \in Titles, DeleteFiles(u)
        PROVE  \A p \in Positions : disk'[t][p] = Hole
    BY <1>0, <2>3 DEF DeleteFiles, RemoveFiles, TypeOK
  <2>4. CASE Validate
    <3>1. job.title # t
      BY <2>4 DEF Quiet, Validate, Writing, Loaded
    <3>2. \/ disk' = [disk EXCEPT ![job.title] = Finalized(disk[job.title], job.ver)]
          \/ UNCHANGED disk
      BY <2>4 DEF Validate
    <3> QED
      BY <1>0, <3>1, <3>2 DEF TypeOK
  <2>5. ASSUME NEW task \in Task, NEW p \in Positions, NEW okay \in BOOLEAN,
               disk' = DiskAfter(task, p, okay), task.title # t
        PROVE  \A q \in Positions : disk'[t][q] = Hole
    BY <1>0, <2>5 DEF DiskAfter, TypeOK, Task
  <2>6. CASE WriteChunk
    BY <2>5, <2>6, PendingIsJobs DEF WriteChunk, Quiet
  <2>7. ASSUME NEW d \in detached, DetachedWrite(d)
        PROVE  \A p \in Positions : disk'[t][p] = Hole
    BY <2>5, <2>7 DEF DetachedWrite, Quiet, TypeOK
  <2> QED
    BY <2>1, <2>2, <2>3, <2>4, <2>6, <2>7, DiskSteps
<1>2. ASSUME NEW e \in detached' PROVE e.title # t
  <2>1. CASE \E d \in detached : e.title = d.title
    BY <2>1 DEF Quiet
  <2>2. CASE pending # NoTask /\ e = pending
    BY <2>2, PendingIsJobs DEF Quiet
  <2> QED
    BY <2>1, <2>2, DetachedSteps
<1>3. pc' \in Writing => job'.title # t
  BY WritingSteps DEF Quiet
<1> QED
  BY <1>1, <1>2, <1>3 DEF DirExists, Quiet

\* No step leaves a current row ahead of the disk.
LEMMA NextRowsBacked ==
  ASSUME TypeOK, Shape, Versions, AllBacked, [Next]_vars
  PROVE  RowsBacked'
<1> DEFINE Have(t, v) == \A p \in row'[t][v].have : disk'[t][p] = v
<1> SUFFICES ASSUME NEW t \in Titles, t \notin stray', NEW v \in Current(t)'
             PROVE  Have(t, v) \/ (~DirExists(t)' /\ Quiet(t)')
  BY DEF RowsBacked, Backed
<1>0. t \notin stray /\ v \in Vers /\ (v \in Current(t) \/ v = published'[t])
  BY StrayGrows, CurrentSteps
<1> HIDE DEF Have
<1>1. row[t][v] = NoRow /\ row'[t][v].have \subseteq row[t][v].have => Have(t, v)
  BY DEF NoRow, Have
<1>2. ASSUME pc \in Loaded, job.title = t, job.ver = v, row'[t][v].have \subseteq bitmap
      PROVE  Have(t, v)
  <2>1. /\ bitmap \in SUBSET Layout[job.ver]
        /\ \A p \in bitmap : disk[job.title][p] = job.ver
    BY <1>0, <1>2 DEF Shape, LoopShape, AllBacked, RunSound, Backed
  <2>2. \A p \in bitmap : disk'[job.title][p] = job.ver
    BY <1>2, <2>1, JobKeeps
  <2> QED
    BY <1>2, <2>2 DEF Have
<1>3. CASE v \notin Current(t)
  <2>1. v = published'[t] /\ v # published[t]
    BY <1>0, <1>3 DEF Current
  <2>2. v \in Int /\ published[t] \in Int /\ published[t] < v
    <3>1. published[t] <= v
      BY <2>1, PublishedGrows
    <3> QED
      BY <1>0, <2>1, <3>1, ConstantsAssumption DEF TypeOK, Vers
  <2>3. row[t][v] = NoRow
    BY <1>0, <2>2 DEF Versions, VersionsBounded
  <2>4. \A r \in repairs : r.title = t => r.ver # v
    <3>1. \A r \in repairs : r.title = t => r.ver <= published[t]
      BY DEF Versions, VersionsBounded
    <3> QED
      BY <2>2, <3>1
  <2> QED
    BY <1>0, <1>1, <1>2, <2>3, <2>4, RowSteps
<1>4. ASSUME v \in Current(t), row'[t][v].have \subseteq row[t][v].have
      PROVE  Have(t, v) \/ (~DirExists(t)' /\ Quiet(t)')
  <2>1. \/ pc \in Loaded /\ job.title = t => job.ver = v
        \/ row[t][v] = NoRow
    BY <1>4, CurrentBounded
  <2>2. CASE Backed(t, v, row[t][v].have) /\ row[t][v] # NoRow
    <3>1. VersionsBounded(t, v)
      BY <1>4, CurrentBounded
    <3>2. row[t][v].have \in SUBSET Layout[v]
      BY <1>0 DEF Shape, RowShape
    <3>3. \A p \in row[t][v].have : disk[t][p] = v
      BY <2>2 DEF Backed
    <3>4. (\A p \in row[t][v].have : disk'[t][p] = v) \/ Removed(t)
      BY <1>0, <2>1, <2>2, <3>1, <3>2, <3>3, DiskKeeps
    <3>5. CASE Removed(t)
      <4>1. ~DirExists(t)'
        BY <3>5 DEF Removed, DirExists
      <4>2. \A e \in detached' : e.title # t
        BY <3>5, DetachedSteps, PendingIsJobs DEF Removed, InFlight
      <4>3. pc' \in Writing => job'.title # t
        BY <3>5, WritingSteps DEF Removed, InFlight, Writing, Loaded, Activate
      <4> QED
        BY <4>1, <4>2, <4>3 DEF Quiet
    <3>6. CASE \A p \in row[t][v].have : disk'[t][p] = v
      BY <1>4, <3>6 DEF Have
    <3> QED
      BY <3>4, <3>5, <3>6
  <2>3. CASE ~DirExists(t) /\ Quiet(t) /\ row[t][v] # NoRow
    <3>1. CASE Activate /\ job.title = t
      <4>1. pc \in Loaded /\ job.ver = v
        BY <2>1, <2>3, <3>1 DEF Activate, Loaded
      <4>2. SaveRow(job.title, job.ver, "active", bitmap)
        BY <3>1 DEF Activate, Persist
      <4>3. row'[t][v].have = bitmap
        BY <1>0, <3>1, <4>1, <4>2, SaveRowHave
      <4> QED
        BY <1>2, <3>1, <4>1, <4>3
    <3> QED
      BY <2>3, <3>1, QuietStays
  <2> QED
    BY <1>0, <1>1, <1>4, <2>2, <2>3 DEF AllBacked, RowsBacked
<1>5. ASSUME v \in Current(t), UNCHANGED disk,
             NEW r \in repairs, r.title = t, r.ver = v, row'[t][v].have = r.good
      PROVE  Have(t, v)
  BY <1>0, <1>5 DEF AllBacked, RepairsBacked, Backed, Have
<1> QED
  BY <1>0, <1>2, <1>3, <1>4, <1>5, RowSteps

-----------------------------------------------------------------------------
(* The theorems. *)

\* The invariant holds when the client starts with an empty database.
LEMMA InitIndInv == Init => IndInv
<1> SUFFICES ASSUME Init PROVE IndInv
  OBVIOUS
<1>1. TypeOK
  <2>1. NoRow \in Row /\ AllClosed \in [Files -> Handle]
    BY DEF NoRow, Row, Status, AllClosed, Handle
  <2>2. 1 \in Vers /\ 0 \in Nat /\ 0 \in 0..MaxTries
    BY ConstantsAssumption DEF Vers
  <2>3. NoJobs \in [good : SUBSET Positions, bad : SUBSET Positions]
    BY DEF NoJobs
  <2> QED
    BY <2>1, <2>2, <2>3 DEF Init, TypeOK, Pcs
<1>2. Shape
  BY DEF Init, Shape, TaskShape, LoopShape, RowShape, RepairShape, Loaded, Writing, NoRow
<1>3. Versions
  BY DEF Init, Versions, VersionsBounded, Pinned, Loaded
<1>4. Handles
  BY DEF Init, Handles, Writing, Loaded
<1>5. AllBacked
  <2>1. RunSound /\ TaskBacked /\ RepairsBacked
    BY DEF Init, RunSound, TaskBacked, RepairsBacked, Loaded
  <2>2. RowsBacked
    BY <1>1 DEF Init, RowsBacked, DirExists, Quiet, Writing, Loaded
  <2> QED
    BY <2>1, <2>2 DEF AllBacked
<1> QED
  BY <1>1, <1>2, <1>3, <1>4, <1>5 DEF IndInv

\* The strengthened invariant holds in every reachable state: types, the shape of
\* run_job's locals, the bounds on versions, the handles and the backing of every
\* bit, for any number of titles, versions and chunks and any batch sizes.
THEOREM Invariance == Spec => []IndInv
<1>1. Init => IndInv
  BY InitIndInv
<1>2. IndInv /\ [Next]_vars => IndInv'
  BY NextTypeOK, NextShape, NextVersions, NextHandles, NextRunSound,
     NextTaskBacked, NextRepairsBacked, NextRowsBacked DEF IndInv, AllBacked
<1> QED
  BY <1>1, <1>2, PTL DEF Spec

\* Every variable keeps its type; in particular run_job counts at most MaxTries
\* failed validations.
THEOREM TypeCorrect == Spec => []TypeOK
<1>1. IndInv => TypeOK
  BY DEF IndInv
<1> QED
  BY <1>1, Invariance, PTL

\* The running job's bitmap never claims a chunk whose verified bytes are not on
\* disk, whatever interleaving of groups, writes, pauses, crashes and deletes.
THEOREM BitmapSoundness == Spec => []RunSound
<1>1. IndInv => RunSound
  BY DEF IndInv, AllBacked
<1> QED
  BY <1>1, Invariance, PTL

\* What a later session resumes from is backed by bytes on disk.
THEOREM ResumeSoundness == Spec => []ResumeSound
<1>1. IndInv => ResumeSound
  BY DEF IndInv, AllBacked, RowsBacked, Current, ResumeSound
<1> QED
  BY <1>1, Invariance, PTL

\* A title shown as complete on the offered version is whole on disk.
THEOREM CompleteSoundness == Spec => []CompleteIsWhole
<1>1. IndInv => CompleteIsWhole
  <2> SUFFICES ASSUME IndInv, NEW t \in Titles \ stray,
                      row[t][published[t]].status = "complete", DirExists(t)
               PROVE  Backed(t, published[t], Layout[published[t]])
    BY DEF CompleteIsWhole
  <2>1. published[t] \in Vers
    BY DEF IndInv, TypeOK
  <2>2. row[t][published[t]].have = Layout[published[t]]
    BY <2>1 DEF IndInv, Shape, RowShape
  <2>3. Backed(t, published[t], row[t][published[t]].have)
    BY DEF IndInv, AllBacked, RowsBacked, Current
  <2> QED
    BY <2>2, <2>3
<1> QED
  BY <1>1, Invariance, PTL

-----------------------------------------------------------------------------
(* The server that the client is checked against is the one that Library    *)
(* implements: see OffersStand there.                                       *)

\* The version on offer of a title is the one published.
LEMMA OfferedVersion ==
  ASSUME NEW n
  PROVE  Server!VersionOf([ver |-> n]) = n
BY DEF Server!VersionOf

\* One version more is one version more on offer, of that title alone.
LEMMA RaiseIsPublish ==
  ASSUME TypeOK, TypeOK', NEW t \in Titles
  PROVE  Server!Raise(t) <=> published' = [published EXCEPT ![t] = @ + 1]
<1>1. /\ published \in [Titles -> Vers] /\ published' \in [Titles -> Vers]
      /\ published[t] \in Int /\ published'[t] \in Int
  BY ConstantsAssumption DEF TypeOK, Vers
<1> DEFINE offer == [u \in Titles |-> [ver |-> published[u]]]
           later == [u \in Titles |-> [ver |-> published'[u]]]
<1>2. /\ Server!VersionOf(offer[t]) = published[t]
      /\ Server!VersionOf(later[t]) = published'[t]
  BY OfferedVersion
<1>3. Server!Raise(t) <=> /\ Server!VersionOf(later[t]) = Server!VersionOf(offer[t]) + 1
                          /\ later = [offer EXCEPT ![t] = later[t]]
  BY DEF Server!Raise
<1>4. later = [offer EXCEPT ![t] = later[t]]
        <=> \A u \in Titles \ {t} : published'[u] = published[u]
  <2>1. ASSUME NEW u \in Titles
        PROVE  /\ (later[u] = offer[u]) <=> (published'[u] = published[u])
               /\ [offer EXCEPT ![t] = later[t]][u] = IF u = t THEN later[t] ELSE offer[u]
    <3>1. later[u].ver = published'[u] /\ offer[u].ver = published[u]
      OBVIOUS
    <3> QED
      BY <3>1
  <2> HIDE DEF offer, later
  <2>2. /\ later = [u \in Titles |-> later[u]]
        /\ [offer EXCEPT ![t] = later[t]]
             = [u \in Titles |-> [offer EXCEPT ![t] = later[t]][u]]
    BY DEF offer, later
  <2> QED
    BY <2>1, <2>2
<1> QED
  BY <1>1, <1>2, <1>3, <1>4

\* Whatever the client does, the server it talks to keeps the promise of
\* TitleServer: Publish raises one version by one, nothing else touches it.
THEOREM EnvironmentKeepsPromise == Spec => Server!ServerSpec
<1>1. Init => Server!ServerInit
  BY OfferedVersion DEF Init, Server!ServerInit
<1>2. TypeOK /\ TypeOK' /\ [Next]_vars => [Server!ServerNext]_(Server!serverVars)
  <2> SUFFICES ASSUME TypeOK, TypeOK', [Next]_vars
               PROVE  [Server!ServerNext]_(Server!serverVars)
    OBVIOUS
  <2>1. CASE UNCHANGED published
    BY <2>1 DEF Server!serverVars
  <2>2. ASSUME NEW t \in Titles, Publish(t)
        PROVE  Server!ServerNext
    BY <2>2, RaiseIsPublish DEF Publish, Server!ServerNext
  <2> QED
    BY <2>1, <2>2, OnlyPublish
<1> QED
  BY <1>1, <1>2, TypeCorrect, PTL DEF Spec, Server!ServerSpec

\* And it is as free as TitleServer allows: with the client at rest, a version
\* that TitleServer may offer next, up to MaxVer, is one that Publish offers.
THEOREM EnvironmentIsServer ==
  ASSUME TypeOK, TypeOK', NEW t \in Titles, Server!Raise(t),
         UNCHANGED <<queue, pc, job, flagVars, jobVars, storeVars, otherVars>>
  PROVE  Publish(t)
<1>1. published' = [published EXCEPT ![t] = @ + 1]
  BY RaiseIsPublish
<1>2. published[t] \in Int /\ published'[t] \in 1..MaxVer
  BY ConstantsAssumption DEF TypeOK, Vers
<1>3. published'[t] = published[t] + 1
  BY <1>1 DEF TypeOK
<1> QED
  BY <1>1, <1>2, <1>3, ConstantsAssumption DEF Publish

=============================================================================
