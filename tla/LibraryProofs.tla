---------------------------- MODULE LibraryProofs ----------------------------
(* Proofs about Library: the fast check is sound for any number of scans, and *)
(* while scans do not overlap what is served follows the table.               *)
EXTENDS Library, TLAPS

\* One-line names that every proof sees through.
USE DEF NewVersion, SameStat, HasManifest, Reloaded

-----------------------------------------------------------------------------
(* Types. *)

\* Entries of a listing, and none at all.
LEMMA EmptyType == Empty \in Listing
BY DEF Empty, Listing

\* The entries of a manifest that may be missing.
LEMMA OldEntriesType ==
  ASSUME NEW m \in Manifest \cup {None}
  PROVE  OldEntries(m) \in Listing
BY EmptyType DEF OldEntries, Manifest

\* A row holds a manifest.
LEMMA ManifestOfType ==
  ASSUME NEW r \in Row
  PROVE  ManifestOf(r) \in Manifest
BY DEF ManifestOf, Row, Manifest

\* A file written now is a file.
LEMMA WrittenType ==
  ASSUME TypeOK, Tick, NEW d \in Data
  PROVE  /\ Written(d) \in File
         /\ Written(d).mtime = clock + 1 /\ clock' \in Clock /\ clock' = clock + 1
BY LibraryAssumption DEF Written, File, Tick, TypeOK, DiskType, Clock

\* A changed listing is a listing.
LEMMA ListingExcept ==
  ASSUME NEW l \in Listing, NEW f \in Files, NEW x \in File \cup {None}
  PROVE  [l EXCEPT ![f] = x] \in Listing
BY DEF Listing

\* Changing a file of a tree leaves a tree.
LEMMA TreeExcept ==
  ASSUME NEW T \in [Titles -> Tree \cup {None}], NEW t \in Titles, T[t] # None,
         NEW f \in Files, NEW x \in File \cup {None}
  PROVE  /\ [T EXCEPT ![t].files[f] = x] \in [Titles -> Tree \cup {None}]
         /\ \A u \in Titles \ {t} : [T EXCEPT ![t].files[f] = x][u] = T[u]
         /\ [T EXCEPT ![t].files[f] = x][t] # None
         /\ [T EXCEPT ![t].files[f] = x][t].files = [T[t].files EXCEPT ![f] = x]
<1>1. T[t] \in Tree
  OBVIOUS
<1>2. [T[t].files EXCEPT ![f] = x] \in Listing
  BY <1>1, ListingExcept DEF Tree
<1>3. [T[t] EXCEPT !.files[f] = x] \in Tree
  BY <1>1, <1>2 DEF Tree
<1> QED
  BY <1>1, <1>3, NoneAssumption DEF Tree

\* Changing the sidecar of a tree leaves a tree with its files.
LEMMA InfoExcept ==
  ASSUME NEW T \in [Titles -> Tree \cup {None}], NEW t \in Titles, T[t] # None,
         NEW i \in Infos
  PROVE  /\ [T EXCEPT ![t].info = i] \in [Titles -> Tree \cup {None}]
         /\ \A u \in Titles \ {t} : [T EXCEPT ![t].info = i][u] = T[u]
         /\ [T EXCEPT ![t].info = i][t] # None
         /\ [T EXCEPT ![t].info = i][t].files = T[t].files
<1>1. [T[t] EXCEPT !.info = i] \in Tree
  BY DEF Tree
<1> QED
  BY <1>1, NoneAssumption DEF Tree

\* What hash_one_file adds to the new manifest: the old entry, or the time and
\* size of the walk with the data of now.
LEMMA HashedType ==
  ASSUME TypeOK, NEW s \in Scanners, NEW f \in Files, HashFile(s, f)
  PROVE  /\ cur[s] \in Titles /\ walked[s][f] \in Stat
         /\ lib[cur[s]] # None /\ lib[cur[s]].files[f] \in File
         /\ Entry(walked[s][f], lib[cur[s]].files[f].data) \in File
         /\ built' \in [Scanners -> Listing]
         /\ \A r \in Scanners, g \in Files :
              built'[r][g] # built[r][g] =>
                /\ r = s /\ g = f
                /\ built'[r][g] \in {OldEntries(prev[s])[f],
                                     Entry(walked[s][f], lib[cur[s]].files[f].data)}
<1> DEFINE e == Entry(walked[s][f], lib[cur[s]].files[f].data)
           old == OldEntries(prev[s])[f]
           x == IF SameContent(e, old) THEN old ELSE e
<1>1. cur[s] \in Titles
  BY DEF HashFile, TypeOK, ScanType, AtTitle
<1>2. old \in File \cup {None}
  BY OldEntriesType DEF TypeOK, TitleType, Listing
<1>3. lib[cur[s]] # None /\ lib[cur[s]].files[f] \in File
  BY <1>1 DEF HashFile, TypeOK, DiskType, Tree, Listing
<1>4. walked[s][f] \in Stat
  BY DEF HashFile, ToHash, TypeOK, TitleType
<1>5. e \in File
  BY <1>3, <1>4 DEF Entry, Stat, File
<1>6. x \in File /\ x \in {old, e}
  BY <1>2, <1>5 DEF SameContent
<1>7. built' = [built EXCEPT ![s][f] = x]
  BY DEF HashFile
<1>8. [built[s] EXCEPT ![f] = x] \in Listing
  BY <1>6, ListingExcept DEF TypeOK, TitleType
<1> HIDE DEF x
<1>9. built' \in [Scanners -> Listing]
  BY <1>7, <1>8 DEF TypeOK, TitleType
<1>10. \A r \in Scanners, g \in Files :
         built'[r][g] # built[r][g] => r = s /\ g = f /\ built'[r][g] = x
  BY <1>7 DEF TypeOK, TitleType, Listing
<1> QED
  BY <1>1, <1>3, <1>4, <1>5, <1>6, <1>9, <1>10

\* The end of a title's scan keeps the types of the locals.
LEMMA EndTitleType ==
  ASSUME TypeOK, NEW s \in Scanners, EndTitle(s), UNCHANGED <<todo, seen, gone>>
  PROVE  ScanType' /\ TitleType' /\ AtTitle'
<1>1. Empty \in Listing /\ Empty \in [Files -> Stat \cup {None}]
  BY EmptyType DEF Empty
<1>2. ScanType' /\ AtTitle'
  BY DEF EndTitle, Goto, TypeOK, ScanType, AtTitle, TitleType
<1>3. TitleType'
  BY <1>1 DEF EndTitle, TypeOK, TitleType
<1> QED
  BY <1>2, <1>3

\* A group of variables that does not change keeps its type.
LEMMA UnchangedType ==
  ASSUME TypeOK
  PROVE  /\ UNCHANGED diskVars => DiskType'
         /\ UNCHANGED <<row, cache>> => TableType'
         /\ UNCHANGED scanVars => ScanType' /\ TitleType' /\ AtTitle'
         /\ UNCHANGED watchVars => WatchType'
         /\ UNCHANGED histVars => HistType'
BY DEF TypeOK, DiskType, TableType, ScanType, TitleType, AtTitle, WatchType,
       HistType, diskVars, scanVars, watchVars, histVars

\* The steps of the admin and of the watcher keep the types.
LEMMA DiskStepType ==
  ASSUME TypeOK, Folders \/ Watcher
  PROVE  TypeOK' /\ UNCHANGED <<row, cache, scanVars, histVars>>
<1>1. CASE \E t \in Titles, f \in Files, d \in Data : WriteFile(t, f, d)
  <2> PICK t \in Titles, f \in Files, d \in Data : WriteFile(t, f, d)
    BY <1>1
  <2>1. lib' \in [Titles -> Tree \cup {None}]
    BY TreeExcept, WrittenType DEF WriteFile, TypeOK, DiskType
  <2>2. DiskType'
    BY <2>1, WrittenType DEF WriteFile, TypeOK, DiskType
  <2> QED
    BY <2>2, UnchangedType DEF WriteFile, TypeOK
<1>2. CASE \E t \in Titles, f \in Files : RemoveFile(t, f)
  <2> PICK t \in Titles, f \in Files : RemoveFile(t, f)
    BY <1>2
  <2>1. DiskType'
    BY TreeExcept DEF RemoveFile, TypeOK, DiskType
  <2> QED
    BY <2>1, UnchangedType DEF RemoveFile, TypeOK
<1>3. CASE \E t \in Titles, i \in Infos : EditSidecar(t, i)
  <2> PICK t \in Titles, i \in Infos : EditSidecar(t, i)
    BY <1>3
  <2>1. DiskType'
    BY InfoExcept DEF EditSidecar, TypeOK, DiskType
  <2> QED
    BY <2>1, UnchangedType DEF EditSidecar, TypeOK
<1>4. CASE \E t \in Titles, f \in Files, d \in Data, i \in Infos : AddFolder(t, f, d, i)
  <2> PICK t \in Titles, f \in Files, d \in Data, i \in Infos : AddFolder(t, f, d, i)
    BY <1>4
  <2>1. [files |-> [Empty EXCEPT ![f] = Written(d)], info |-> i] \in Tree
    BY EmptyType, ListingExcept, WrittenType DEF AddFolder, Tree
  <2>2. DiskType'
    BY <2>1, WrittenType DEF AddFolder, TypeOK, DiskType
  <2> QED
    BY <2>2, UnchangedType DEF AddFolder, TypeOK
<1>5. CASE \E t \in Titles, f \in Files, d \in Data, i \in Infos : StageFile(t, f, d, i)
  <2> PICK t \in Titles, f \in Files, d \in Data, i \in Infos : StageFile(t, f, d, i)
    BY <1>5
  <2> DEFINE old == IF stage[t] = None THEN Empty ELSE stage[t].files
  <2>1. old \in Listing
    BY EmptyType DEF TypeOK, DiskType, Tree
  <2>2. [files |-> [old EXCEPT ![f] = Written(d)], info |-> i] \in Tree
    BY <2>1, ListingExcept, WrittenType DEF StageFile, Tree
  <2>3. DiskType'
    BY <2>2, WrittenType DEF StageFile, TypeOK, DiskType
  <2> QED
    BY <2>3, UnchangedType DEF StageFile, TypeOK
<1>6. CASE \E t \in Titles : RemoveFolder(t)
  <2> PICK t \in Titles : RemoveFolder(t)
    BY <1>6
  <2>1. DiskType'
    BY DEF RemoveFolder, TypeOK, DiskType
  <2> QED
    BY <2>1, UnchangedType DEF RemoveFolder, TypeOK
<1>7. CASE Watcher
  <2> PICK t \in Titles : \/ Observe(t) \/ SettleWindowPasses(t) \/ PromoteNew(t)
                          \/ MoveAside(t) \/ Replace(t) \/ RestoreOld(t)
    BY <1>7 DEF Watcher
  <2>1. DiskType'
    BY DEF TypeOK, DiskType, diskVars, Observe, SettleWindowPasses, PromoteNew,
           MoveAside, Replace, RestoreOld, MoveIn
  <2>2. WatchType'
    BY DEF TypeOK, DiskType, WatchType, Observe, SettleWindowPasses, PromoteNew,
           MoveAside, Replace, RestoreOld, MoveIn
  <2>3. UNCHANGED <<row, cache, scanVars, histVars>>
    BY DEF Observe, SettleWindowPasses, PromoteNew, MoveAside, Replace, RestoreOld
  <2> QED
    BY <2>1, <2>2, <2>3, UnchangedType DEF TypeOK
<1> QED
  BY <1>1, <1>2, <1>3, <1>4, <1>5, <1>6, <1>7 DEF Folders

\* A scan's steps on a title keep the types.
LEMMA TitleStepType ==
  ASSUME TypeOK, NEW s \in Scanners,
         \/ \E t \in Titles : SkipTitle(s, t) \/ ScanTitle(s, t)
         \/ ScanStart(s) \/ Previous(s) \/ Walk(s) \/ ReadSidecar(s)
         \/ \E f \in Files : HashFile(s, f) \/ ScanPanics(s, f)
         \/ TitleError(s)
  PROVE  TypeOK'
<1>1. CASE ScanStart(s)
  <2>1. ScanType' /\ TitleType' /\ AtTitle'
    BY <1>1 DEF ScanStart, Goto, TypeOK, ScanType, TitleType, AtTitle, titleVars
  <2>2. HistType'
    BY <1>1 DEF ScanStart, TypeOK, HistType
  <2> QED
    BY <1>1, <2>1, <2>2, UnchangedType DEF ScanStart, TypeOK
<1>2. CASE \E t \in Titles : SkipTitle(s, t)
  <2>1. ScanType' /\ TitleType' /\ AtTitle'
    BY <1>2 DEF SkipTitle, TypeOK, ScanType, TitleType, AtTitle, titleVars
  <2> QED
    BY <1>2, <2>1, UnchangedType DEF SkipTitle, TypeOK
<1>3. CASE \E t \in Titles : ScanTitle(s, t)
  <2> PICK t \in Titles : ScanTitle(s, t)
    BY <1>3
  <2>1. TableType'
    BY DEF ScanTitle, TypeOK, TableType, Row
  <2>2. ScanType' /\ TitleType'
    BY DEF ScanTitle, Goto, TypeOK, ScanType, TitleType
  <2>3. AtTitle'
    <3>1. pc' = [pc EXCEPT ![s] = "previous"] \/ pc' = [pc EXCEPT ![s] = "walk"]
      BY DEF ScanTitle, Goto
    <3> QED
      BY <3>1, NoneAssumption DEF ScanTitle, TypeOK, ScanType, AtTitle
  <2> QED
    BY <2>1, <2>2, <2>3, UnchangedType DEF ScanTitle, TypeOK
<1>4. CASE Previous(s)
  <2>1. cur[s] \in Titles
    BY <1>4 DEF Previous, TypeOK, ScanType, AtTitle
  <2>2. ManifestOf(row[cur[s]]) \in Manifest
    BY <2>1, ManifestOfType DEF TypeOK, TableType
  <2>3. TitleType'
    BY <1>4, <2>1, <2>2 DEF Previous, TypeOK, TableType, TitleType
  <2>4. ScanType' /\ AtTitle'
    BY <1>4 DEF Previous, Goto, TypeOK, ScanType, AtTitle
  <2> QED
    BY <1>4, <2>3, <2>4, UnchangedType DEF Previous, TypeOK
<1>5. CASE Walk(s)
  <2>1. cur[s] \in Titles
    BY <1>5 DEF Walk, TypeOK, ScanType, AtTitle
  <2>2. OldEntries(prev[s]) \in Listing
    BY OldEntriesType DEF TypeOK, TitleType
  <2>3. lib[cur[s]].files \in Listing
    BY <1>5, <2>1 DEF Walk, TypeOK, DiskType, Tree
  <2>4. walked' \in [Scanners -> [Files -> Stat \cup {None}]]
    BY <1>5, <2>3 DEF Walk, TypeOK, TitleType, Listing, Stat, File
  <2>5. built' \in [Scanners -> Listing]
    BY <1>5, <2>2, <2>3 DEF Walk, TypeOK, TitleType, Listing
  <2>6. TitleType'
    BY <1>5, <2>4, <2>5 DEF Walk, TypeOK, TitleType
  <2>7. ScanType' /\ AtTitle'
    BY <1>5 DEF Walk, Goto, TypeOK, ScanType, AtTitle
  <2> QED
    BY <1>5, <2>6, <2>7, UnchangedType DEF Walk, TypeOK
<1>6. CASE ReadSidecar(s)
  <2>1. cur[s] \in Titles
    BY <1>6 DEF ReadSidecar, TypeOK, ScanType, AtTitle
  <2>2. TitleType'
    BY <1>6, <2>1 DEF ReadSidecar, TypeOK, DiskType, TitleType, Tree
  <2>3. ScanType' /\ AtTitle'
    BY <1>6 DEF ReadSidecar, Goto, TypeOK, ScanType, AtTitle
  <2> QED
    BY <1>6, <2>2, <2>3, UnchangedType DEF ReadSidecar, TypeOK
<1>7. CASE \E f \in Files : HashFile(s, f)
  <2> PICK f \in Files : HashFile(s, f)
    BY <1>7
  <2>1. built' \in [Scanners -> Listing]
    BY HashedType DEF TypeOK, TitleType
  <2>2. TitleType' /\ ScanType' /\ AtTitle'
    BY <2>1 DEF HashFile, TypeOK, TitleType, ScanType, AtTitle
  <2> QED
    BY <2>2, UnchangedType DEF HashFile, TypeOK
<1>8. CASE \E f \in Files : ScanPanics(s, f)
  <2>1. Empty \in Listing /\ Empty \in [Files -> Stat \cup {None}]
    BY EmptyType DEF Empty
  <2>2. TitleType'
    BY <1>8, <2>1 DEF ScanPanics, TypeOK, TitleType
  <2>3. ScanType' /\ AtTitle'
    BY <1>8 DEF ScanPanics, TypeOK, ScanType, TitleType, AtTitle
  <2> QED
    BY <1>8, <2>2, <2>3, UnchangedType DEF ScanPanics, TypeOK
<1>9. CASE TitleError(s)
  BY <1>9, EndTitleType, UnchangedType DEF TitleError, TypeOK
<1> QED
  BY <1>1, <1>2, <1>3, <1>4, <1>5, <1>6, <1>7, <1>8, <1>9

\* A scan's steps on the table and on what is served keep the types.
LEMMA TableStepType ==
  ASSUME TypeOK, NEW s \in Scanners,
         \/ Publish(s) \/ UpdateInfo(s) \/ LoadManifest(s) \/ CacheManifest(s)
         \/ ListRemoved(s) \/ Uncache(s) \/ ScanEnd(s)
         \/ \E t \in Titles : MarkRemoved(s, t)
  PROVE  TypeOK'
<1>1. CASE Publish(s)
  <2>1. NewVersion(prev[s]) \in Nat
    BY DEF TypeOK, TitleType, Manifest
  <2>2. TableType'
    BY <1>1, <2>1 DEF Publish, TypeOK, TableType, TitleType, Row
  <2>3. ScanType' /\ TitleType' /\ AtTitle'
    BY <1>1 DEF Publish, Goto, TypeOK, ScanType, TitleType, AtTitle, titleVars
  <2> QED
    BY <1>1, <2>2, <2>3, UnchangedType DEF Publish, TypeOK
<1>2. CASE UpdateInfo(s)
  <2>1. TableType'
    BY <1>2 DEF UpdateInfo, TypeOK, TableType, TitleType, Row
  <2> QED
    BY <1>2, <2>1, EndTitleType, UnchangedType DEF UpdateInfo, TypeOK
<1>3. CASE LoadManifest(s)
  <2>1. cur[s] \in Titles
    BY <1>3 DEF LoadManifest, TypeOK, ScanType, AtTitle
  <2>2. ManifestOf(row[cur[s]]) \in Manifest
    BY <2>1, ManifestOfType DEF TypeOK, TableType
  <2>3. TitleType' /\ ScanType'
    BY <1>3, <2>2 DEF LoadManifest, Goto, TypeOK, ScanType, TitleType
  <2>4. AtTitle'
    BY <1>3, <2>2, NoneAssumption
    DEF LoadManifest, Goto, TypeOK, ScanType, TitleType, AtTitle
  <2> QED
    BY <1>3, <2>3, <2>4, UnchangedType DEF LoadManifest, TypeOK
<1>4. CASE CacheManifest(s)
  <2>1. cur[s] \in Titles /\ loaded[s] \in Manifest
    BY <1>4 DEF CacheManifest, TypeOK, ScanType, TitleType, AtTitle
  <2>2. TableType' /\ HistType'
    BY <1>4, <2>1 DEF CacheManifest, TypeOK, TableType, HistType
  <2> QED
    BY <1>4, <2>2, EndTitleType, UnchangedType DEF CacheManifest, TypeOK
<1>5. CASE ListRemoved(s)
  <2>1. ScanType' /\ TitleType' /\ AtTitle'
    BY <1>5 DEF ListRemoved, Goto, TypeOK, ScanType, TitleType, AtTitle, titleVars
  <2> QED
    BY <1>5, <2>1, UnchangedType DEF ListRemoved, TypeOK
<1>6. CASE Uncache(s)
  <2>1. ScanType' /\ TitleType' /\ AtTitle' /\ TableType'
    BY <1>6 DEF Uncache, Goto, TypeOK, ScanType, TitleType, AtTitle, TableType
  <2> QED
    BY <1>6, <2>1, UnchangedType DEF Uncache, TypeOK
<1>7. CASE ScanEnd(s)
  <2>1. ScanType' /\ TitleType' /\ AtTitle'
    BY <1>7 DEF ScanEnd, Goto, TypeOK, ScanType, TitleType, AtTitle, titleVars
  <2> QED
    BY <1>7, <2>1, UnchangedType DEF ScanEnd, TypeOK
<1>8. CASE \E t \in Titles : MarkRemoved(s, t)
  <2> PICK t \in Titles : MarkRemoved(s, t)
    BY <1>8
  <2>1. TableType' /\ HistType'
    BY DEF MarkRemoved, TypeOK, TableType, HistType, Row
  <2>2. ScanType' /\ TitleType'
    BY DEF MarkRemoved, Goto, TypeOK, ScanType, TitleType
  <2>3. AtTitle'
    BY NoneAssumption DEF MarkRemoved, Goto, TypeOK, ScanType, AtTitle
  <2> QED
    BY <2>1, <2>2, <2>3, UnchangedType DEF MarkRemoved, TypeOK
<1> QED
  BY <1>1, <1>2, <1>3, <1>4, <1>5, <1>6, <1>7, <1>8

\* A restart leaves the blank state of a process that has just started.
LEMMA RestartType ==
  ASSUME TypeOK, Restart
  PROVE  TypeOK'
<1>1. \A t \in Titles : Reloaded(row[t]) \in Manifest \cup {None}
  BY ManifestOfType DEF TypeOK, TableType
<1>2. TableType' /\ HistType'
  BY <1>1 DEF Restart, TypeOK, TableType, HistType
<1>3. Empty \in Listing /\ Empty \in [Files -> Stat \cup {None}]
  BY EmptyType DEF Empty
<1>4. ScanType' /\ TitleType' /\ AtTitle' /\ WatchType'
  BY <1>3 DEF Restart, ScanType, TitleType, AtTitle, WatchType
<1> QED
  BY <1>2, <1>4, UnchangedType DEF Restart, TypeOK

\* Every step keeps the types.
LEMMA NextTypeOK ==
  ASSUME TypeOK, [Next]_vars
  PROVE  TypeOK'
<1>1. CASE Folders \/ Watcher
  BY <1>1, DiskStepType
<1>2. CASE \E s \in Scanners : ScanStep(s) \/ TitleError(s)
  BY <1>2, TitleStepType, TableStepType DEF ScanStep
<1>3. CASE UNCHANGED vars
  BY <1>3, UnchangedType DEF TypeOK, vars
<1> QED
  BY <1>1, <1>2, <1>3, RestartType DEF Next

-----------------------------------------------------------------------------
(* The fast check. *)

\* Before and after the scan of a title a scan holds nothing.
LEMMA BlankStep ==
  ASSUME TypeOK, LocalsBlank, [Next]_vars
  PROVE  LocalsBlank'
<1> USE DEF LocalsBlank, Blank, TypeOK, ScanType, TitleType
<1>1. CASE Folders \/ Watcher \/ UNCHANGED vars
  <2>1. UNCHANGED scanVars
    BY <1>1, DiskStepType DEF vars
  <2> QED
    BY <2>1 DEF scanVars
<1>2. CASE Restart
  BY <1>2 DEF Restart
<1>3. ASSUME NEW s \in Scanners, ScanStep(s) \/ TitleError(s)
      PROVE  LocalsBlank'
  <2>1. CASE \/ \E t \in Titles : SkipTitle(s, t) \/ ScanTitle(s, t) \/ MarkRemoved(s, t)
             \/ ScanStart(s) \/ ListRemoved(s) \/ Uncache(s) \/ ScanEnd(s)
    BY <2>1 DEF SkipTitle, ScanTitle, MarkRemoved, ScanStart, ListRemoved, Uncache,
                ScanEnd, Goto, titleVars
  <2>2. CASE Previous(s) \/ Walk(s) \/ ReadSidecar(s) \/ Publish(s) \/ LoadManifest(s)
    <3>1. /\ pc'[s] \notin {"idle", "next", "previous", "remove", "uncache"}
          /\ \A r \in Scanners \ {s} : pc'[r] = pc[r]
      BY <2>2 DEF Previous, Walk, ReadSidecar, Publish, LoadManifest, Goto
    <3>2. \A r \in Scanners \ {s} : /\ prev'[r] = prev[r] /\ loaded'[r] = loaded[r]
                                    /\ walked'[r] = walked[r] /\ built'[r] = built[r]
      <4>1. CASE Previous(s) \/ ReadSidecar(s) \/ Publish(s) \/ LoadManifest(s)
        BY <4>1 DEF Previous, ReadSidecar, Publish, LoadManifest, titleVars
      <4>2. CASE Walk(s)
        BY <4>2 DEF Walk
      <4> QED
        BY <2>2, <4>1, <4>2
    <3>3. pc'[s] # "cache" => loaded'[s] = None
      BY <2>2 DEF Previous, Walk, ReadSidecar, Publish, LoadManifest, Goto, titleVars
    <3> QED
      BY <3>1, <3>2, <3>3
  <2>3. CASE \E f \in Files : HashFile(s, f)
    <3> PICK f \in Files : HashFile(s, f)
      BY <2>3
    <3>1. \A r \in Scanners \ {s} : built'[r] = built[r]
      BY DEF HashFile
    <3> QED
      BY <3>1 DEF HashFile
  <2>4. CASE UpdateInfo(s) \/ CacheManifest(s) \/ TitleError(s)
    BY <2>4 DEF UpdateInfo, CacheManifest, TitleError, EndTitle, Goto
  <2>5. CASE \E f \in Files : ScanPanics(s, f)
    BY <2>5 DEF ScanPanics
  <2> QED
    BY <1>3, <2>1, <2>2, <2>3, <2>4, <2>5 DEF ScanStep
<1> QED
  BY <1>1, <1>2, <1>3 DEF Next

\* The entries of what is not there are none.
LEMMA NoEntries ==
  ASSUME NEW f \in Files
  PROVE  OldEntries(None)[f] = None /\ Empty[f] = None
BY DEF OldEntries, Empty

\* A row's entries are those of its manifest.
LEMMA RowEntries ==
  ASSUME NEW r \in Row
  PROVE  ManifestOf(r) # None /\ OldEntries(ManifestOf(r)) = r.files
BY ManifestOfType, NoneAssumption DEF ManifestOf, OldEntries

\* The steps of a scan that do not read a file bring in no entry.
LEMMA KnownShrinks ==
  ASSUME TypeOK, LocalsBlank, NEW s \in Scanners,
         ScanStep(s) \/ TitleError(s),
         \A g \in Files : ~HashFile(s, g),
         NEW t \in Titles, NEW f \in Files
  PROVE  Known(t, f)' \subseteq Known(t, f) \cup {None}
<1> USE DEF Known, TypeOK, ScanType, TitleType, TableType
<1>1. CASE \E u \in Titles : SkipTitle(s, u)
  BY <1>1 DEF SkipTitle, titleVars
<1>2. CASE \E u \in Titles : ScanTitle(s, u)
  <2> PICK u \in Titles : ScanTitle(s, u)
    BY <1>2
  <2>1. row'[t].files = row[t].files
    BY DEF ScanTitle, Row
  <2>2. Blank(s) /\ loaded[s] = None
    BY DEF ScanTitle, LocalsBlank
  <2> QED
    BY <2>1, <2>2, NoEntries DEF ScanTitle, Blank
<1>3. CASE \E u \in Titles : MarkRemoved(s, u)
  <2> PICK u \in Titles : MarkRemoved(s, u)
    BY <1>3
  <2>1. row'[t].files = row[t].files
    BY DEF MarkRemoved, Row
  <2>2. Blank(s) /\ loaded[s] = None
    BY DEF MarkRemoved, LocalsBlank
  <2> QED
    BY <2>1, <2>2, NoEntries DEF MarkRemoved, Blank
<1>4. CASE ScanStart(s) \/ ReadSidecar(s) \/ ListRemoved(s) \/ ScanEnd(s)
  BY <1>4 DEF ScanStart, ReadSidecar, ListRemoved, ScanEnd, titleVars
<1>5. CASE Previous(s)
  <2>1. cur[s] \in Titles
    BY <1>5 DEF Previous, AtTitle
  <2>2. OldEntries(prev'[s])[f] \in {OldEntries(cache[cur[s]])[f], row[cur[s]].files[f]}
    BY <1>5, <2>1, RowEntries DEF Previous
  <2> QED
    BY <1>5, <2>1, <2>2 DEF Previous
<1>6. CASE Walk(s)
  <2>1. built'[s][f] \in {OldEntries(prev[s])[f], None}
    BY <1>6 DEF Walk
  <2> QED
    BY <1>6, <2>1 DEF Walk
<1>7. CASE Publish(s)
  <2>1. row'[t].files \in {row[t].files, built[s]}
    BY <1>7 DEF Publish
  <2>2. t # cur[s] => row'[t].files = row[t].files
    BY <1>7 DEF Publish
  <2> QED
    BY <1>7, <2>1, <2>2 DEF Publish, titleVars
<1>8. CASE UpdateInfo(s) \/ TitleError(s)
  <2>1. row'[t].files = row[t].files
    <3>1. CASE UpdateInfo(s)
      <4>1. row[t] \in Row
        OBVIOUS
      <4>2. row'[t] = row[t] \/ row'[t] = [row[t] EXCEPT !.info = info[s]]
        BY <3>1 DEF UpdateInfo
      <4> QED
        BY <4>1, <4>2 DEF Row
    <3>2. CASE TitleError(s)
      BY <3>2 DEF TitleError
    <3> QED
      BY <1>8, <3>1, <3>2
  <2>2. cur' = [cur EXCEPT ![s] = None] /\ cache' = cache
    BY <1>8 DEF UpdateInfo, TitleError, EndTitle
  <2>3. \A r \in Scanners \ {s} : /\ prev'[r] = prev[r] /\ loaded'[r] = loaded[r]
                                  /\ built'[r] = built[r]
    BY <1>8 DEF UpdateInfo, TitleError, EndTitle
  <2> QED
    BY <2>1, <2>2, <2>3, NoneAssumption
<1>9. CASE LoadManifest(s)
  <2>1. cur[s] \in Titles
    BY <1>9 DEF LoadManifest, AtTitle
  <2>2. OldEntries(loaded'[s])[f] = row[cur[s]].files[f]
    BY <1>9, <2>1, RowEntries DEF LoadManifest
  <2> QED
    BY <1>9, <2>1, <2>2 DEF LoadManifest
<1>10. CASE CacheManifest(s)
  <2>1. cur' = [cur EXCEPT ![s] = None] /\ row' = row
    BY <1>10 DEF CacheManifest, EndTitle
  <2>2. \A r \in Scanners \ {s} : /\ prev'[r] = prev[r] /\ loaded'[r] = loaded[r]
                                  /\ built'[r] = built[r]
    BY <1>10 DEF CacheManifest, EndTitle
  <2>3. cache'[t] = IF t = cur[s] THEN loaded[s] ELSE cache[t]
    BY <1>10 DEF CacheManifest
  <2> QED
    BY <2>1, <2>2, <2>3, NoneAssumption
<1>11. CASE Uncache(s)
  <2>1. cur' = [cur EXCEPT ![s] = None] /\ row' = row
    BY <1>11 DEF Uncache
  <2>2. cache'[t] \in {None, cache[t]}
    BY <1>11 DEF Uncache
  <2> QED
    BY <1>11, <2>1, <2>2, NoEntries, NoneAssumption DEF Uncache
<1>12. CASE \E g \in Files : ScanPanics(s, g)
  <2>1. cur' = [cur EXCEPT ![s] = None] /\ row' = row /\ cache' = cache
    BY <1>12 DEF ScanPanics
  <2>2. \A r \in Scanners \ {s} : /\ prev'[r] = prev[r] /\ loaded'[r] = loaded[r]
                                  /\ built'[r] = built[r]
    BY <1>12 DEF ScanPanics
  <2> QED
    BY <2>1, <2>2, NoneAssumption
<1> QED
  BY <1>1, <1>2, <1>3, <1>4, <1>5, <1>6, <1>7, <1>8, <1>9, <1>10, <1>11, <1>12
  DEF ScanStep

\* A process that has just started knows only what the table says.
LEMMA KnownRestart ==
  ASSUME TypeOK, Restart, NEW t \in Titles, NEW f \in Files
  PROVE  Known(t, f)' \subseteq Known(t, f) \cup {None}
<1>1. row'[t] = row[t] /\ \A s \in Scanners : cur'[s] = None
  BY DEF Restart
<1>2. cache'[t] \in {None, ManifestOf(row[t])}
  BY DEF Restart
<1>3. OldEntries(cache'[t])[f] \in {None, row[t].files[f]}
  BY <1>2, NoEntries, RowEntries DEF TypeOK, TableType
<1> QED
  BY <1>1, <1>3, NoneAssumption DEF Known

\* Hashing a file brings in one entry.
LEMMA KnownHash ==
  ASSUME TypeOK, NEW s \in Scanners, NEW g \in Files, HashFile(s, g),
         NEW t \in Titles, NEW f \in Files, NEW e \in Known(t, f)'
  PROVE  \/ e \in Known(t, f)
         \/ /\ t = cur[s] /\ f = g
            /\ e = Entry(walked[s][f], lib[t].files[f].data)
<1>1. UNCHANGED <<row, cache, cur, prev, loaded>>
  BY DEF HashFile
<1>2. CASE e \in {row[t].files[f], OldEntries(cache[t])[f]}
  BY <1>2 DEF Known
<1>3. CASE \E r \in Scanners : cur[r] = t /\ e \in {OldEntries(prev[r])[f],
                                                    OldEntries(loaded[r])[f]}
  BY <1>3 DEF Known
<1>4. CASE \E r \in Scanners : cur[r] = t /\ e = built'[r][f]
  <2> PICK r \in Scanners : cur[r] = t /\ e = built'[r][f]
    BY <1>4
  <2>1. CASE built'[r][f] = built[r][f]
    BY <2>1 DEF Known
  <2>2. CASE built'[r][f] # built[r][f]
    <3>1. r = s /\ f = g /\ e \in {OldEntries(prev[s])[f],
                                   Entry(walked[s][f], lib[t].files[f].data)}
      BY <2>2, HashedType
    <3> QED
      BY <3>1 DEF Known
  <2> QED
    BY <2>1, <2>2
<1> QED
  BY <1>1, <1>2, <1>3, <1>4 DEF Known

-----------------------------------------------------------------------------
(* FastInv by place: the files, the times of a walk, and the entries. *)

FilesFast(t, f) ==
  /\ Past(FileIn(lib[t], f)) /\ Past(FileIn(stage[t], f)) /\ Past(FileIn(aside[t], f))
  /\ Apart(FileIn(lib[t], f), FileIn(stage[t], f))
  /\ Apart(FileIn(Returning(t), f), FileIn(stage[t], f))

WalkFast(s, t, f) ==
  Past(walked[s][f]) /\ (cur[s] = t => Apart(walked[s][f], FileIn(stage[t], f)))

EntryFast(t, f, e) ==
  /\ Past(e) /\ Apart(e, FileIn(stage[t], f))
  /\ Vouches(e, FileIn(lib[t], f)) /\ Vouches(e, FileIn(Returning(t), f))

\* The parts make up the whole.
LEMMA FastParts ==
  (PastOnly /\ StagedUnseen /\ KnownSound) <=>
     \A t \in Titles, f \in Files :
       /\ FilesFast(t, f)
       /\ \A s \in Scanners : WalkFast(s, t, f)
       /\ \A e \in Known(t, f) : EntryFast(t, f, e)
<1>1. ASSUME PastOnly, StagedUnseen, KnownSound, NEW t \in Titles, NEW f \in Files
      PROVE  /\ FilesFast(t, f)
             /\ \A s \in Scanners : WalkFast(s, t, f)
             /\ \A e \in Known(t, f) : EntryFast(t, f, e)
  BY <1>1, Zenon DEF PastOnly, StagedUnseen, KnownSound, FilesFast, WalkFast, EntryFast
<1>2. ASSUME \A t \in Titles, f \in Files :
               /\ FilesFast(t, f)
               /\ \A s \in Scanners : WalkFast(s, t, f)
               /\ \A e \in Known(t, f) : EntryFast(t, f, e)
      PROVE  PastOnly /\ StagedUnseen /\ KnownSound
  <2>1. PastOnly
    BY <1>2, Zenon DEF PastOnly, FilesFast, WalkFast, EntryFast
  <2>2. StagedUnseen
    <3>1. ASSUME NEW t \in Titles, NEW f \in Files
          PROVE  LET x == FileIn(stage[t], f) IN
                 /\ Apart(FileIn(lib[t], f), x) /\ Apart(FileIn(Returning(t), f), x)
                 /\ \A e \in Known(t, f) : Apart(e, x)
                 /\ \A s \in Scanners : cur[s] = t => Apart(walked[s][f], x)
      BY <1>2, <3>1, Zenon DEF FilesFast, WalkFast, EntryFast
    <3> QED
      BY <3>1, Zenon DEF StagedUnseen
  <2>3. KnownSound
    BY <1>2, Zenon DEF KnownSound, EntryFast
  <2> QED
    BY <2>1, <2>2, <2>3
<1> QED
  BY <1>1, <1>2

\* The same of the state after a step.
LEMMA FastPartsNext ==
  ((PastOnly /\ StagedUnseen /\ KnownSound) <=>
     \A t \in Titles, f \in Files :
       /\ FilesFast(t, f)
       /\ \A s \in Scanners : WalkFast(s, t, f)
       /\ \A e \in Known(t, f) : EntryFast(t, f, e))'
BY FastParts, PTL

\* A scan of a title leaves the folders alone.
LEMMA ScanKeepsFolders ==
  ASSUME NEW s \in Scanners, ScanStep(s) \/ TitleError(s)
  PROVE  UNCHANGED <<clock, lib, aside, stage, wpc>>
<1>1. UNCHANGED diskVars /\ UNCHANGED watchVars
  <2>1. CASE \E t \in Titles : SkipTitle(s, t) \/ ScanTitle(s, t) \/ MarkRemoved(s, t)
    BY <2>1 DEF SkipTitle, ScanTitle, MarkRemoved
  <2>2. CASE \E f \in Files : HashFile(s, f) \/ ScanPanics(s, f)
    BY <2>2 DEF HashFile, ScanPanics
  <2>3. CASE ScanStart(s) \/ Previous(s) \/ Walk(s) \/ ReadSidecar(s) \/ Publish(s)
    BY <2>3 DEF ScanStart, Previous, Walk, ReadSidecar, Publish
  <2>4. CASE UpdateInfo(s) \/ LoadManifest(s) \/ CacheManifest(s) \/ TitleError(s)
    BY <2>4 DEF UpdateInfo, LoadManifest, CacheManifest, TitleError
  <2>5. CASE ListRemoved(s) \/ Uncache(s) \/ ScanEnd(s)
    BY <2>5 DEF ListRemoved, Uncache, ScanEnd
  <2> QED
    BY <2>1, <2>2, <2>3, <2>4, <2>5 DEF ScanStep
<1> QED
  BY <1>1 DEF diskVars, watchVars

\* What a scan remembers of a walk is what the files have, and a title at hand
\* starts without any.
LEMMA WalkedStep ==
  ASSUME TypeOK, LocalsBlank, NEW s \in Scanners, ScanStep(s) \/ TitleError(s),
         NEW r \in Scanners, NEW f \in Files
  PROVE  \/ walked'[r][f] = None
         \/ walked'[r][f] = walked[r][f] /\ cur'[r] \in {cur[r], None}
         \/ /\ cur'[r] \in Titles /\ FileIn(lib[cur'[r]], f) \in File
            /\ walked'[r][f].mtime = FileIn(lib[cur'[r]], f).mtime
<1> USE DEF TypeOK, ScanType, TitleType, DiskType
<1>1. CASE Walk(s)
  <2>1. cur'[r] = cur[r]
    BY <1>1 DEF Walk
  <2>2. CASE r # s
    BY <1>1, <2>1, <2>2 DEF Walk
  <2>3. CASE r = s
    <3>1. cur[s] \in Titles /\ lib[cur[s]] \in Tree
      BY <1>1 DEF Walk, AtTitle
    <3>2. FileIn(lib[cur[s]], f) = lib[cur[s]].files[f]
      BY <3>1, NoneAssumption DEF FileIn
    <3>3. lib[cur[s]].files[f] \in File \cup {None}
      BY <3>1 DEF Tree, Listing
    <3>4. walked'[s][f] = IF lib[cur[s]].files[f] = None THEN None
                          ELSE [mtime |-> lib[cur[s]].files[f].mtime,
                                size |-> lib[cur[s]].files[f].size]
      BY <1>1 DEF Walk
    <3> QED
      BY <2>1, <2>3, <3>1, <3>2, <3>3, <3>4
  <2> QED
    BY <2>2, <2>3
<1>2. CASE \E t \in Titles : ScanTitle(s, t) \/ MarkRemoved(s, t)
  <2>1. walked' = walked /\ \A q \in Scanners \ {s} : cur'[q] = cur[q]
    BY <1>2 DEF ScanTitle, MarkRemoved
  <2>2. walked[s][f] = None
    BY <1>2 DEF ScanTitle, MarkRemoved, LocalsBlank, Blank, Empty
  <2> QED
    BY <2>1, <2>2
<1>3. CASE UpdateInfo(s) \/ CacheManifest(s) \/ TitleError(s)
           \/ \E g \in Files : ScanPanics(s, g)
  <2>1. walked' = [walked EXCEPT ![s] = Empty] /\ cur' = [cur EXCEPT ![s] = None]
    BY <1>3 DEF UpdateInfo, CacheManifest, TitleError, ScanPanics, EndTitle
  <2> QED
    BY <2>1 DEF Empty
<1>4. CASE Uncache(s)
  BY <1>4 DEF Uncache
<1>5. CASE \/ ScanStart(s) \/ Previous(s) \/ ReadSidecar(s) \/ Publish(s)
           \/ LoadManifest(s) \/ ListRemoved(s) \/ ScanEnd(s)
           \/ \E t \in Titles : SkipTitle(s, t)
           \/ \E g \in Files : HashFile(s, g)
  <2>1. UNCHANGED <<walked, cur>>
    BY <1>5 DEF ScanStart, Previous, ReadSidecar, Publish, LoadManifest, ListRemoved,
                ScanEnd, SkipTitle, HashFile, titleVars
  <2>2. walked'[r][f] = walked[r][f] /\ cur'[r] = cur[r]
    BY <2>1
  <2> QED
    BY <2>2
<1> QED
  BY <1>1, <1>2, <1>3, <1>4, <1>5 DEF ScanStep

\* A scan, and a restart, keep the parts.
LEMMA ScanFast ==
  ASSUME TypeOK, FastInv, NEW s \in Scanners, ScanStep(s) \/ TitleError(s)
  PROVE  PastOnly' /\ AsideAlone' /\ StagedUnseen' /\ KnownSound'
<1>1. UNCHANGED <<clock, lib, aside, stage, wpc>>
  BY ScanKeepsFolders
<1>2. AsideAlone'
  BY <1>1 DEF FastInv, AsideAlone
<1>3. ASSUME NEW t \in Titles, NEW f \in Files
      PROVE  /\ FilesFast(t, f)
             /\ \A r \in Scanners : WalkFast(r, t, f)
             /\ \A e \in Known(t, f) : EntryFast(t, f, e)
  BY <1>3, FastParts DEF FastInv
<1>4. ASSUME NEW t \in Titles, NEW f \in Files
      PROVE  FilesFast(t, f)'
  BY <1>1, <1>3, <1>4 DEF FilesFast, Past, Apart, FileIn, Returning
<1>5. ASSUME NEW t \in Titles, NEW f \in Files, NEW r \in Scanners
      PROVE  WalkFast(r, t, f)'
  <2>1. CASE walked'[r][f] = None
    BY <2>1 DEF WalkFast, Past, Apart
  <2>2. CASE walked'[r][f] = walked[r][f] /\ cur'[r] \in {cur[r], None}
    BY <1>1, <1>3, <1>5, <2>2, NoneAssumption DEF WalkFast, Past, Apart, FileIn
  <2>3. CASE /\ cur'[r] \in Titles /\ FileIn(lib[cur'[r]], f) \in File
             /\ walked'[r][f].mtime = FileIn(lib[cur'[r]], f).mtime
    <3>1. FilesFast(cur'[r], f) /\ FileIn(lib[cur'[r]], f) # None
      BY <1>3, <2>3, NoneAssumption
    <3> QED
      BY <1>1, <2>3, <3>1 DEF FilesFast, WalkFast, Past, Apart, FileIn
  <2> QED
    BY <2>1, <2>2, <2>3, WalkedStep DEF FastInv
<1>6. ASSUME NEW t \in Titles, NEW f \in Files, NEW e \in Known(t, f)'
      PROVE  EntryFast(t, f, e)'
  <2>1. EntryFast(t, f, e)
    <3>1. CASE e = None
      BY <3>1 DEF EntryFast, Past, Apart, Vouches
    <3>2. CASE e \in Known(t, f)
      BY <1>3, <3>2
    <3>3. CASE \E g \in Files : HashFile(s, g)
      <4> PICK g \in Files : HashFile(s, g)
        BY <3>3
      <4>1. CASE /\ t = cur[s] /\ f = g
                 /\ e = Entry(walked[s][f], lib[t].files[f].data)
        <5> DEFINE x == lib[t].files[f]
                   w == walked[s][f]
        <5>1. w \in Stat /\ w # None /\ x \in File /\ FileIn(lib[t], f) = x
          BY <4>1, HashedType, NoneAssumption DEF FileIn
        <5>2. e.mtime = w.mtime /\ e.size = w.size /\ e.data = x.data
          BY <4>1 DEF Entry
        <5>3. WalkFast(s, t, f)
          BY <1>3
        <5>4. Past(e) /\ Apart(e, FileIn(stage[t], f))
          BY <4>1, <5>1, <5>2, <5>3 DEF WalkFast, Past, Apart
        <5>5. wpc # t
          BY <4>1, HashedType DEF FastInv, AsideAlone
        <5> QED
          BY <5>1, <5>2, <5>4, <5>5 DEF EntryFast, Vouches, FileIn, Returning
      <4> QED
        BY <3>2, <4>1, KnownHash
    <3> QED
      BY <3>1, <3>2, <3>3, KnownShrinks DEF FastInv
  <2> QED
    BY <1>1, <2>1 DEF EntryFast, Past, Apart, Vouches, FileIn, Returning
<1> QED
  <2>1. \A t \in Titles, f \in Files :
          /\ FilesFast(t, f)'
          /\ \A r \in Scanners : WalkFast(r, t, f)'
          /\ \A e \in Known(t, f)' : EntryFast(t, f, e)'
    BY <1>4, <1>5, <1>6
  <2> QED
    BY <1>2, <2>1, FastPartsNext

\* A restart forgets the watcher's place as well: nothing comes back then.
LEMMA RestartFast ==
  ASSUME TypeOK, FastInv, Restart
  PROVE  PastOnly' /\ AsideAlone' /\ StagedUnseen' /\ KnownSound'
<1>1. UNCHANGED <<clock, lib, aside, stage>> /\ wpc' = None
  BY DEF Restart, diskVars
<1>2. AsideAlone'
  BY <1>1, NoneAssumption DEF AsideAlone
<1>3. ASSUME NEW t \in Titles, NEW f \in Files
      PROVE  FilesFast(t, f) /\ \A e \in Known(t, f) : EntryFast(t, f, e)
  BY <1>3, FastParts DEF FastInv
<1>4. \A t \in Titles : Returning(t)' = None
  BY <1>1, NoneAssumption DEF Returning
<1>5. ASSUME NEW t \in Titles, NEW f \in Files
      PROVE  FilesFast(t, f)'
  BY <1>1, <1>3, <1>4, <1>5 DEF FilesFast, Past, Apart, FileIn
<1>6. ASSUME NEW t \in Titles, NEW f \in Files, NEW r \in Scanners
      PROVE  WalkFast(r, t, f)'
  BY DEF WalkFast, Restart, Past, Apart, Empty
<1>7. ASSUME NEW t \in Titles, NEW f \in Files, NEW e \in Known(t, f)'
      PROVE  EntryFast(t, f, e)'
  <2>1. CASE e = None
    BY <2>1 DEF EntryFast, Past, Apart, Vouches
  <2>2. CASE e \in Known(t, f)
    <3>1. EntryFast(t, f, e)
      BY <1>3, <2>2
    <3> QED
      BY <1>1, <1>4, <3>1 DEF EntryFast, Past, Apart, Vouches, FileIn
  <2> QED
    BY <2>1, <2>2, KnownRestart
<1> QED
  <2>1. \A t \in Titles, f \in Files :
          /\ FilesFast(t, f)'
          /\ \A r \in Scanners : WalkFast(r, t, f)'
          /\ \A e \in Known(t, f)' : EntryFast(t, f, e)'
    BY <1>5, <1>6, <1>7
  <2> QED
    BY <1>2, <2>1, FastPartsNext

\* A file written in this step.
Fresh(x) == x \in File /\ x.mtime = clock + 1 /\ clock' = clock + 1

\* What a step of the admin or of the watcher does to one path of one title:
\* the file stays or goes, is written, is moved in from staging, is moved
\* aside, or comes back.
Moved(t, f) ==
  LET L == FileIn(lib[t], f)
      S == FileIn(stage[t], f)
      A == FileIn(aside[t], f)
      R == FileIn(Returning(t), f)
  IN
  \/ L' \in {L, None} /\ S' = S /\ A' = A /\ R' \in {R, None}
  \/ Fresh(L') /\ S' = S /\ A' = A /\ R' \in {R, None}
  \/ Fresh(S') /\ L' = L /\ A' = A /\ R' \in {R, None}
  \/ L' = S /\ S' = None /\ A' \in {A, None} /\ R' = None
  \/ L' = None /\ S' = S /\ A' = L /\ R' = L
  \/ L' = R /\ S' = S /\ A' \in {A, None} /\ R' = None

\* The admin's steps move files in these ways.
LEMMA FoldersMove ==
  ASSUME TypeOK, AsideAlone, Folders, NEW t \in Titles, NEW f \in Files
  PROVE  Moved(t, f)
<1> USE DEF TypeOK, DiskType, WatchType
<1>1. CASE \E u \in Titles, g \in Files, d \in Data : WriteFile(u, g, d)
  <2> PICK u \in Titles, g \in Files, d \in Data : WriteFile(u, g, d)
    BY <1>1
  <2>1. /\ clock' = clock + 1 /\ clock' \in Clock /\ Written(d) \in File
        /\ Written(d).mtime = clock + 1
        /\ UNCHANGED <<aside, stage, wpc>>
    BY WrittenType DEF WriteFile, watchVars
  <2>2. /\ lib' = [lib EXCEPT ![u].files[g] = Written(d)] /\ lib[u] # None
    BY DEF WriteFile
  <2>3. /\ \A v \in Titles \ {u} : lib'[v] = lib[v]
        /\ lib'[u] # None /\ lib'[u].files = [lib[u].files EXCEPT ![g] = Written(d)]
    <3>1. lib[u] \in Tree /\ lib[u].files \in Listing
      BY <2>2 DEF Tree
    <3>2. lib'[u] = [lib[u] EXCEPT !.files[g] = Written(d)]
      BY <2>2
    <3>3. lib'[u].files = [lib[u].files EXCEPT ![g] = Written(d)]
      BY <3>1, <3>2 DEF Tree
    <3>4. [lib[u].files EXCEPT ![g] = Written(d)] \in Listing
      BY <2>1, <3>1, ListingExcept
    <3>5. lib'[u] \in Tree
      BY <3>1, <3>2, <3>4 DEF Tree
    <3> QED
      BY <2>2, <3>3, <3>5, NoneAssumption
  <2>4. lib[u].files \in Listing
    BY <2>2 DEF Tree
  <2>5. FileIn(lib'[t], f) \in {FileIn(lib[t], f), Written(d)}
    BY <2>2, <2>3, <2>4 DEF FileIn, Listing
  <2> QED
    BY <2>1, <2>5 DEF Moved, Fresh, Returning, FileIn, Clock
<1>2. CASE \E u \in Titles, g \in Files : RemoveFile(u, g)
  <2> PICK u \in Titles, g \in Files : RemoveFile(u, g)
    BY <1>2
  <2>1. UNCHANGED <<clock, aside, stage, wpc>>
    BY DEF RemoveFile, watchVars
  <2>2. /\ lib' = [lib EXCEPT ![u].files[g] = None] /\ lib[u] # None
    BY DEF RemoveFile
  <2>3. /\ \A v \in Titles \ {u} : lib'[v] = lib[v]
        /\ lib'[u] # None /\ lib'[u].files = [lib[u].files EXCEPT ![g] = None]
    <3>1. lib[u] \in Tree /\ lib[u].files \in Listing
      BY <2>2 DEF Tree
    <3>2. lib'[u] = [lib[u] EXCEPT !.files[g] = None]
      BY <2>2
    <3>3. lib'[u].files = [lib[u].files EXCEPT ![g] = None]
      BY <3>1, <3>2 DEF Tree
    <3>4. [lib[u].files EXCEPT ![g] = None] \in Listing
      BY <3>1, ListingExcept
    <3>5. lib'[u] \in Tree
      BY <3>1, <3>2, <3>4 DEF Tree
    <3> QED
      BY <2>2, <3>3, <3>5, NoneAssumption
  <2>4. lib[u].files \in Listing
    BY <2>2 DEF Tree
  <2>5. FileIn(lib'[t], f) \in {FileIn(lib[t], f), None}
    BY <2>2, <2>3, <2>4 DEF FileIn, Listing
  <2> QED
    BY <2>1, <2>5 DEF Moved, Returning, FileIn, Clock
<1>3. CASE \E u \in Titles, i \in Infos : EditSidecar(u, i)
  <2> PICK u \in Titles, i \in Infos : EditSidecar(u, i)
    BY <1>3
  <2>1. UNCHANGED <<clock, aside, stage, wpc>>
    BY DEF EditSidecar, watchVars
  <2>2. /\ lib' = [lib EXCEPT ![u].info = i] /\ lib[u] # None
    BY DEF EditSidecar
  <2>3. /\ \A v \in Titles \ {u} : lib'[v] = lib[v]
        /\ lib'[u] # None /\ lib'[u].files = lib[u].files
    BY <2>2, InfoExcept
  <2>4. FileIn(lib'[t], f) = FileIn(lib[t], f)
    BY <2>2, <2>3 DEF FileIn
  <2> QED
    BY <2>1, <2>4 DEF Moved, Returning, FileIn, Clock
<1>4. CASE \E u \in Titles, g \in Files, d \in Data, i \in Infos : AddFolder(u, g, d, i)
  <2> PICK u \in Titles, g \in Files, d \in Data, i \in Infos : AddFolder(u, g, d, i)
    BY <1>4
  <2> DEFINE tree == [files |-> [Empty EXCEPT ![g] = Written(d)], info |-> i]
  <2>1. /\ clock' = clock + 1 /\ clock' \in Clock /\ Written(d) \in File
        /\ Written(d).mtime = clock + 1
        /\ UNCHANGED <<aside, stage, wpc>>
    BY WrittenType DEF AddFolder, watchVars
  <2>2. lib' = [lib EXCEPT ![u] = tree] /\ lib[u] = None /\ wpc # u
    BY DEF AddFolder
  <2>3. FileIn(tree, f) \in {None, Written(d)}
    BY DEF FileIn, Empty
  <2>4. FileIn(lib'[t], f) \in {FileIn(lib[t], f), None, Written(d)}
    BY <2>2, <2>3
  <2> QED
    BY <2>1, <2>4 DEF Moved, Fresh, Returning, FileIn, Clock
<1>5. CASE \E u \in Titles, g \in Files, d \in Data, i \in Infos : StageFile(u, g, d, i)
  <2> PICK u \in Titles, g \in Files, d \in Data, i \in Infos : StageFile(u, g, d, i)
    BY <1>5
  <2> DEFINE old == IF stage[u] = None THEN Empty ELSE stage[u].files
             tree == [files |-> [old EXCEPT ![g] = Written(d)], info |-> i]
  <2>1. /\ clock' = clock + 1 /\ clock' \in Clock /\ Written(d) \in File
        /\ Written(d).mtime = clock + 1
        /\ UNCHANGED <<aside, lib, wpc>>
    BY WrittenType DEF StageFile, watchVars
  <2>2. stage' = [stage EXCEPT ![u] = tree]
    BY DEF StageFile
  <2>3. old \in Listing
    BY EmptyType DEF Tree
  <2>4. tree \in Tree
    BY <2>1, <2>3, ListingExcept DEF Tree
  <2>5. FileIn(tree, f) \in {FileIn(stage[u], f), Written(d)}
    BY <2>3, <2>4, NoneAssumption DEF FileIn, Empty, Listing
  <2>6. FileIn(stage'[t], f) \in {FileIn(stage[t], f), Written(d)}
    BY <2>2, <2>5
  <2> QED
    BY <2>1, <2>6 DEF Moved, Fresh, Returning, FileIn, Clock
<1>6. CASE \E u \in Titles : RemoveFolder(u)
  <2> PICK u \in Titles : RemoveFolder(u)
    BY <1>6
  <2>1. UNCHANGED <<clock, aside, stage, wpc>> /\ lib' = [lib EXCEPT ![u] = None]
    BY DEF RemoveFolder, watchVars
  <2>2. FileIn(lib'[t], f) \in {FileIn(lib[t], f), None}
    BY <2>1 DEF FileIn
  <2> QED
    BY <2>1, <2>2 DEF Moved, Returning, FileIn, Clock
<1> QED
  BY <1>1, <1>2, <1>3, <1>4, <1>5, <1>6 DEF Folders

\* And so do the watcher's.
LEMMA WatcherMoves ==
  ASSUME TypeOK, AsideAlone, Watcher, NEW t \in Titles, NEW f \in Files
  PROVE  Moved(t, f)
<1> USE DEF TypeOK, DiskType, WatchType
<1>1. PICK u \in Titles : \/ Observe(u) \/ SettleWindowPasses(u) \/ PromoteNew(u)
                          \/ MoveAside(u) \/ Replace(u) \/ RestoreOld(u)
  BY DEF Watcher
<1>2. CASE Observe(u) \/ SettleWindowPasses(u)
  <2>1. UNCHANGED <<clock, lib, aside, stage, wpc>>
    BY <1>2 DEF Observe, SettleWindowPasses, diskVars
  <2> QED
    BY <2>1 DEF Moved, Returning, FileIn
<1>3. CASE PromoteNew(u)
  <2>1. /\ lib' = [lib EXCEPT ![u] = stage[u]] /\ stage' = [stage EXCEPT ![u] = None]
        /\ UNCHANGED <<clock, aside, wpc>> /\ wpc = None
    BY <1>3 DEF PromoteNew, MoveIn
  <2>2. Returning(t) = None /\ Returning(t)' = None
    BY <2>1, NoneAssumption DEF Returning
  <2>3. CASE t = u
    BY <2>1, <2>2, <2>3 DEF Moved, FileIn
  <2>4. CASE t # u
    BY <2>1, <2>2, <2>4 DEF Moved, FileIn
  <2> QED
    BY <2>1, <2>2, <2>3, <2>4
<1>4. CASE MoveAside(u)
  <2>1. /\ aside' = [aside EXCEPT ![u] = lib[u]] /\ lib' = [lib EXCEPT ![u] = None]
        /\ UNCHANGED <<clock, stage>> /\ wpc = None /\ wpc' = u
    BY <1>4 DEF MoveAside
  <2>3. CASE t = u
    <3>1. Returning(t)' = lib[t]
      BY <2>1, <2>3 DEF Returning
    <3> QED
      BY <2>1, <2>3, <3>1 DEF Moved, FileIn
  <2>4. CASE t # u
    <3>1. Returning(t)' = None
      BY <2>1, <2>4 DEF Returning
    <3> QED
      BY <2>1, <2>4, <3>1 DEF Moved, FileIn
  <2> QED
    BY <2>3, <2>4
<1>5. CASE Replace(u)
  <2>1. /\ lib' = [lib EXCEPT ![u] = stage[u]] /\ stage' = [stage EXCEPT ![u] = None]
        /\ aside' = [aside EXCEPT ![u] = None]
        /\ UNCHANGED <<clock>> /\ wpc = u /\ wpc' = None
    BY <1>5 DEF Replace, MoveIn
  <2>2. Returning(t)' = None
    BY <2>1, NoneAssumption DEF Returning
  <2>3. CASE t = u
    BY <2>1, <2>2, <2>3 DEF Moved, FileIn
  <2>4. CASE t # u
    BY <2>1, <2>2, <2>4 DEF Moved, FileIn
  <2> QED
    BY <2>1, <2>2, <2>3, <2>4
<1>6. CASE RestoreOld(u)
  <2>1. /\ UNCHANGED <<clock, stage>> /\ wpc = u /\ wpc' = None
        /\ \/ /\ lib' = [lib EXCEPT ![u] = aside[u]]
              /\ aside' = [aside EXCEPT ![u] = None]
           \/ UNCHANGED <<lib, aside>>
    BY <1>6 DEF RestoreOld
  <2>2. Returning(t)' = None
    BY <2>1, NoneAssumption DEF Returning
  <2>3. CASE t = u
    <3>1. Returning(t) = aside[t]
      BY <2>1, <2>3 DEF Returning
    <3> QED
      BY <2>1, <2>2, <2>3, <3>1 DEF Moved, FileIn
  <2>4. CASE t # u
    BY <2>1, <2>2, <2>4 DEF Moved, FileIn
  <2> QED
    BY <2>1, <2>2, <2>3, <2>4
<1> QED
  BY <1>1, <1>2, <1>3, <1>4, <1>5, <1>6

\* A file, if there is one.
LEMMA FileInType ==
  ASSUME NEW tree \in Tree \cup {None}, NEW f \in Files
  PROVE  FileIn(tree, f) \in File \cup {None}
BY DEF FileIn, Tree, Listing

\* The watcher moves a folder aside and nobody adds one before it is done; time
\* does not run backwards.
LEMMA AsideStep ==
  ASSUME TypeOK, AsideAlone, Folders \/ Watcher
  PROVE  AsideAlone' /\ clock \in Nat /\ clock' \in Nat /\ clock' >= clock
<1> USE DEF TypeOK, DiskType, WatchType
<1>1. clock \in Nat /\ clock' \in Nat
  BY DiskStepType DEF Clock
<1>2. clock' >= clock
  BY <1>1 DEF Folders, WriteFile, RemoveFile, EditSidecar, AddFolder, RemoveFolder,
     StageFile, Tick, Watcher, Observe, SettleWindowPasses, PromoteNew, MoveAside,
     Replace, RestoreOld, diskVars
<1>3. ASSUME Folders PROVE AsideAlone'
  <2>1. wpc' = wpc
    BY <1>3 DEF Folders, WriteFile, RemoveFile, EditSidecar, AddFolder, RemoveFolder,
                StageFile, watchVars
  <2>2. \A t \in Titles : lib'[t] # None => lib[t] # None \/ wpc # t
    BY <1>3 DEF Folders, WriteFile, RemoveFile, EditSidecar, AddFolder, RemoveFolder,
                StageFile
  <2> QED
    BY <2>1, <2>2 DEF AsideAlone
<1>4. ASSUME Watcher PROVE AsideAlone'
  <2>1. PICK u \in Titles : \/ Observe(u) \/ SettleWindowPasses(u) \/ PromoteNew(u)
                            \/ MoveAside(u) \/ Replace(u) \/ RestoreOld(u)
    BY <1>4 DEF Watcher
  <2>2. CASE Observe(u) \/ SettleWindowPasses(u)
    BY <2>2 DEF AsideAlone, Observe, SettleWindowPasses, diskVars
  <2>3. CASE PromoteNew(u) \/ Replace(u) \/ RestoreOld(u)
    BY <2>3, NoneAssumption DEF AsideAlone, PromoteNew, Replace, RestoreOld
  <2>4. CASE MoveAside(u)
    BY <2>4 DEF AsideAlone, MoveAside
  <2> QED
    BY <2>1, <2>2, <2>3, <2>4
<1> QED
  BY <1>1, <1>2, <1>3, <1>4

\* Files that move in these ways keep what is known of them true.
LEMMA DiskFast ==
  ASSUME TypeOK, FastInv, Folders \/ Watcher
  PROVE  PastOnly' /\ AsideAlone' /\ StagedUnseen' /\ KnownSound'
<1>1. UNCHANGED <<row, cache, cur, prev, walked, built, loaded>>
  BY DiskStepType DEF scanVars
<1>2. AsideAlone' /\ clock' >= clock /\ clock \in Nat /\ clock' \in Nat
  BY AsideStep DEF FastInv
<1>3. ASSUME NEW t \in Titles, NEW f \in Files
      PROVE  /\ FilesFast(t, f)' /\ \A r \in Scanners : WalkFast(r, t, f)'
             /\ \A e \in Known(t, f)' : EntryFast(t, f, e)'
  <2> DEFINE L == FileIn(lib[t], f)
             S == FileIn(stage[t], f)
             A == FileIn(aside[t], f)
             R == FileIn(Returning(t), f)
  <2>1. Moved(t, f)
    BY FoldersMove, WatcherMoves DEF FastInv
  <2>2. /\ FilesFast(t, f)
        /\ \A r \in Scanners : WalkFast(r, t, f)
        /\ \A e \in Known(t, f) : EntryFast(t, f, e)
    BY FastParts DEF FastInv
  <2>3. {L, S, A, R} \subseteq File \cup {None}
    BY FileInType DEF TypeOK, DiskType, Returning
  <2>4. Past(R)
    BY <2>2 DEF FilesFast, Returning, Past, FileIn
  <2>5. \A x \in File : x.mtime \in Nat
    BY DEF File, Clock
  <2>6. \A r \in Scanners : walked[r][f] # None => walked[r][f].mtime \in Nat
    BY DEF TypeOK, TitleType, Stat, Clock
  <2>7. \A e \in Known(t, f) : e \in File \cup {None}
    BY OldEntriesType DEF Known, TypeOK, TableType, TitleType, Row, Listing
  <2>8. \/ L' \in {L, None} /\ S' = S /\ A' = A /\ R' \in {R, None}
        \/ Fresh(L') /\ S' = S /\ A' = A /\ R' \in {R, None}
        \/ Fresh(S') /\ L' = L /\ A' = A /\ R' \in {R, None}
        \/ L' = S /\ S' = None /\ A' \in {A, None} /\ R' = None
        \/ L' = None /\ S' = S /\ A' = L /\ R' = L
        \/ L' = R /\ S' = S /\ A' \in {A, None} /\ R' = None
    BY <2>1 DEF Moved
  <2>9. Past(L) /\ Past(S) /\ Past(A) /\ Apart(L, S) /\ Apart(R, S)
    BY <2>2 DEF FilesFast
  <2>10. FilesFast(t, f)'
    <3>1. Past(L)' /\ Past(S)' /\ Past(A)'
      BY <1>2, <2>3, <2>4, <2>5, <2>8, <2>9 DEF Past, Fresh
    <3>2. Apart(L, S)' /\ Apart(R, S)'
      BY <1>2, <2>3, <2>4, <2>5, <2>8, <2>9 DEF Past, Apart, Fresh
    <3> QED
      BY <3>1, <3>2 DEF FilesFast
  <2>11. ASSUME NEW r \in Scanners
         PROVE  WalkFast(r, t, f)'
    <3>1. Past(walked[r][f]) /\ (cur[r] = t => Apart(walked[r][f], S))
      BY <2>2 DEF WalkFast
    <3>2. Past(walked[r][f])' /\ (cur[r] = t => Apart(walked[r][f], S)')
      BY <1>1, <1>2, <2>3, <2>5, <2>6, <2>8, <3>1 DEF Past, Apart, Fresh
    <3> QED
      BY <1>1, <3>2 DEF WalkFast
  <2>12. ASSUME NEW e \in Known(t, f)
         PROVE  EntryFast(t, f, e)'
    <3>1. Past(e) /\ Apart(e, S) /\ Vouches(e, L) /\ Vouches(e, R)
      BY <2>2 DEF EntryFast
    <3>2. Past(e)' /\ Apart(e, S)'
      BY <1>2, <2>3, <2>5, <2>7, <2>8, <3>1 DEF Past, Apart, Fresh
    <3>3. Vouches(e, L)' /\ Vouches(e, R)'
      BY <1>2, <2>3, <2>5, <2>7, <2>8, <3>1 DEF Past, Apart, Vouches, Fresh
    <3> QED
      BY <3>2, <3>3 DEF EntryFast
  <2>13. Known(t, f)' = Known(t, f)
    BY <1>1 DEF Known
  <2> QED
    BY <2>10, <2>11, <2>12, <2>13
<1> QED
  BY <1>2, <1>3, FastPartsNext

\* The fast check's invariant is inductive.
LEMMA NextFast ==
  ASSUME TypeOK, FastInv, [Next]_vars
  PROVE  FastInv'
<1>1. LocalsBlank'
  BY BlankStep DEF FastInv
<1>2. CASE UNCHANGED vars
  <2>1. UNCHANGED <<clock, lib, aside, stage, row, cache, cur, prev, walked, built,
                    loaded, wpc>>
    BY <1>2 DEF vars, diskVars, scanVars, watchVars
  <2> QED
    BY <1>1, <2>1 DEF FastInv, PastOnly, AsideAlone, StagedUnseen, KnownSound, Past,
                      Apart, Vouches, Known, FileIn, Returning
<1> QED
  BY <1>1, <1>2, ScanFast, RestartFast, DiskFast DEF Next, FastInv

\* Before the first step nothing is known.
LEMMA InitFast == Init => TypeOK /\ FastInv
<1> SUFFICES ASSUME Init PROVE TypeOK /\ FastInv
  OBVIOUS
<1>1. Empty \in Listing /\ Empty \in [Files -> Stat \cup {None}]
  BY EmptyType DEF Empty
<1>2. TypeOK
  <2>1. NoRow \in Row
    BY <1>1 DEF NoRow, Row
  <2>2. 0 \in Clock
    BY LibraryAssumption DEF Clock
  <2> QED
    BY <1>1, <2>1, <2>2 DEF Init, TypeOK, DiskType, TableType, ScanType, TitleType,
                            WatchType, HistType, AtTitle
<1>3. \A t \in Titles, f \in Files : Known(t, f) \subseteq {None}
  BY NoEntries, NoneAssumption DEF Init, Known, NoRow
<1>4. LocalsBlank /\ AsideAlone
  BY DEF Init, LocalsBlank, Blank, AsideAlone
<1>5. ASSUME NEW t \in Titles, NEW f \in Files
      PROVE  /\ FilesFast(t, f) /\ \A r \in Scanners : WalkFast(r, t, f)
             /\ \A e \in Known(t, f) : EntryFast(t, f, e)
  BY <1>3, NoneAssumption
  DEF Init, FilesFast, WalkFast, EntryFast, FileIn, Returning, Past, Apart, Vouches,
      Empty
<1> QED
  BY <1>2, <1>4, <1>5, FastParts DEF FastInv

\* Every behaviour keeps the types of its variables.
THEOREM TypeCorrect == Spec => []TypeOK
<1>1. Init => TypeOK
  BY InitFast
<1>2. TypeOK /\ [Next]_vars => TypeOK'
  BY NextTypeOK
<1> QED
  BY <1>1, <1>2, PTL DEF Spec

\* The fast check never vouches for bytes that were not hashed, whatever the
\* number of titles, files and concurrent scans (scan_title, hash_one_file).
THEOREM FastCheckSoundness == Spec => []FastCheckSound
<1>1. Init => TypeOK /\ FastInv
  BY InitFast
<1>2. TypeOK /\ FastInv /\ [Next]_vars => TypeOK' /\ FastInv'
  BY NextTypeOK, NextFast
<1>3. TypeOK /\ FastInv => FastCheckSound
  <2> SUFFICES ASSUME FastInv, NEW t \in Titles, NEW f \in Files, lib[t] # None
               PROVE  /\ Vouches(row[t].files[f], lib[t].files[f])
                      /\ cache[t] # None => Vouches(cache[t].files[f], lib[t].files[f])
    BY DEF FastCheckSound
  <2>1. FileIn(lib[t], f) = lib[t].files[f]
    BY DEF FileIn
  <2>2. \A e \in Known(t, f) : Vouches(e, lib[t].files[f])
    BY <2>1 DEF FastInv, KnownSound
  <2> QED
    BY <2>2 DEF Known, OldEntries
<1> QED
  BY <1>1, <1>2, <1>3, PTL DEF Spec

-----------------------------------------------------------------------------
(* The table and what is served, while scans do not overlap. *)

\* A scan's step touches its own locals, and starts or goes on.
LEMMA ScanFrame ==
  ASSUME TypeOK, NEW s \in Scanners, ScanStep(s) \/ TitleError(s)
  PROVE  /\ \A r \in Scanners \ {s} : pc'[r] = pc[r]
         /\ \/ pc[s] # "idle" /\ overlap' = overlap
            \/ ScanStart(s)
<1> USE DEF TypeOK, ScanType
<1>1. CASE \E t \in Titles : SkipTitle(s, t) \/ ScanTitle(s, t) \/ MarkRemoved(s, t)
  BY <1>1 DEF SkipTitle, ScanTitle, MarkRemoved, Goto, histVars
<1>2. CASE \E f \in Files : HashFile(s, f) \/ ScanPanics(s, f)
  BY <1>2 DEF HashFile, ScanPanics, histVars
<1>3. CASE Previous(s) \/ Walk(s) \/ ReadSidecar(s) \/ Publish(s)
  BY <1>3 DEF Previous, Walk, ReadSidecar, Publish, Goto, histVars
<1>4. CASE UpdateInfo(s) \/ LoadManifest(s) \/ CacheManifest(s) \/ TitleError(s)
  BY <1>4 DEF UpdateInfo, LoadManifest, CacheManifest, TitleError, EndTitle, Goto,
              histVars
<1>5. CASE ListRemoved(s) \/ Uncache(s) \/ ScanEnd(s)
  BY <1>5 DEF ListRemoved, Uncache, ScanEnd, Goto, histVars
<1>6. CASE ScanStart(s)
  BY <1>6 DEF ScanStart, Goto
<1> QED
  BY <1>1, <1>2, <1>3, <1>4, <1>5, <1>6 DEF ScanStep

\* As long as scans have not overlapped, all the others are idle.
LEMMA OthersIdle ==
  ASSUME TypeOK, OneScan, NEW s \in Scanners, ScanStep(s) \/ TitleError(s), ~overlap'
  PROVE  /\ ~overlap
         /\ \A r \in Scanners \ {s} : pc[r] = "idle" /\ pc'[r] = "idle"
<1>1. CASE pc[s] # "idle" /\ overlap' = overlap
  BY <1>1, ScanFrame DEF OneScan
<1>2. CASE ScanStart(s)
  BY <1>2, ScanFrame DEF ScanStart
<1> QED
  BY <1>1, <1>2, ScanFrame

\* Hence one scan still.
LEMMA OneScanStep ==
  ASSUME TypeOK, OneScan, NEW s \in Scanners, ScanStep(s) \/ TitleError(s)
  PROVE  OneScan'
BY OthersIdle DEF OneScan

\* What one scan s knows, and what is served, when all the others are idle.
ScanFollows(s) ==
  LET r == row[cur[s]] IN
  /\ pc[s] \in {"previous", "load", "cache"} => r.state = "published"
  /\ pc[s] \in {"walk", "hash", "publish"} => prev[s] = Reloaded(r) /\ r.state # "none"
  /\ pc[s] = "cache" => loaded[s] = ManifestOf(r)
  /\ pc[s] = "uncache" => r.state = "removed"

CacheFollows(s) ==
  \A t \in Titles :
    cache[t] = Reloaded(row[t])
      \/ (cur[s] = t /\ pc[s] \in {"load", "cache", "uncache"})

Behind(t) ==
  /\ row[t].state # "removed"
  /\ row[t].state \in {"none", "scanning"} => served[t] = {}
  /\ \A m \in served[t] :
       m.ver <= row[t].ver /\ (m.ver = row[t].ver => m = ManifestOf(row[t]))
  /\ \A m, n \in served[t] : m.ver = n.ver => m = n

\* One scan's view, when the others are idle.
LEMMA OneScanView ==
  ASSUME TableInv, NEW s \in Scanners, ~overlap,
         \A r \in Scanners \ {s} : pc[r] = "idle"
  PROVE  /\ PublishedHasVersion /\ ScanFollows(s) /\ CacheFollows(s)
         /\ \A t \in Titles \ dropped : Behind(t)
<1>1. ScanFollows(s)
  BY DEF TableInv, LocalsFollowTable, ScanFollows
<1>2. CacheFollows(s)
  BY DEF TableInv, CacheFollowsTable, Updating, CacheFollows
<1>3. \A t \in Titles \ dropped : Behind(t)
  BY DEF TableInv, ServedBehind, VersionsFixed, Behind
<1> QED
  BY <1>1, <1>2, <1>3 DEF TableInv

\* And back, for the state after a step.
LEMMA OneScanViewNext ==
  ASSUME OneScan', PublishedHasVersion', NEW s \in Scanners,
         ~overlap' => /\ \A r \in Scanners \ {s} : pc'[r] = "idle"
                      /\ ScanFollows(s)' /\ CacheFollows(s)'
                      /\ \A t \in Titles \ dropped' : Behind(t)'
  PROVE  TableInv'
<1>1. LocalsFollowTable'
  <2> SUFFICES ASSUME ~overlap', NEW r \in Scanners
               PROVE  ScanFollows(r)'
    BY DEF LocalsFollowTable, ScanFollows
  <2>1. CASE r = s
    BY <2>1
  <2>2. CASE r # s
    BY <2>2 DEF ScanFollows
  <2> QED
    BY <2>1, <2>2
<1>2. CacheFollowsTable'
  BY DEF CacheFollowsTable, CacheFollows, Updating
<1>3. ServedBehind' /\ VersionsFixed'
  BY DEF ServedBehind, VersionsFixed, Behind
<1> QED
  BY <1>1, <1>2, <1>3 DEF TableInv

\* A published title has a version, whatever the scans do.
LEMMA PublishedStep ==
  ASSUME TypeOK, PublishedHasVersion, [Next]_vars
  PROVE  PublishedHasVersion'
<1> USE DEF PublishedHasVersion
<1>1. CASE row' = row
  BY <1>1
<1>2. CASE \E s \in Scanners, t \in Titles : ScanTitle(s, t)
  BY <1>2 DEF ScanTitle, TypeOK, TableType, Row
<1>3. CASE \E s \in Scanners, t \in Titles : MarkRemoved(s, t)
  BY <1>3 DEF MarkRemoved, TypeOK, TableType, Row
<1>4. CASE \E s \in Scanners : UpdateInfo(s)
  BY <1>4 DEF UpdateInfo, TypeOK, TableType, Row
<1>5. CASE \E s \in Scanners : Publish(s)
  <2> PICK s \in Scanners : Publish(s)
    BY <1>5
  <2>1. NewVersion(prev[s]) > 0
    BY DEF TypeOK, TitleType, Manifest
  <2> QED
    BY <2>1, SMTT(60) DEF Publish, TypeOK, TableType
<1>6. CASE Folders \/ Watcher \/ UNCHANGED vars
  BY <1>1, <1>6, DiskStepType DEF vars
<1>7. CASE Restart
  BY <1>1, <1>7 DEF Restart
<1>8. CASE \E s \in Scanners :
             \/ ScanStart(s) \/ Previous(s) \/ Walk(s) \/ ReadSidecar(s)
             \/ LoadManifest(s) \/ CacheManifest(s) \/ ListRemoved(s) \/ Uncache(s)
             \/ ScanEnd(s) \/ TitleError(s)
             \/ \E t \in Titles : SkipTitle(s, t)
             \/ \E f \in Files : HashFile(s, f) \/ ScanPanics(s, f)
  <2>1. row' = row
    BY <1>8, ZenonT(40) DEF ScanStart, Previous, Walk, ReadSidecar, LoadManifest, CacheManifest,
                ListRemoved, Uncache, ScanEnd, TitleError, SkipTitle, HashFile, ScanPanics
  <2> QED
    BY <1>1, <2>1
<1> QED
  BY <1>2, <1>3, <1>4, <1>5, <1>6, <1>7, <1>8 DEF Next, ScanStep

\* Where the scan leaves the table and what is served alone.
LEMMA QuietStep ==
  ASSUME TypeOK, FastInv, NEW s \in Scanners,
         PublishedHasVersion, ScanFollows(s), CacheFollows(s),
         \A t \in Titles \ dropped : Behind(t),
         \/ ScanStart(s) \/ Walk(s) \/ ReadSidecar(s) \/ TitleError(s)
         \/ ListRemoved(s) \/ ScanEnd(s)
         \/ \E t \in Titles : SkipTitle(s, t)
         \/ \E f \in Files : HashFile(s, f) \/ ScanPanics(s, f)
  PROVE  /\ ScanFollows(s)' /\ CacheFollows(s)'
         /\ \A t \in Titles \ dropped' : Behind(t)'
<1>1. UNCHANGED <<row, cache, served, dropped>>
  BY DEF ScanStart, Walk, ReadSidecar, TitleError, ListRemoved, ScanEnd, SkipTitle,
         HashFile, ScanPanics, histVars
<1>2. /\ pc[s] \notin {"load", "cache", "uncache"}
      /\ \/ pc'[s] \in {"idle", "next", "remove"}
         \/ /\ pc[s] \in {"walk", "hash"} /\ pc'[s] \in {"hash", "publish"}
            /\ UNCHANGED <<cur, prev>>
  BY DEF ScanStart, Walk, ReadSidecar, TitleError, ListRemoved, ScanEnd, SkipTitle,
         HashFile, ScanPanics, EndTitle, Goto, TypeOK, ScanType, titleVars
<1>3. ScanFollows(s)'
  BY <1>1, <1>2 DEF ScanFollows
<1>4. CacheFollows(s)'
  BY <1>1, <1>2 DEF CacheFollows
<1>5. \A t \in Titles \ dropped' : Behind(t)'
  BY <1>1 DEF Behind
<1> QED
  BY <1>3, <1>4, <1>5

\* A step that changes a row's state or sidecar only leaves its manifest.
LEMMA SameManifest ==
  ASSUME NEW r \in Row, NEW q \in Row, q.ver = r.ver, q.files = r.files
  PROVE  ManifestOf(q) = ManifestOf(r)
BY DEF ManifestOf

\* Where the scan reads the table.
LEMMA ReadStep ==
  ASSUME TypeOK, FastInv, NEW s \in Scanners,
         PublishedHasVersion, ScanFollows(s), CacheFollows(s),
         \A t \in Titles \ dropped : Behind(t),
         Previous(s) \/ LoadManifest(s)
  PROVE  /\ ScanFollows(s)' /\ CacheFollows(s)'
         /\ \A t \in Titles \ dropped' : Behind(t)'
<1> USE DEF TypeOK, ScanType, TitleType
<1>1. UNCHANGED <<row, cache, cur, served, dropped>>
  BY DEF Previous, LoadManifest, histVars
<1>2. cur[s] \in Titles
  BY DEF Previous, LoadManifest, AtTitle
<1>3. \A t \in Titles \ dropped' : Behind(t)'
  BY <1>1 DEF Behind
<1>4. CASE Previous(s)
  <2>1. pc[s] = "previous" /\ pc'[s] = "walk"
    BY <1>4 DEF Previous, Goto
  <2>2. row[cur[s]].state = "published" /\ cache[cur[s]] = ManifestOf(row[cur[s]])
    BY <1>2, <2>1 DEF ScanFollows, CacheFollows
  <2>3. prev'[s] = ManifestOf(row[cur[s]])
    BY <1>4, <2>2 DEF Previous
  <2>4. ScanFollows(s)'
    BY <1>1, <2>1, <2>2, <2>3 DEF ScanFollows
  <2>5. CacheFollows(s)'
    BY <1>1, <2>1 DEF CacheFollows
  <2> QED
    BY <1>3, <2>4, <2>5
<1>5. CASE LoadManifest(s)
  <2>1. /\ pc[s] = "load" /\ pc'[s] = "cache"
        /\ loaded'[s] = ManifestOf(row[cur[s]])
    BY <1>5 DEF LoadManifest, Goto
  <2>2. ScanFollows(s)'
    BY <1>1, <2>1 DEF ScanFollows
  <2>3. CacheFollows(s)'
    BY <1>1, <2>1 DEF CacheFollows
  <2> QED
    BY <1>3, <2>2, <2>3
<1> QED
  BY <1>4, <1>5

\* Where the scan begins a title: a row comes into being, or stays.
LEMMA ScanTitleStep ==
  ASSUME TypeOK, FastInv, NEW s \in Scanners,
         PublishedHasVersion, ScanFollows(s), CacheFollows(s),
         \A t \in Titles \ dropped : Behind(t),
         NEW u \in Titles, ScanTitle(s, u)
  PROVE  /\ ScanFollows(s)' /\ CacheFollows(s)'
         /\ \A t \in Titles \ dropped' : Behind(t)'
<1> USE DEF TypeOK, ScanType, TitleType, TableType
<1>1. /\ UNCHANGED <<cache, served, dropped, prev>>
      /\ pc[s] = "next" /\ cur'[s] = u
      /\ pc'[s] = IF HasManifest(row[u]) THEN "previous" ELSE "walk"
  BY DEF ScanTitle, Goto, histVars
<1>2. prev[s] = None
  BY <1>1 DEF FastInv, LocalsBlank, Blank
<1>3. \A t \in Titles : /\ row'[t] \in Row /\ row[t] \in Row
                        /\ row'[t].ver = row[t].ver /\ row'[t].files = row[t].files
                        /\ \/ row'[t].state = row[t].state
                           \/ row[t].state = "none" /\ row'[t].state = "scanning"
  BY DEF ScanTitle, Row
<1>4. row'[u].state # "none"
  BY DEF ScanTitle, Row
<1>5. \A t \in Titles : ManifestOf(row'[t]) = ManifestOf(row[t])
  BY <1>3, SameManifest
<1>6. ScanFollows(s)'
  BY <1>1, <1>2, <1>3, <1>4 DEF ScanFollows, PublishedHasVersion
<1>7. CacheFollows(s)'
  BY <1>1, <1>3, <1>5 DEF CacheFollows
<1>8. \A t \in Titles \ dropped' : Behind(t)'
  BY <1>1, <1>3, <1>5 DEF Behind
<1> QED
  BY <1>6, <1>7, <1>8

\* Where a new version goes into the table.
LEMMA PublishStep ==
  ASSUME TypeOK, FastInv, NEW s \in Scanners,
         PublishedHasVersion, ScanFollows(s), CacheFollows(s),
         \A t \in Titles \ dropped : Behind(t),
         Publish(s)
  PROVE  /\ ScanFollows(s)' /\ CacheFollows(s)'
         /\ \A t \in Titles \ dropped' : Behind(t)'
<1> USE DEF TypeOK, ScanType, TitleType, TableType
<1> DEFINE T == cur[s]
<1>1. /\ UNCHANGED <<cache, cur, served, dropped>>
      /\ pc[s] = "publish" /\ pc'[s] = "load"
  BY DEF Publish, Goto, histVars, titleVars
<1>2. T \in Titles
  BY <1>1 DEF AtTitle
<1>3. /\ row'[T].state = "published" /\ row'[T].ver = NewVersion(prev[s])
      /\ \A t \in Titles \ {T} : row'[t] = row[t]
  BY <1>2 DEF Publish
<1>4. ScanFollows(s)'
  BY <1>1, <1>3 DEF ScanFollows
<1>5. CacheFollows(s)'
  BY <1>1, <1>3 DEF CacheFollows
<1>6. prev[s] = Reloaded(row[T])
  BY <1>1 DEF ScanFollows
<1>7. T \notin dropped => \A m \in served[T] : m.ver < row'[T].ver
  <2> SUFFICES ASSUME T \notin dropped, NEW m \in served[T]
               PROVE  m.ver < row'[T].ver
    OBVIOUS
  <2>1. Behind(T) /\ row[T] \in Row
    BY <1>2
  <2>2. row[T].state = "published"
    BY <2>1 DEF Behind, Row
  <2>3. prev[s] = ManifestOf(row[T]) /\ prev[s] # None
    BY <1>6, <2>1, <2>2, RowEntries
  <2>4. row'[T].ver = row[T].ver + 1
    BY <1>3, <2>3 DEF ManifestOf
  <2>5. m \in Manifest /\ m.ver <= row[T].ver
    BY <1>2, <2>1 DEF Behind, HistType
  <2> QED
    BY <2>1, <2>4, <2>5 DEF Manifest, Row
<1>8. row'[T].ver \in Nat
  BY <1>3 DEF Manifest
<1>9. ASSUME NEW t \in Titles \ dropped'
      PROVE  Behind(t)'
  <2>1. CASE t = T
    <3>1. \A m \in served[T] : m.ver \in Nat
      BY <1>2 DEF HistType, Manifest
    <3> QED
      BY <1>1, <1>2, <1>3, <1>7, <1>8, <2>1, <3>1 DEF Behind
  <2>2. CASE t # T
    <3>1. Behind(t) /\ row'[t] = row[t]
      BY <1>1, <1>3, <2>2
    <3> QED
      BY <1>1, <3>1 DEF Behind
  <2> QED
    BY <2>1, <2>2
<1> QED
  BY <1>4, <1>5, <1>9

\* Where the sidecar is updated.
LEMMA UpdateInfoStep ==
  ASSUME TypeOK, FastInv, NEW s \in Scanners,
         PublishedHasVersion, ScanFollows(s), CacheFollows(s),
         \A t \in Titles \ dropped : Behind(t),
         UpdateInfo(s)
  PROVE  /\ ScanFollows(s)' /\ CacheFollows(s)'
         /\ \A t \in Titles \ dropped' : Behind(t)'
<1> USE DEF TypeOK, ScanType, TitleType, TableType
<1>1. /\ UNCHANGED <<cache, served, dropped>>
      /\ pc[s] = "publish" /\ pc'[s] = "next"
  BY DEF UpdateInfo, EndTitle, Goto, histVars
<1>2. \A t \in Titles : /\ row'[t] \in Row /\ row[t] \in Row
                        /\ row'[t].ver = row[t].ver /\ row'[t].files = row[t].files
                        /\ row'[t].state = row[t].state
  BY DEF UpdateInfo, Row
<1>3. \A t \in Titles : ManifestOf(row'[t]) = ManifestOf(row[t])
  BY <1>2, SameManifest
<1>4. ScanFollows(s)'
  BY <1>1 DEF ScanFollows
<1>5. CacheFollows(s)'
  BY <1>1, <1>2, <1>3 DEF CacheFollows
<1>6. \A t \in Titles \ dropped' : Behind(t)'
  BY <1>1, <1>2, <1>3 DEF Behind
<1> QED
  BY <1>4, <1>5, <1>6

\* Where what is served catches up with a new version.
LEMMA CacheStep ==
  ASSUME TypeOK, FastInv, NEW s \in Scanners,
         PublishedHasVersion, ScanFollows(s), CacheFollows(s),
         \A t \in Titles \ dropped : Behind(t),
         CacheManifest(s)
  PROVE  /\ ScanFollows(s)' /\ CacheFollows(s)'
         /\ \A t \in Titles \ dropped' : Behind(t)'
<1> USE DEF TypeOK, ScanType, TitleType, TableType
<1> DEFINE T == cur[s]
<1>1. /\ UNCHANGED <<row, dropped>>
      /\ pc[s] = "cache" /\ pc'[s] = "next"
      /\ cache' = [cache EXCEPT ![T] = loaded[s]]
      /\ served' = [served EXCEPT ![T] = @ \cup {loaded[s]}]
  BY DEF CacheManifest, EndTitle, Goto
<1>2. T \in Titles
  BY <1>1 DEF AtTitle
<1>3. row[T].state = "published" /\ loaded[s] = ManifestOf(row[T])
  BY <1>1 DEF ScanFollows
<1>4. ScanFollows(s)'
  BY <1>1 DEF ScanFollows
<1>5. CacheFollows(s)'
  BY <1>1, <1>2, <1>3 DEF CacheFollows
<1>6. ASSUME NEW t \in Titles \ dropped'
      PROVE  Behind(t)'
  <2>1. Behind(t)
    BY <1>1
  <2>2. CASE t = T
    <3>1. served'[t] = served[t] \cup {ManifestOf(row[t])}
      BY <1>1, <1>2, <1>3, <2>2 DEF HistType
    <3>2. ManifestOf(row[t]).ver = row[t].ver /\ row[t].ver \in Nat
      BY DEF ManifestOf, Row
    <3> QED
      BY <1>1, <1>3, <2>1, <2>2, <3>1, <3>2 DEF Behind
  <2>3. CASE t # T
    <3>1. served'[t] = served[t]
      BY <1>1, <2>3 DEF HistType
    <3> QED
      BY <1>1, <2>1, <3>1 DEF Behind
  <2> QED
    BY <2>2, <2>3
<1> QED
  BY <1>4, <1>5, <1>6

\* Where a title whose folder is gone is taken out.
LEMMA RemoveStep ==
  ASSUME TypeOK, FastInv, NEW s \in Scanners,
         PublishedHasVersion, ScanFollows(s), CacheFollows(s),
         \A t \in Titles \ dropped : Behind(t),
         Uncache(s) \/ \E u \in Titles : MarkRemoved(s, u)
  PROVE  /\ ScanFollows(s)' /\ CacheFollows(s)'
         /\ \A t \in Titles \ dropped' : Behind(t)'
<1> USE DEF TypeOK, ScanType, TitleType, TableType
<1>1. CASE Uncache(s)
  <2> DEFINE T == cur[s]
  <2>1. /\ UNCHANGED <<row, served, dropped>>
        /\ pc[s] = "uncache" /\ pc'[s] = "remove"
        /\ cache' = [cache EXCEPT ![T] = None]
    BY <1>1 DEF Uncache, Goto, histVars
  <2>2. row[T].state = "removed"
    BY <2>1 DEF ScanFollows
  <2>3. ScanFollows(s)'
    BY <2>1 DEF ScanFollows
  <2>4. CacheFollows(s)'
    BY <2>1, <2>2 DEF CacheFollows
  <2>5. \A t \in Titles \ dropped' : Behind(t)'
    BY <2>1 DEF Behind
  <2> QED
    BY <2>3, <2>4, <2>5
<1>2. CASE \E u \in Titles : MarkRemoved(s, u)
  <2> PICK u \in Titles : MarkRemoved(s, u)
    BY <1>2
  <2>1. /\ UNCHANGED <<cache, served>> /\ dropped' = dropped \cup {u}
        /\ pc[s] = "remove" /\ pc'[s] = "uncache" /\ cur'[s] = u
    BY DEF MarkRemoved, Goto
  <2>2. row'[u].state = "removed" /\ \A t \in Titles \ {u} : row'[t] = row[t]
    BY DEF MarkRemoved, Row
  <2>3. ScanFollows(s)'
    BY <2>1, <2>2 DEF ScanFollows
  <2>4. CacheFollows(s)'
    BY <2>1, <2>2 DEF CacheFollows
  <2>5. \A t \in Titles \ dropped' : Behind(t)'
    BY <2>1, <2>2 DEF Behind
  <2> QED
    BY <2>3, <2>4, <2>5
<1> QED
  BY <1>1, <1>2

\* A process that has just started serves what the table says.
LEMMA RestartTable ==
  ASSUME TypeOK, TableInv, Restart
  PROVE  TableInv'
<1> USE DEF TypeOK, TableType
<1>1. /\ UNCHANGED <<row, dropped, overlap>>
      /\ \A s \in Scanners : pc'[s] = "idle"
      /\ \A t \in Titles : cache'[t] = Reloaded(row[t])
      /\ \A t \in Titles : served'[t] = served[t] \cup ({Reloaded(row[t])} \ {None})
  BY DEF Restart
<1>2. OneScan' /\ PublishedHasVersion' /\ LocalsFollowTable'
  BY <1>1 DEF TableInv, OneScan, PublishedHasVersion, LocalsFollowTable
<1>3. CacheFollowsTable'
  BY <1>1 DEF CacheFollowsTable
<1>4. ASSUME ~overlap, NEW t \in Titles \ dropped
      PROVE  Behind(t)'
  <2>1. Behind(t)
    BY <1>4 DEF TableInv, ServedBehind, VersionsFixed, Behind
  <2>2. ManifestOf(row[t]).ver = row[t].ver /\ row[t].ver \in Nat
    BY DEF ManifestOf, Row
  <2>3. CASE row[t].state = "published"
    <3>1. served'[t] = served[t] \cup {ManifestOf(row[t])}
      BY <1>1, <2>3, RowEntries
    <3> QED
      BY <1>1, <2>1, <2>2, <2>3, <3>1 DEF Behind
  <2>4. CASE row[t].state # "published"
    <3>1. served'[t] = served[t]
      BY <1>1, <2>4
    <3> QED
      BY <1>1, <2>1, <3>1 DEF Behind
  <2> QED
    BY <2>3, <2>4
<1>5. ServedBehind' /\ VersionsFixed'
  BY <1>1, <1>4 DEF ServedBehind, VersionsFixed, Behind
<1> QED
  BY <1>2, <1>3, <1>5 DEF TableInv

\* The invariant of the table is inductive.
LEMMA NextTable ==
  ASSUME TypeOK, FastInv, TableInv, [Next]_vars
  PROVE  TableInv'
<1>1. CASE Folders \/ Watcher \/ UNCHANGED vars
  <2>1. UNCHANGED <<row, cache, pc, cur, prev, loaded, served, dropped, overlap>>
    BY <1>1, DiskStepType DEF vars, scanVars, histVars
  <2> QED
    BY <2>1 DEF TableInv, OneScan, PublishedHasVersion, LocalsFollowTable,
                CacheFollowsTable, Updating, ServedBehind, VersionsFixed
<1>2. ASSUME NEW s \in Scanners, ScanStep(s) \/ TitleError(s)
      PROVE  TableInv'
  <2>1. OneScan' /\ PublishedHasVersion'
    BY <1>2, OneScanStep, PublishedStep DEF TableInv
  <2>2. ASSUME ~overlap'
        PROVE  /\ \A r \in Scanners \ {s} : pc'[r] = "idle"
               /\ ScanFollows(s)' /\ CacheFollows(s)'
               /\ \A t \in Titles \ dropped' : Behind(t)'
    <3>1. ~overlap /\ \A r \in Scanners \ {s} : pc[r] = "idle" /\ pc'[r] = "idle"
      BY <1>2, <2>2, OthersIdle DEF TableInv
    <3>2. /\ PublishedHasVersion /\ ScanFollows(s) /\ CacheFollows(s)
          /\ \A t \in Titles \ dropped : Behind(t)
      BY <3>1, OneScanView
    <3>3. CASE Publish(s)
      BY <3>1, <3>2, <3>3, PublishStep
    <3>4. CASE UpdateInfo(s)
      BY <3>1, <3>2, <3>4, UpdateInfoStep
    <3>5. CASE CacheManifest(s)
      BY <3>1, <3>2, <3>5, CacheStep
    <3>6. CASE Previous(s) \/ LoadManifest(s)
      BY <3>1, <3>2, <3>6, ReadStep
    <3>7. CASE Uncache(s) \/ \E u \in Titles : MarkRemoved(s, u)
      BY <3>1, <3>2, <3>7, RemoveStep
    <3>8. CASE \E u \in Titles : ScanTitle(s, u)
      BY <3>1, <3>2, <3>8, ScanTitleStep
    <3>9. CASE \/ ScanStart(s) \/ Walk(s) \/ ReadSidecar(s) \/ TitleError(s)
               \/ ListRemoved(s) \/ ScanEnd(s)
               \/ \E t \in Titles : SkipTitle(s, t)
               \/ \E f \in Files : HashFile(s, f) \/ ScanPanics(s, f)
      BY <3>1, <3>2, <3>9, QuietStep
    <3> QED
      BY <1>2, <3>3, <3>4, <3>5, <3>6, <3>7, <3>8, <3>9 DEF ScanStep
  <2> QED
    BY <2>1, <2>2, OneScanViewNext
<1> QED
  BY <1>1, <1>2, RestartTable DEF Next

-----------------------------------------------------------------------------
(* What the table has and is not served yet *)

\* What is served is one version behind the table from the commit of a version
\* until it is served, and not otherwise.
LEMMA NextAwaitedStep ==
  ASSUME TypeOK, FastInv, TableInv, NextAwaited, [Next]_vars
  PROVE  NextAwaited'
<1> USE DEF TypeOK, ScanType, TitleType, TableType
<1>1. CASE Folders \/ Watcher \/ UNCHANGED vars
  <2>1. UNCHANGED <<row, cache, pc, cur, overlap>>
    BY <1>1, DiskStepType DEF vars, scanVars, histVars
  <2> QED
    BY <2>1 DEF NextAwaited, Server!VersionOf
<1>2. CASE Restart
  BY <1>2 DEF Restart, NextAwaited
<1>3. ASSUME NEW s \in Scanners, ScanStep(s) \/ TitleError(s)
      PROVE  NextAwaited'
  <2> DEFINE T == cur[s]
  <2> SUFFICES ASSUME ~overlap', pc'[s] \in {"load", "cache"}
               PROVE  row'[cur'[s]].ver = Server!VersionOf(cache'[cur'[s]]) + 1
    BY <1>3, OthersIdle DEF NextAwaited, TableInv, Server!VersionOf
  <2>1. /\ ~overlap /\ ScanFollows(s) /\ CacheFollows(s)
    BY <1>3, OthersIdle, OneScanView DEF TableInv
  <2>2. CASE Publish(s)
    <3>1. /\ UNCHANGED <<cache, cur>> /\ pc[s] = "publish"
      BY <2>2 DEF Publish, titleVars
    <3>2. T \in Titles
      BY <3>1 DEF AtTitle
    <3>3. row'[T].ver = NewVersion(prev[s])
      BY <2>2, <3>2 DEF Publish
    <3>4. prev[s] = cache[T]
      BY <2>1, <3>1, <3>2 DEF ScanFollows, CacheFollows
    <3> QED
      BY <3>1, <3>3, <3>4 DEF NewVersion, Server!VersionOf
  <2>3. CASE LoadManifest(s)
    <3>1. UNCHANGED <<row, cache, cur>> /\ pc[s] = "load"
      BY <2>3 DEF LoadManifest
    <3> QED
      BY <2>1, <3>1 DEF NextAwaited, Server!VersionOf
  <2>4. CASE \/ ScanStart(s)
             \/ \E t \in Titles : SkipTitle(s, t) \/ ScanTitle(s, t) \/ MarkRemoved(s, t)
    BY <2>4 DEF ScanStart, SkipTitle, ScanTitle, MarkRemoved, Goto
  <2>5. CASE \E f \in Files : HashFile(s, f) \/ ScanPanics(s, f)
    BY <2>5 DEF HashFile, ScanPanics
  <2>6. CASE \/ Previous(s) \/ Walk(s) \/ ReadSidecar(s) \/ UpdateInfo(s) \/ CacheManifest(s)
             \/ ListRemoved(s) \/ Uncache(s) \/ ScanEnd(s) \/ TitleError(s)
    BY <2>6 DEF Previous, Walk, ReadSidecar, UpdateInfo, CacheManifest, ListRemoved,
                Uncache, ScanEnd, TitleError, EndTitle, Goto
  <2> QED
    BY <1>3, <2>2, <2>3, <2>4, <2>5, <2>6 DEF ScanStep
<1> QED
  BY <1>1, <1>2, <1>3 DEF Next

\* The inductive invariant holds of every behaviour.
THEOREM Inductive == Spec => []IndInv
<1>1. Init => TypeOK /\ FastInv
  BY InitFast
<1>2. Init => TableInv /\ NextAwaited
  BY DEF Init, TableInv, OneScan, PublishedHasVersion, LocalsFollowTable,
         CacheFollowsTable, ServedBehind, VersionsFixed, NoRow, NextAwaited
<1>3. IndInv /\ [Next]_vars => IndInv'
  BY NextTypeOK, NextFast, NextTable, NextAwaitedStep DEF IndInv
<1>4. Init => IndInv
  BY <1>1, <1>2 DEF IndInv
<1> QED
  BY <1>3, <1>4, PTL DEF Spec

\* While scans do not overlap, what is served is what the table says is
\* published, for any number of titles and scanning threads (cache_manifest,
\* reload_manifest_cache, the removals of scan_library).
THEOREM CacheAgreement == Spec => []CacheFollowsTable
<1>1. IndInv => CacheFollowsTable
  BY DEF IndInv, TableInv
<1> QED
  BY <1>1, Inductive, PTL

\* While scans do not overlap, a title that was never marked removed never has
\* two manifests under one version (scan_title's version = previous + 1).
THEOREM VersionsFixedness == Spec => []VersionsFixed
<1>1. IndInv => VersionsFixed
  BY DEF IndInv, TableInv
<1> QED
  BY <1>1, Inductive, PTL

-----------------------------------------------------------------------------
(* What the clients can rely on *)

Offer == [t \in Titles |-> IF t \in Lost THEN None ELSE cache[t]]

\* Where one title that is not lost goes up to the next version.
LEMMA OneRaised ==
  ASSUME NEW T \in Titles, T \notin Lost, Lost' = Lost,
         Server!VersionOf(cache'[T]) = Server!VersionOf(cache[T]) + 1,
         \A t \in Titles \ Lost : t = T \/ cache'[t] = cache[t]
  PROVE  Server!Raise(T)
<1>1. Offer' = [Offer EXCEPT ![T] = Offer'[T]]
  BY DEF Offer
<1>2. Offer'[T] = cache'[T] /\ Offer[T] = cache[T]
  BY DEF Offer
<1> QED
  BY <1>1, <1>2 DEF Server!Raise, Server!VersionOf, Offer

\* Where nothing changes but that titles are lost.
LEMMA SomeLost ==
  ASSUME NEW S \in SUBSET Titles, Lost' = Lost \cup S,
         \A t \in Titles \ Lost' : cache'[t] = cache[t]
  PROVE  Server!Lose(S)
<1>1. Offer' = [t \in Titles |-> IF t \in S THEN None ELSE Offer[t]]
  BY DEF Offer
<1> QED
  BY <1>1 DEF Server!Lose, Offer

\* A scan's step raises one title, loses one, or starts beside another scan and
\* loses them all.
LEMMA ScanOffers ==
  ASSUME IndInv, NEW s \in Scanners, ScanStep(s) \/ TitleError(s)
  PROVE  Server!ServerNext \/ UNCHANGED <<Offer, Lost>>
<1> USE DEF IndInv, TypeOK, ScanType, TableType
<1>1. CASE overlap
  <2>1. overlap'
    BY <1>1, ScanFrame DEF ScanStart
  <2> QED
    BY <1>1, <2>1 DEF Offer, Lost
<1>2. CASE ~overlap /\ overlap'
  <2>1. Lost' = Lost \cup Titles
    BY <1>2 DEF Lost, HistType
  <2> QED
    BY <2>1, SomeLost DEF Server!ServerNext, Lost
<1>3. CASE ~overlap'
  <2>1. ~overlap /\ \A r \in Scanners \ {s} : pc[r] = "idle"
    BY <1>3, OthersIdle DEF TableInv
  <2>2. /\ ScanFollows(s) /\ \A t \in Titles \ dropped : Behind(t)
        /\ Lost = dropped /\ Lost' = dropped'
    BY <1>3, <2>1, OneScanView DEF Lost
  <2>3. CASE CacheManifest(s)
    <3> DEFINE T == cur[s]
    <3>1. /\ pc[s] = "cache" /\ dropped' = dropped
          /\ cache' = [cache EXCEPT ![T] = loaded[s]]
      BY <2>3 DEF CacheManifest
    <3>2. T \in Titles
      BY <3>1 DEF AtTitle
    <3>3. loaded[s] = ManifestOf(row[T]) /\ loaded[s] # None
      BY <2>2, <3>1, <3>2, RowEntries DEF ScanFollows, AtTitle
    <3>4. Server!VersionOf(cache'[T]) = Server!VersionOf(cache[T]) + 1
      BY <2>1, <3>1, <3>2, <3>3 DEF NextAwaited, Server!VersionOf, ManifestOf
    <3>5. CASE T \in Lost
      BY <2>2, <3>1, <3>2, <3>5 DEF Offer
    <3>6. CASE T \notin Lost
      BY <2>2, <3>1, <3>2, <3>4, <3>6, OneRaised DEF Server!ServerNext
    <3> QED
      BY <3>5, <3>6
  <2>4. CASE Uncache(s)
    <3>1. /\ pc[s] = "uncache" /\ dropped' = dropped
          /\ cache' = [cache EXCEPT ![cur[s]] = None]
      BY <2>4 DEF Uncache, histVars
    <3>2. cur[s] \in dropped
      BY <2>2, <3>1 DEF ScanFollows, Behind, AtTitle
    <3> QED
      BY <2>2, <3>1, <3>2 DEF Offer
  <2>5. ASSUME NEW t \in Titles, MarkRemoved(s, t)
        PROVE  Server!ServerNext
    <3>1. Lost' = Lost \cup {t} /\ cache' = cache
      BY <2>2, <2>5 DEF MarkRemoved
    <3>2. {t} \in SUBSET Titles
      OBVIOUS
    <3>3. Server!Lose({t})
      BY <3>1, <3>2, SomeLost
    <3> QED
      BY <3>2, <3>3 DEF Server!ServerNext
  <2>6. CASE UNCHANGED <<cache, dropped>>
    BY <2>2, <2>6 DEF Offer
  <2>7. \/ CacheManifest(s) \/ Uncache(s) \/ \E t \in Titles : MarkRemoved(s, t)
        \/ UNCHANGED <<cache, dropped>>
    <3>1. CASE ScanStart(s) \/ \E t \in Titles : SkipTitle(s, t) \/ ScanTitle(s, t)
      BY <3>1 DEF ScanStart, SkipTitle, ScanTitle, histVars
    <3>2. CASE \E f \in Files : HashFile(s, f) \/ ScanPanics(s, f)
      BY <3>2 DEF HashFile, ScanPanics, histVars
    <3>3. CASE Previous(s) \/ Walk(s) \/ ReadSidecar(s) \/ Publish(s) \/ UpdateInfo(s)
      BY <3>3 DEF Previous, Walk, ReadSidecar, Publish, UpdateInfo, histVars
    <3>4. CASE LoadManifest(s) \/ ListRemoved(s) \/ ScanEnd(s) \/ TitleError(s)
      BY <3>4 DEF LoadManifest, ListRemoved, ScanEnd, TitleError, histVars
    <3> QED
      BY <3>1, <3>2, <3>3, <3>4 DEF ScanStep
  <2> QED
    BY <2>3, <2>4, <2>5, <2>6, <2>7
<1> QED
  BY <1>1, <1>2, <1>3 DEF HistType

\* A restart raises the title whose version was in the table and not yet
\* served, and changes nothing else.
LEMMA RestartOffers ==
  ASSUME IndInv, Restart
  PROVE  Server!ServerNext \/ UNCHANGED <<Offer, Lost>>
<1> USE DEF IndInv, TypeOK, ScanType, TableType
<1>1. /\ UNCHANGED <<row, dropped, overlap>> /\ Lost' = Lost
      /\ \A t \in Titles : cache'[t] = Reloaded(row[t])
  BY DEF Restart, Lost
<1>2. CASE \A t \in Titles \ Lost : cache'[t] = cache[t]
  BY <1>1, <1>2 DEF Offer
<1>3. ASSUME NEW T \in Titles \ Lost, cache'[T] # cache[T]
      PROVE  Server!ServerNext
  <2>1. ~overlap /\ T \notin dropped
    BY DEF Lost
  <2>2. PICK s \in Scanners : cur[s] = T /\ pc[s] \in {"load", "cache", "uncache"}
    BY <1>1, <1>3, <2>1 DEF TableInv, CacheFollowsTable, Updating
  <2>3. \A r \in Scanners \ {s} : pc[r] = "idle"
    BY <2>1, <2>2 DEF TableInv, OneScan
  <2>4. ScanFollows(s) /\ CacheFollows(s) /\ Behind(T)
    BY <2>1, <2>3, OneScanView
  <2>5. pc[s] \in {"load", "cache"} /\ row[T].state = "published"
    BY <2>2, <2>4 DEF ScanFollows, Behind
  <2>6. cache'[T] = ManifestOf(row[T]) /\ cache'[T] # None
    BY <1>1, <2>5, RowEntries DEF Reloaded
  <2>7. Server!VersionOf(cache'[T]) = Server!VersionOf(cache[T]) + 1
    BY <2>1, <2>2, <2>5, <2>6 DEF NextAwaited, Server!VersionOf, ManifestOf
  <2>8. \A t \in Titles \ Lost : t = T \/ cache'[t] = cache[t]
    BY <1>1, <2>2, <2>4 DEF CacheFollows
  <2> QED
    BY <1>1, <2>7, <2>8, OneRaised DEF Server!ServerNext
<1> QED
  BY <1>2, <1>3

\* For any titles, files and scanning threads the clients see a server that
\* raises the version of a title one by one and never takes it back, until the
\* title is marked removed or scans overlap (replace_manifest, cache_manifest,
\* reload_manifest_cache).
THEOREM ImplementsServer == Spec => OffersStand
<1>1. Init => Server!ServerInit
  <2> SUFFICES ASSUME Init PROVE Server!ServerInit
    OBVIOUS
  <2>1. Lost = {} /\ \A t \in Titles : cache[t] = None
    BY DEF Init, Lost
  <2> QED
    BY <2>1 DEF Server!ServerInit, Server!VersionOf
<1>2. IndInv /\ [Next]_vars => [Server!ServerNext]_Server!serverVars
  <2> SUFFICES ASSUME IndInv, [Next]_vars
               PROVE  Server!ServerNext \/ UNCHANGED <<Offer, Lost>>
    BY DEF Server!serverVars, Offer
  <2>1. CASE Folders \/ Watcher \/ UNCHANGED vars
    <3>1. UNCHANGED <<cache, dropped, overlap>>
      BY <2>1, DiskStepType DEF vars, histVars, IndInv, TypeOK
    <3> QED
      BY <3>1 DEF Offer, Lost
  <2> QED
    BY <2>1, ScanOffers, RestartOffers DEF Next
<1> QED
  BY <1>1, <1>2, Inductive, PTL DEF Spec, OffersStand, Server!ServerSpec
=============================================================================
