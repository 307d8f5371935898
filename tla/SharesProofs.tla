---------------------------- MODULE SharesProofs ----------------------------
(***************************************************************************)
(* Proofs about Shares: a listed share has its files, for any number of    *)
(* uploads, deletions and downloads, any names, and sweeps that may fail   *)
(* at every step. A name that is not exposed has at most one owner, a      *)
(* running upload or a row, and only its owner's steps, and the deletion   *)
(* that dooms the row, touch the entry.                                    *)
(***************************************************************************)
EXTENDS Shares, WellFoundedInduction, FiniteSetTheorems, TLAPS

\* Null is none of the names and requests.
Setting ==
  /\ MaxCopies \in Nat /\ Parts \in Nat \ {0}
  /\ Null \notin Stored \cup Uploads

RowRec == [up : Uploads, at : Stored, kind : Kinds, parts : SUBSET PartIds,
           doomed : BOOLEAN]
UpRec == [pc : {"idle", "open", "writing", "failed", "listed"},
          kind : Kinds \cup {Null}, name : Names \cup {Null},
          used : SUBSET Stored, at : Stored \cup {Null}, part : 0..Parts]
DelRec == [pc : {"idle", "found", "removed"}, id : Nat, at : Stored \cup {Null}]

SweepRec == [on : BOOLEAN, valid : SUBSET Stored,
             tried : SUBSET Stored]

Types ==
  /\ kinds \in [Stored -> Kinds \cup {"none"}]
  /\ files \in [Stored -> [PartIds -> FileRec]]
  /\ fresh \subseteq Stored /\ exposed \subseteq Stored
  /\ rows \in [DOMAIN rows -> RowRec]
  /\ \E m \in Nat : DOMAIN rows \subseteq 0..m
  /\ up \in [Uploads -> UpRec]
  /\ del \in [Deletes -> DelRec]
  /\ sweep \in SweepRec

\* A running upload knows what it uploads; its entry is made with its first
\* part. A deletion under way knows the entry.
Begun ==
  /\ \A u \in Uploads : up[u].pc = "idle" => up[u].part = 0 /\ up[u].at = Null
  /\ \A u \in Uploads : Running(u) =>
       /\ up[u].kind \in Kinds /\ up[u].name \in Names
       /\ IF up[u].part = 0 THEN up[u].at = Null /\ up[u].pc = "open"
                            ELSE up[u].at \in Stored
  /\ \A d \in Deletes : del[d].pc # "idle" => del[d].at \in Stored

-----------------------------------------------------------------------------
(* Numbers *)

\* A set of naturals that is not empty has a least element.
LEMMA LeastExists ==
  ASSUME NEW S \in SUBSET Nat, S # {}
  PROVE  \E x \in S : \A y \in S : x <= y
<1>1. IsWellFoundedOn(OpToRel(<, Nat), Nat)  BY NatLessThanWellFounded
<1>2. PICK x \in S : \A y \in S : ~ (<<y, x>> \in OpToRel(<, Nat))
  BY <1>1, WFMin
<1>3. \A y \in S : ~ (y < x)  BY <1>2 DEF OpToRel
<1> QED  BY <1>3

\* A bounded set of naturals that is not empty has a greatest element.
LEMMA GreatestExists ==
  ASSUME NEW S \in SUBSET Nat, S # {}, NEW m \in Nat, S \subseteq 0..m
  PROVE  \E x \in S : \A y \in S : x >= y
<1> DEFINE B == {k \in Nat : \A y \in S : y <= k}
<1>1. B \in SUBSET Nat /\ B # {}
  <2>1. m \in B  BY DEF B
  <2> QED  BY <2>1
<1>2. PICK b \in B : \A k \in B : b <= k
  <2> HIDE DEF B
  <2> QED  BY <1>1, LeastExists
<1>3. b \in Nat /\ \A y \in S : y <= b
  BY <1>2
<1>4. b \in S
  <2> SUFFICES ASSUME b \notin S PROVE FALSE
    OBVIOUS
  <2>1. \A y \in S : y \in Nat /\ y < b
    BY <1>3
  <2>2. b > 0
    <3>1. PICK y \in S : TRUE
      OBVIOUS
    <3> QED
      BY <1>3, <2>1, <3>1
  <2>3. b - 1 \in Nat /\ \A y \in S : y <= b - 1
    BY <1>3, <2>1, <2>2
  <2>4. b - 1 \in B
    BY <2>3
  <2> QED
    BY <1>2, <1>3, <2>4
<1> QED
  BY <1>3, <1>4

\* A new row's number is no row's yet, and the next after one that is in use
\* (INTEGER PRIMARY KEY).
LEMMA NewId ==
  ASSUME Types
  PROVE  /\ NextId \in Nat /\ NextId \notin DOMAIN rows
         /\ \E i \in DOMAIN rows \cup {0} : NextId = 1 + i
<1> DEFINE S == DOMAIN rows \cup {0}
<1>1. PICK m \in Nat : DOMAIN rows \subseteq 0..m
  BY DEF Types
<1>2. S \in SUBSET Nat /\ S # {} /\ S \subseteq 0..m
  BY <1>1
<1> HIDE DEF S
<1>3. \E x \in S : \A y \in S : x >= y
  BY <1>2, GreatestExists
<1>4. Max(S) \in S /\ \A y \in S : Max(S) >= y
  BY <1>3 DEF Max
<1>5. NextId = 1 + Max(S)
  BY DEF NextId, S
<1>6. Max(S) \in Nat /\ \A y \in DOMAIN rows : y <= Max(S)
  BY <1>2, <1>4 DEF S
<1> QED
  BY <1>1, <1>4, <1>5, <1>6 DEF S

\* A name with the first free number is a name not used.
LEMMA UniqueIsFree ==
  ASSUME Setting, NEW used, NEW n \in Names,
         \E c \in 1..MaxCopies : <<n, c>> \notin used
  PROVE  Unique(used, n) \in Stored \ used
<1> DEFINE S == {c \in 1..MaxCopies : <<n, c>> \notin used}
<1>1. S \in SUBSET Nat /\ S # {}
  BY DEF Setting
<1>2. \E x \in S : \A y \in S : x <= y
  <2> HIDE DEF S
  <2> QED  BY <1>1, LeastExists
<1>3. Min(S) \in S
  <2> HIDE DEF S
  <2>1. \E x \in S : \A y \in S : x =< y  BY <1>2
  <2> QED  BY <2>1 DEF Min
<1>4. Unique(used, n) = <<n, Min(S)>>
  BY DEF Unique
<1> QED
  BY <1>3, <1>4 DEF Stored

-----------------------------------------------------------------------------
(* Types *)

\* Where the next part goes is a name on the drive, the upload's own or one it
\* has not seen in use.
LEMMA PlaceType ==
  ASSUME Setting, Types, Begun, NEW u \in Uploads, Running(u), HasRoom(u)
  PROVE  Place(u) \in Stored
<1>1. CASE up[u].kind = "folder" /\ up[u].at # Null
  BY <1>1 DEF Types, UpRec, Place
<1>2. CASE ~(up[u].kind = "folder" /\ up[u].at # Null)
  BY <1>2, UniqueIsFree DEF Begun, HasRoom, Place
<1> QED
  BY <1>1, <1>2

LEMMA SlotType ==
  ASSUME Setting, NEW k, NEW p \in PartIds
  PROVE  Slot(k, p) \in PartIds
BY DEF Setting, Slot, PartIds

LEMMA WriterType ==
  ASSUME Setting, Types, Begun, NEW u \in Uploads, up[u].pc = "writing"
  PROVE  /\ up[u].at \in Stored /\ up[u].part \in PartIds
         /\ Slot(up[u].kind, up[u].part) \in PartIds
<1>1. up[u].at \in Stored /\ up[u].part \in PartIds
  BY DEF Types, Begun, UpRec, Running, PartIds, Setting
<1> QED
  BY <1>1, SlotType

LEMMA UploadTypes ==
  ASSUME Setting, Types, Begun, NEW u \in Uploads, UploadStep(u)
  PROVE  Types' /\ Begun'
<1> USE DEF UpRec, driveVars
<1>1. ASSUME NEW k \in Kinds, NEW n \in Names, Begin(u, k, n) PROVE Types' /\ Begun'
  <2>1. OnDrive \subseteq Stored
    BY DEF OnDrive
  <2> DEFINE r == [up[u] EXCEPT !.pc = "open", !.kind = k, !.name = n, !.used = OnDrive]
  <2>5. r \in UpRec
    <3>1. up[u] \in UpRec
      BY DEF Types
    <3> QED
      BY <2>1, <3>1
  <2>2. up' \in [Uploads -> UpRec]
    <3>1. up' = [up EXCEPT ![u] = r]
      BY <1>1 DEF Begin
    <3> HIDE DEF r
    <3> QED
      BY <2>5, <3>1 DEF Types
  <2>3. Types'
    BY <1>1, <2>2 DEF Begin, Types
  <2>4. up[u].part = 0 /\ up[u].at = Null
    BY <1>1 DEF Begin, Begun
  <2> QED
    BY <1>1, <2>3, <2>4 DEF Begin, Types, Begun, Running
<1>2. CASE StartPart(u)
  <2> DEFINE s == Place(u)
             p == Slot(up[u].kind, up[u].part + 1)
  <2>1. s \in Stored
    BY <1>2, PlaceType DEF StartPart, Running
  <2>2. p \in PartIds /\ up[u].part + 1 \in 1..Parts
    <3>1. up[u].part + 1 \in 1..Parts
      BY <1>2 DEF StartPart, Types, Setting
    <3> QED
      BY <3>1, SlotType DEF PartIds
  <2>3. up[u].kind \in Kinds
    BY <1>2 DEF StartPart, Begun, Running
  <2> HIDE DEF s, p
  <2>4. /\ up' = [up EXCEPT ![u] = [@ EXCEPT !.pc = "writing", !.at = s,
                                          !.used = up[u].used \cup {s},
                                             !.part = up[u].part + 1]]
        /\ kinds' = [kinds EXCEPT ![s] = up[u].kind]
        /\ files' = [files EXCEPT ![s][p] = [by |-> u, whole |-> FALSE]]
        /\ fresh' \in {fresh, fresh \cup {s}} /\ exposed' \in {exposed, exposed \cup {s}}
        /\ UNCHANGED <<rows, del, sweep, fetch>>
    BY <1>2 DEF StartPart, Touch, s, p
  <2> DEFINE r == [up[u] EXCEPT !.pc = "writing", !.at = s, !.used = up[u].used \cup {s},
                                !.part = up[u].part + 1]
  <2>8. r \in UpRec /\ r.kind = up[u].kind /\ r.name = up[u].name
        /\ r.at \in Stored /\ r.part # 0 /\ r.pc = "writing"
    <3>1. up[u] \in UpRec /\ up[u].part \in Nat
      BY DEF Types, Setting
    <3>2. r.part = up[u].part + 1 /\ r.at = s /\ r.used = up[u].used \cup {s}
          /\ r.pc = "writing" /\ r.kind = up[u].kind /\ r.name = up[u].name
      BY <3>1
    <3>3. r \in UpRec
      <4>1. up[u].part + 1 \in 0..Parts /\ up[u].used \cup {s} \subseteq Stored
        BY <2>1, <2>2, <3>1 DEF Setting
      <4> QED
        BY <2>1, <3>1, <4>1
    <3> QED
      BY <2>1, <2>2, <3>1, <3>2, <3>3
  <2>9. up' = [up EXCEPT ![u] = r]
    BY <2>4 DEF r
  <2> HIDE DEF r
  <2>5. up' \in [Uploads -> UpRec] /\ kinds' \in [Stored -> Kinds \cup {"none"}]
    BY <2>1, <2>3, <2>4, <2>8, <2>9 DEF Types
  <2>6. files' \in [Stored -> [PartIds -> FileRec]]
    BY <2>1, <2>2, <2>4 DEF Types, FileRec
  <2>7. Types'
    BY <2>1, <2>4, <2>5, <2>6 DEF Types
  <2> QED
    BY <1>2, <2>4, <2>7, <2>8, <2>9 DEF StartPart, Types, Begun, Running
<1>3. CASE FinishPart(u)
  <2> DEFINE s == up[u].at
             p == Slot(up[u].kind, up[u].part)
  <2>1. s \in Stored /\ p \in PartIds
    BY <1>3, WriterType DEF FinishPart
  <2>2. Closed(files[s][p], u) \in FileRec
    BY <2>1 DEF Types, Closed, FileRec
  <2> HIDE DEF s, p
  <2>3. /\ files' = [files EXCEPT ![s][p] = Closed(@, u)]
        /\ fresh' \in {fresh, fresh \cup {s}}
        /\ up' = [up EXCEPT ![u].pc = "open"]
        /\ UNCHANGED <<kinds, rows, del, sweep, fetch, exposed>>
    BY <1>3 DEF FinishPart, s, p
  <2>4. files' \in [Stored -> [PartIds -> FileRec]]
    BY <2>1, <2>2, <2>3 DEF Types
  <2>5. up' \in [Uploads -> UpRec]
    <3> DEFINE r == [up[u] EXCEPT !.pc = "open"]
    <3>1. r \in UpRec
      BY DEF Types
    <3>2. up' = [up EXCEPT ![u] = r]
      BY <2>3
    <3> HIDE DEF r
    <3> QED
      BY <3>1, <3>2 DEF Types
  <2>6. Types'
    BY <2>1, <2>3, <2>4, <2>5 DEF Types
  <2>7. /\ up[u].pc = "writing" /\ up'[u].pc = "open" /\ up'[u].kind = up[u].kind
        /\ up'[u].name = up[u].name /\ up'[u].part = up[u].part
        /\ up'[u].at = up[u].at /\ \A v \in Uploads \ {u} : up'[v] = up[v]
    BY <1>3, <2>3 DEF FinishPart, Types
  <2> QED
    BY <2>3, <2>6, <2>7 DEF Begun, Running
<1>4. CASE AbortPart(u)
  <2> DEFINE s == up[u].at
             p == Slot(up[u].kind, up[u].part)
  <2>1. s \in Stored /\ p \in PartIds
    BY <1>4, WriterType DEF AbortPart
  <2> HIDE DEF s, p
  <2>2. /\ files' = [files EXCEPT ![s][p] = NoFile]
        /\ kinds' \in {kinds, [kinds EXCEPT ![s] = "none"]}
        /\ fresh' \in {fresh, fresh \cup {s}, fresh \ {s}}
        /\ up' = [up EXCEPT ![u] = Ended("failed")]
        /\ UNCHANGED <<rows, del, sweep, fetch, exposed>>
    BY <1>4 DEF AbortPart, Touch, s, p
  <2>3. NoFile \in FileRec
    BY DEF NoFile, FileRec
  <2>4. files' \in [Stored -> [PartIds -> FileRec]]
    BY <2>1, <2>2, <2>3 DEF Types
  <2>5. up' \in [Uploads -> UpRec]
    BY <2>2 DEF Types, Ended, NoUpload, Setting
  <2>6. Types'
    BY <2>1, <2>2, <2>4, <2>5 DEF Types
  <2> QED
    BY <2>2, <2>6 DEF Types, Begun, Running, Ended, NoUpload
<1>5. CASE Fail(u)
  <2>1. up' \in [Uploads -> UpRec]
    BY <1>5 DEF Fail, Types, Ended, NoUpload, Setting
  <2>2. Types'
    BY <1>5, <2>1 DEF Fail, Types
  <2> QED
    BY <1>5, <2>2 DEF Fail, Types, Begun, Running, Ended, NoUpload
<1>6. CASE List(u)
  <2>1. up' \in [Uploads -> UpRec]
    BY <1>6 DEF List, Types, Ended, NoUpload, Setting
  <2>2. up[u].at \in Stored /\ up[u].kind \in Kinds /\ 1..up[u].part \subseteq PartIds
    BY <1>6 DEF List, Types, Begun, Running, Setting, PartIds
  <2>3. DOMAIN rows' = DOMAIN rows \cup {NextId} /\ rows' \in [DOMAIN rows' -> RowRec]
    BY <1>6, <2>2 DEF List, WithRow, RowRec, Types
  <2>4. \E m \in Nat : DOMAIN rows' \subseteq 0..m
    <3>1. PICK m \in Nat : DOMAIN rows \subseteq 0..m
      BY DEF Types
    <3>2. NextId \in Nat
      BY NewId
    <3> DEFINE k == NextId
    <3> HIDE DEF k
    <3>3. k \in Nat /\ DOMAIN rows' \subseteq 0..(m + k)
      BY <2>3, <3>1, <3>2 DEF k
    <3> QED
      BY <3>1, <3>3
  <2>5. Types'
    BY <1>6, <2>1, <2>3, <2>4 DEF List, Types
  <2> QED
    BY <1>6, <2>5 DEF List, Types, Begun, Running, Ended, NoUpload
<1> QED
  BY <1>1, <1>2, <1>3, <1>4, <1>5, <1>6 DEF UploadStep

\* A removal, of everything or in vain, leaves the other entries alone.
LEMMA Removal ==
  ASSUME Types, NEW s \in Stored, RemoveAll(s) \/ RemoveSome(s)
  PROVE  /\ kinds' \in [Stored -> Kinds \cup {"none"}]
         /\ files' \in [Stored -> [PartIds -> FileRec]]
         /\ fresh' \subseteq Stored
         /\ \A t \in Stored \ {s} : /\ files'[t] = files[t] /\ kinds'[t] = kinds[t]
                                    /\ t \in fresh' <=> t \in fresh
<1>1. NoFile \in FileRec /\ Emptied \in [PartIds -> FileRec]
  BY DEF Emptied, NoFile, FileRec
<1>2. CASE RemoveAll(s)
  BY <1>1, <1>2 DEF RemoveAll, Types
<1>3. CASE RemoveSome(s)
  <2>1. PICK left \in SUBSET Held(s) :
          files' = [files EXCEPT ![s] = [p \in PartIds |->
                      IF p \in left THEN files[s][p] ELSE NoFile]]
    BY <1>3 DEF RemoveSome
  <2>2. kinds' = kinds /\ fresh' \in {fresh, fresh \cup {s}}
    BY <1>3 DEF RemoveSome, Touch
  <2> DEFINE e == [p \in PartIds |-> IF p \in left THEN files[s][p] ELSE NoFile]
  <2>3. e \in [PartIds -> FileRec]
    BY <1>1 DEF Types
  <2>4. files' = [files EXCEPT ![s] = e]
    BY <2>1
  <2> HIDE DEF e
  <2> QED
    BY <2>2, <2>3, <2>4 DEF Types
<1> QED
  BY <1>2, <1>3

LEMMA DeleteTypes ==
  ASSUME Setting, Types, Begun, NEW d \in Deletes, DeleteStep(d)
  PROVE  Types' /\ Begun'
<1> USE DEF driveVars
<1>1. ASSUME NEW i \in DOMAIN rows, LookUp(d, i) PROVE Types' /\ Begun'
  <2>1. rows[i].at \in Stored /\ i \in Nat
    BY DEF Types, RowRec
  <2>2. del' \in [Deletes -> DelRec]
    BY <1>1, <2>1 DEF LookUp, Types, DelRec
  <2>3. Types'
    BY <1>1, <2>2 DEF LookUp, Types
  <2> QED
    BY <1>1, <2>1, <2>3 DEF LookUp, Types, Begun, Running
<1>2. CASE RemoveFiles(d)
  <2> DEFINE s == del[d].at
  <2>1. s \in Stored
    BY <1>2 DEF RemoveFiles, Begun
  <2>2. (RemoveAll(s) \/ RemoveSome(s)) /\ exposed' \in {exposed, exposed \cup {s}}
    BY <1>2 DEF RemoveFiles
  <2> HIDE DEF s
  <2>3. /\ fresh' \subseteq Stored /\ kinds' \in [Stored -> Kinds \cup {"none"}]
        /\ files' \in [Stored -> [PartIds -> FileRec]] /\ exposed' \subseteq Stored
    BY <2>1, <2>2, Removal DEF Types
  <2>5. rows' \in [DOMAIN rows -> RowRec] /\ DOMAIN rows' = DOMAIN rows
    <3>1. CASE del[d].id \in DOMAIN rows
      <4> DEFINE i == del[d].id
                 r == [rows[i] EXCEPT !.doomed = TRUE]
      <4>1. r \in RowRec
        <5>1. rows[i] \in RowRec
          BY <3>1 DEF Types
        <5> HIDE DEF i
        <5> QED
          BY <5>1 DEF RowRec
      <4>2. rows' = [rows EXCEPT ![i] = r]
        BY <1>2, <3>1 DEF RemoveFiles
      <4> HIDE DEF r, i
      <4> QED
        BY <4>1, <4>2 DEF Types
    <3>2. CASE del[d].id \notin DOMAIN rows
      BY <1>2, <3>2 DEF RemoveFiles, Types
    <3> QED
      BY <3>1, <3>2
  <2>6. del' \in [Deletes -> DelRec]
    BY <1>2 DEF RemoveFiles, Types, DelRec
  <2>7. Types'
    BY <1>2, <2>3, <2>5, <2>6 DEF RemoveFiles, Types
  <2> QED
    BY <1>2, <2>7 DEF RemoveFiles, Types, Begun, Running
<1>3. CASE DropRow(d)
  <2>1. rows' \in [DOMAIN rows' -> RowRec] /\ DOMAIN rows' \subseteq DOMAIN rows
    BY <1>3 DEF DropRow, Restrict, Types
  <2>2. del' \in [Deletes -> DelRec]
    BY <1>3 DEF DropRow, Types, DelRec, NoDelete
  <2>3. Types'
    BY <1>3, <2>1, <2>2 DEF DropRow, Types
  <2> QED
    BY <1>3, <2>3 DEF DropRow, Types, Begun, Running, NoDelete
<1> QED
  BY <1>1, <1>2, <1>3 DEF DeleteStep

LEMMA SweepTypes ==
  ASSUME Setting, Types, Begun, SweepStep
  PROVE  Types' /\ Begun'
<1> USE DEF driveVars
<1>1. CASE SweepStart
  <2>1. InRows \subseteq Stored
    BY DEF InRows, Types, RowRec
  <2>2. sweep' \in SweepRec /\ exposed' \subseteq Stored
    BY <1>1, <2>1 DEF SweepStart, Types, SweepRec
  <2> QED
    BY <1>1, <2>2 DEF SweepStart, Types, Begun, Running
<1>2. CASE SweepEnd
  BY <1>2 DEF SweepEnd, Types, Begun, Running, NoSweep, SweepRec
<1>3. ASSUME NEW s \in Stored, SweepEntry(s) \/ SweepFails(s) PROVE Types' /\ Begun'
  <2>1. RemoveAll(s) \/ RemoveSome(s)
    BY <1>3 DEF SweepEntry, SweepFails
  <2>2. /\ kinds' \in [Stored -> Kinds \cup {"none"}] /\ fresh' \subseteq Stored
        /\ files' \in [Stored -> [PartIds -> FileRec]]
    BY <2>1, Removal
  <2>3. UNCHANGED <<rows, up, del, exposed>> /\ sweep' \in SweepRec
    BY <1>3 DEF SweepEntry, SweepFails, Types, SweepRec
  <2> QED
    BY <2>2, <2>3 DEF Types, Begun, Running
<1>4. ASSUME NEW s \in Stored, Age(s) PROVE Types' /\ Begun'
  BY <1>4 DEF Age, Types, Begun, Running
<1> QED
  BY <1>1, <1>2, <1>3, <1>4 DEF SweepStep

LEMMA RestartTypes ==
  ASSUME Setting, Types, Begun, PoolRestart
  PROVE  Types' /\ Begun'
<1> USE DEF driveVars
<1>1. up' \in [Uploads -> UpRec]
  BY DEF PoolRestart, Types, Ended, NoUpload, UpRec, Setting
<1>2. del' \in [Deletes -> DelRec]
  BY DEF PoolRestart, NoDelete, DelRec
<1>3. Types'
  BY <1>1, <1>2 DEF PoolRestart, Types, NoSweep, SweepRec
<1>4. Begun'
  BY DEF PoolRestart, Begun, Running, Ended, NoUpload, NoDelete
<1> QED
  BY <1>3, <1>4

-----------------------------------------------------------------------------
(* The invariant *)

\* An upload that runs and whose entry nobody else had when it took the name.
Owns(u) == Running(u) /\ up[u].at \in Stored \ exposed

\* Such an entry has no other upload and no row; a row's entry no other row.
OneOwner ==
  /\ \A u, v \in Uploads : Owns(u) /\ Running(v) /\ up[v].at = up[u].at => u = v
  /\ \A u \in Uploads : Owns(u) => \A i \in DOMAIN rows : rows[i].at # up[u].at
  /\ \A i, j \in DOMAIN rows :
       rows[i].at = rows[j].at /\ rows[i].at \notin exposed => i = j

\* It stands on the drive, and is young.
InUse == \A u \in Uploads :
  Owns(u) => kinds[up[u].at] # "none" /\ up[u].at \in fresh

Whole(u) == [by |-> u, whole |-> TRUE]
Torn(u)  == [by |-> u, whole |-> FALSE]
Done(u)  == IF up[u].pc = "writing" THEN up[u].part - 1 ELSE up[u].part

\* What it has written is there, its own; the file being written is torn.
FolderSoFar(u) == up[u].kind = "folder" =>
  \A p \in 1..Done(u) : files[up[u].at][p] = Whole(u)
FileSoFar(u) == up[u].kind = "file" /\ up[u].pc = "open" =>
  files[up[u].at][1] = Whole(u)
TornNow(u) == up[u].pc = "writing" =>
  files[up[u].at][Slot(up[u].kind, up[u].part)] = Torn(u)
Written == \A u \in Uploads : Owns(u) => FolderSoFar(u) /\ FileSoFar(u) /\ TornNow(u)

\* A sweep under way takes the entries of the list for valid, or too young.
Spares == sweep.on => \A i \in DOMAIN rows :
  ~rows[i].doomed /\ rows[i].at \notin exposed => rows[i].at \in sweep.valid \cup fresh

Core == OneOwner /\ InUse /\ Written /\ Spares /\ ListedIsWhole
IInv == Types /\ Begun /\ Core

\* Every part of a row is there.
HasFiles(i) == \A p \in rows[i].parts : Owned(rows[i], p)

LEMMA ListedIs ==
  ListedIsWhole <=> \A i \in DOMAIN rows :
                      ~rows[i].doomed /\ rows[i].at \notin exposed => HasFiles(i)
BY DEF ListedIsWhole, HasFiles

LEMMA ListedIsNext ==
  ListedIsWhole' <=> \A i \in DOMAIN rows' :
                      ~rows'[i].doomed /\ rows'[i].at \notin exposed' => HasFiles(i)'
BY DEF ListedIsWhole, HasFiles

-----------------------------------------------------------------------------
(* The steps of an upload *)

LEMMA BeginCore ==
  ASSUME Setting, IInv, NEW u \in Uploads, NEW k \in Kinds, NEW n \in Names,
         Begin(u, k, n)
  PROVE  Core'
<1> USE DEF IInv, driveVars
<1>1. up'[u].at = Null /\ \A v \in Uploads \ {u} : up'[v] = up[v]
  BY DEF Begin, Types, Begun
<1>2. \A v \in Uploads : Owns(v)' => v # u /\ Owns(v)
  BY <1>1 DEF Owns, Running, Setting, Begin
<1>3. OneOwner' /\ InUse'
  BY <1>1, <1>2 DEF Core, OneOwner, InUse, Owns, Running, Setting, Begin
<1>4. Written'
  <2>1. ASSUME NEW v \in Uploads, Owns(v)'
        PROVE  FolderSoFar(v)' /\ FileSoFar(v)' /\ TornNow(v)'
    <3>1. up'[v] = up[v] /\ files' = files
          /\ FolderSoFar(v) /\ FileSoFar(v) /\ TornNow(v)
      BY <1>1, <1>2, <2>1 DEF Core, Written, Begin
    <3> QED
      BY <3>1 DEF FolderSoFar, FileSoFar, TornNow, Done, Whole, Torn
  <2> QED
    BY <2>1 DEF Written
<1>5. Spares' /\ ListedIsWhole'
  BY DEF Core, Spares, ListedIsWhole, Owned, Begin
<1> QED
  BY <1>3, <1>4, <1>5 DEF Core

LEMMA StartPartCore ==
  ASSUME Setting, IInv, NEW u \in Uploads, StartPart(u)
  PROVE  Core'
<1> USE DEF IInv
<1> DEFINE s == Place(u)
           p == Slot(up[u].kind, up[u].part + 1)
<1>1. s \in Stored /\ p \in PartIds
  <2>1. up[u].part + 1 \in PartIds
    BY DEF StartPart, Types, UpRec, Setting, PartIds
  <2> QED
    BY <2>1, PlaceType, SlotType DEF StartPart, Running
<1> HIDE DEF s, p
<1>2. /\ up' = [up EXCEPT ![u] = [@ EXCEPT !.pc = "writing", !.at = s,
                                           !.used = up[u].used \cup {s},
                                           !.part = up[u].part + 1]]
      /\ kinds' = [kinds EXCEPT ![s] = up[u].kind]
      /\ files' = [files EXCEPT ![s][p] = [by |-> u, whole |-> FALSE]]
      /\ fresh' \in {fresh, fresh \cup {s}} /\ exposed \subseteq exposed'
      /\ s # up[u].at => s \in fresh' /\ (Taken(s) => s \in exposed')
      /\ UNCHANGED <<rows, del, sweep, fetch>>
  BY DEF StartPart, Touch, s, p
<1>3. up[u].pc = "open" /\ up[u].kind \in Kinds /\ up[u].part \in Nat
  BY DEF StartPart, Begun, Running, Types, UpRec, Setting
<1>4. /\ up'[u].pc = "writing" /\ up'[u].at = s /\ up'[u].kind = up[u].kind
      /\ up'[u].part = up[u].part + 1 /\ \A v \in Uploads \ {u} : up'[v] = up[v]
      /\ kinds'[s] # "none"
      /\ \A t \in Stored \ {s} : kinds'[t] = kinds[t] /\ files'[t] = files[t]
      /\ files'[s][p] = Torn(u)
      /\ \A q \in PartIds \ {p} : files'[s][q] = files[s][q]
  BY <1>1, <1>2, <1>3 DEF Types, Torn, Kinds
<1> HIDE DEF IInv
\* A name that stays out of exposed is the upload's own, or was nobody's.
<1>5. ASSUME s \notin exposed'
      PROVE  /\ \A v \in Uploads \ {u} : Running(v) => up[v].at # s
             /\ \A i \in DOMAIN rows : rows[i].at # s
  <2>1. CASE s = up[u].at
    BY <1>1, <1>2, <1>3, <1>5, <2>1 DEF IInv, Core, OneOwner, Owns, Running
  <2>2. CASE ~Taken(s)
    <3>1. ASSUME NEW v \in Uploads \ {u}, Running(v), up[v].at = s PROVE FALSE
      BY <1>1, <1>2, <1>5, <2>2, <3>1 DEF IInv, Core, InUse, Owns, Taken
    <3> QED
      BY <2>2, <3>1 DEF Taken
  <2> QED
    BY <1>2, <1>5, <2>1, <2>2
<1>6. \A v \in Uploads : Running(v)' <=> Running(v)
  BY <1>3, <1>4 DEF Running
<1>7. \A v \in Uploads \ {u} : Owns(v)' => Owns(v) /\ up[v].at # s
  BY <1>2, <1>4, <1>5, <1>6 DEF Owns
<1>8. OneOwner'
  <2>1. ASSUME NEW v \in Uploads, NEW w \in Uploads, Owns(v)', Running(w)',
               up'[w].at = up'[v].at
        PROVE  v = w
    BY <1>4, <1>5, <1>6, <1>7, <2>1 DEF IInv, Core, OneOwner, Owns
  <2>2. ASSUME NEW v \in Uploads, Owns(v)'
        PROVE  \A i \in DOMAIN rows' : rows'[i].at # up'[v].at
    BY <1>2, <1>4, <1>5, <1>7, <2>2 DEF IInv, Core, OneOwner, Owns
  <2>3. \A i, j \in DOMAIN rows' :
          rows'[i].at = rows'[j].at /\ rows'[i].at \notin exposed' => i = j
    BY <1>2 DEF IInv, Core, OneOwner
  <2> QED
    BY <2>1, <2>2, <2>3 DEF OneOwner
<1>9. InUse'
  <2>1. ASSUME NEW v \in Uploads \ {u}, Owns(v)'
        PROVE  kinds'[up'[v].at] # "none" /\ up'[v].at \in fresh'
    BY <1>2, <1>4, <1>7, <2>1 DEF IInv, Core, InUse, Owns
  <2>2. Owns(u)' => s \in fresh'
    <3>1. CASE s = up[u].at
      BY <1>2, <1>3, <1>4, <3>1 DEF IInv, Core, InUse, Owns, Running
    <3> QED
      BY <1>2, <3>1
  <2> QED
    BY <1>4, <2>1, <2>2 DEF InUse
<1>10. Written'
  <2>1. ASSUME NEW v \in Uploads \ {u}, Owns(v)'
        PROVE  FolderSoFar(v)' /\ FileSoFar(v)' /\ TornNow(v)'
    <3>1. up'[v] = up[v] /\ files'[up[v].at] = files[up[v].at]
          /\ FolderSoFar(v) /\ FileSoFar(v) /\ TornNow(v)
      BY <1>4, <1>7, <2>1 DEF IInv, Core, Written, Owns
    <3> QED
      BY <3>1 DEF FolderSoFar, FileSoFar, TornNow, Done, Whole, Torn
  <2>2. FileSoFar(u)' /\ TornNow(u)'
    BY <1>4 DEF FileSoFar, TornNow, Torn, Slot, p
  <2>3. ASSUME Owns(u)', up[u].kind = "folder", NEW q \in 1..up[u].part
        PROVE  files'[s][q] = Whole(u)
    <3>1. up[u].part \in PartIds /\ q \in PartIds /\ q # p
      BY <1>3, <2>3 DEF StartPart, Setting, PartIds, p, Slot
    <3>2. up[u].at \in Stored
      BY <1>3, <3>1 DEF IInv, Begun, Running, PartIds
    <3>3. s = up[u].at
      BY <2>3, <3>2 DEF s, Place, Setting
    <3>4. Owns(u)
      BY <1>2, <1>3, <1>4, <2>3, <3>3 DEF Owns, Running
    <3>5. files[s][q] = Whole(u)
      BY <1>3, <2>3, <3>3, <3>4 DEF IInv, Core, Written, FolderSoFar, Done
    <3> QED
      BY <1>4, <3>1, <3>5
  <2>4. Owns(u)' => FolderSoFar(u)'
    <3>1. Done(u)' = up[u].part
      BY <1>3, <1>4 DEF Done
    <3> QED
      BY <1>4, <2>3, <3>1 DEF FolderSoFar, Whole
  <2> QED
    BY <2>1, <2>2, <2>4 DEF Written
<1>11. Spares'
  BY <1>2 DEF IInv, Core, Spares
<1>12. ListedIsWhole'
  <2>1. ASSUME NEW i \in DOMAIN rows', ~rows'[i].doomed, rows'[i].at \notin exposed'
        PROVE  HasFiles(i)'
    <3>1. rows[i].at \in Stored /\ rows[i].at # s /\ HasFiles(i)
      BY <1>2, <1>5, <2>1, ListedIs DEF IInv, Core, Types, RowRec
    <3>2. rows'[i] = rows[i] /\ files'[rows[i].at] = files[rows[i].at]
      BY <1>2, <1>4, <3>1
    <3> QED
      BY <3>1, <3>2 DEF HasFiles, Owned
  <2> QED
    BY <2>1, ListedIsNext
<1> QED
  BY <1>8, <1>9, <1>10, <1>11, <1>12 DEF Core

\* An entry outside exposed is touched by nobody else's upload.
LEMMA Elsewhere ==
  ASSUME IInv, NEW u \in Uploads, Running(u), up[u].at \in Stored
  PROVE  /\ \A v \in Uploads \ {u} : Owns(v) => up[v].at # up[u].at
         /\ \A i \in DOMAIN rows : rows[i].at \notin exposed => rows[i].at # up[u].at
BY DEF IInv, Core, OneOwner, Owns

LEMMA FinishPartCore ==
  ASSUME Setting, IInv, NEW u \in Uploads, FinishPart(u)
  PROVE  Core'
<1> DEFINE s == up[u].at
           p == Slot(up[u].kind, up[u].part)
<1>1. s \in Stored /\ p \in PartIds /\ up[u].part \in PartIds /\ Running(u)
  BY WriterType DEF FinishPart, IInv, Running
<1>2. /\ \A v \in Uploads \ {u} : Owns(v) => up[v].at # s
      /\ \A i \in DOMAIN rows : rows[i].at \notin exposed => rows[i].at # s
  BY <1>1, Elsewhere
<1> HIDE DEF s, p
<1>3. /\ files' = [files EXCEPT ![s][p] = Closed(@, u)]
      /\ fresh \subseteq fresh'
      /\ up' = [up EXCEPT ![u].pc = "open"]
      /\ UNCHANGED <<kinds, rows, del, sweep, fetch, exposed>>
  BY DEF FinishPart, s, p
<1>4. /\ up'[u].pc = "open" /\ up'[u].at = s /\ up'[u].kind = up[u].kind
      /\ up'[u].part = up[u].part /\ \A v \in Uploads \ {u} : up'[v] = up[v]
      /\ \A t \in Stored \ {s} : files'[t] = files[t]
      /\ files'[s][p] = Closed(files[s][p], u)
      /\ \A q \in PartIds \ {p} : files'[s][q] = files[s][q]
      /\ up[u].pc = "writing"
  BY <1>1, <1>3 DEF IInv, Types, s, FinishPart
<1>5. /\ \A v \in Uploads : Running(v)' <=> Running(v)
      /\ \A v \in Uploads : up'[v].at = up[v].at
      /\ \A v \in Uploads : Owns(v)' <=> Owns(v)
  BY <1>1, <1>3, <1>4 DEF Running, Owns, s
<1>6. OneOwner' /\ InUse' /\ Spares'
  BY <1>3, <1>5 DEF IInv, Core, OneOwner, InUse, Spares
<1>7. Written'
  <2>1. ASSUME NEW v \in Uploads \ {u}, Owns(v)'
        PROVE  FolderSoFar(v)' /\ FileSoFar(v)' /\ TornNow(v)'
    <3>1. up'[v] = up[v] /\ files'[up[v].at] = files[up[v].at]
          /\ FolderSoFar(v) /\ FileSoFar(v) /\ TornNow(v)
      BY <1>2, <1>4, <1>5, <2>1 DEF IInv, Core, Written, Owns
    <3> QED
      BY <3>1 DEF FolderSoFar, FileSoFar, TornNow, Done, Whole, Torn
  <2>2. ASSUME Owns(u)'
        PROVE  FolderSoFar(u)' /\ FileSoFar(u)' /\ TornNow(u)'
    <3>1. FolderSoFar(u) /\ files[s][p] = Torn(u)
      BY <1>4, <1>5, <2>2 DEF IInv, Core, Written, TornNow, s, p
    <3>2. files'[s][p] = Whole(u)
      BY <1>4, <3>1 DEF Closed, Torn, Whole, Setting
    <3>3. FileSoFar(u)' /\ TornNow(u)'
      BY <1>4, <3>2 DEF FileSoFar, TornNow, Whole, Slot, p
    <3>4. ASSUME up[u].kind = "folder", NEW q \in 1..up[u].part
          PROVE  files'[s][q] = Whole(u)
      <4>1. q \in PartIds /\ p = up[u].part
        BY <1>1, <3>4 DEF PartIds, Setting, p, Slot
      <4>2. q # p => q \in 1..(up[u].part - 1)
        BY <1>1, <3>4, <4>1 DEF PartIds, Setting
      <4> QED
        BY <1>4, <3>1, <3>2, <3>4, <4>1, <4>2 DEF FolderSoFar, Done, s
    <3>5. Done(u)' = up[u].part
      BY <1>4 DEF Done
    <3> QED
      BY <1>4, <3>3, <3>4, <3>5 DEF FolderSoFar, Whole
  <2> QED
    BY <2>1, <2>2 DEF Written
<1>8. ListedIsWhole'
  <2>1. ASSUME NEW i \in DOMAIN rows', ~rows'[i].doomed, rows'[i].at \notin exposed'
        PROVE  HasFiles(i)'
    <3>1. rows[i].at \in Stored /\ rows[i].at # s /\ HasFiles(i)
      BY <1>2, <1>3, <2>1, ListedIs DEF IInv, Core, Types, RowRec
    <3>2. rows'[i] = rows[i] /\ files'[rows[i].at] = files[rows[i].at]
      BY <1>3, <1>4, <3>1
    <3> QED
      BY <3>1, <3>2 DEF HasFiles, Owned
  <2> QED
    BY <2>1, ListedIsNext
<1> QED
  BY <1>6, <1>7, <1>8 DEF Core

LEMMA AbortPartCore ==
  ASSUME Setting, IInv, NEW u \in Uploads, AbortPart(u)
  PROVE  Core'
<1> DEFINE s == up[u].at
           p == Slot(up[u].kind, up[u].part)
<1>1. s \in Stored /\ p \in PartIds /\ Running(u)
  BY WriterType DEF AbortPart, IInv, Running
<1>2. /\ \A v \in Uploads \ {u} : Owns(v) => up[v].at # s
      /\ \A i \in DOMAIN rows : rows[i].at \notin exposed => rows[i].at # s
  BY <1>1, Elsewhere
<1> HIDE DEF s, p
<1>3. /\ files' = [files EXCEPT ![s][p] = NoFile]
      /\ kinds' \in {kinds, [kinds EXCEPT ![s] = "none"]}
      /\ fresh' \in {fresh, fresh \cup {s}, fresh \ {s}}
      /\ up' = [up EXCEPT ![u] = Ended("failed")]
      /\ UNCHANGED <<rows, del, sweep, fetch, exposed>>
  BY DEF AbortPart, Touch, s, p
<1>4. /\ \A v \in Uploads \ {u} : up'[v] = up[v]
      /\ \A t \in Stored \ {s} : files'[t] = files[t] /\ kinds'[t] = kinds[t]
                                 /\ (t \in fresh' <=> t \in fresh)
  BY <1>1, <1>3 DEF IInv, Types
<1>5. /\ \A v \in Uploads : Running(v)' => v # u /\ Running(v)
      /\ \A v \in Uploads : Owns(v)' => v # u /\ Owns(v) /\ up[v].at # s
  BY <1>2, <1>3, <1>4 DEF IInv, Types, Running, Owns, Ended, NoUpload
<1>6. OneOwner'
  BY <1>3, <1>4, <1>5 DEF IInv, Core, OneOwner
<1>7. InUse' /\ Written'
  <2>1. ASSUME NEW v \in Uploads, Owns(v)'
        PROVE  /\ kinds'[up'[v].at] # "none" /\ up'[v].at \in fresh'
               /\ FolderSoFar(v)' /\ FileSoFar(v)' /\ TornNow(v)'
    <3>1. up'[v] = up[v] /\ files'[up[v].at] = files[up[v].at]
          /\ kinds[up[v].at] # "none" /\ up[v].at \in fresh
          /\ FolderSoFar(v) /\ FileSoFar(v) /\ TornNow(v)
      BY <1>4, <1>5, <2>1 DEF IInv, Core, InUse, Written, Owns
    <3>2. kinds'[up'[v].at] # "none" /\ up'[v].at \in fresh'
      BY <1>4, <1>5, <2>1, <3>1 DEF Owns
    <3> QED
      BY <3>1, <3>2 DEF FolderSoFar, FileSoFar, TornNow, Done, Whole, Torn
  <2> QED
    BY <2>1 DEF InUse, Written
<1>8. Spares'
  BY <1>2, <1>3, <1>4 DEF IInv, Core, Spares, Types, RowRec
<1>9. ListedIsWhole'
  <2>1. ASSUME NEW i \in DOMAIN rows', ~rows'[i].doomed, rows'[i].at \notin exposed'
        PROVE  HasFiles(i)'
    <3>1. rows[i].at \in Stored /\ rows[i].at # s /\ HasFiles(i)
      BY <1>2, <1>3, <2>1, ListedIs DEF IInv, Core, Types, RowRec
    <3>2. rows'[i] = rows[i] /\ files'[rows[i].at] = files[rows[i].at]
      BY <1>3, <1>4, <3>1
    <3> QED
      BY <3>1, <3>2 DEF HasFiles, Owned
  <2> QED
    BY <2>1, ListedIsNext
<1> QED
  BY <1>6, <1>7, <1>8, <1>9 DEF Core

LEMMA FailCore ==
  ASSUME Setting, IInv, NEW u \in Uploads, Fail(u)
  PROVE  Core'
<1> USE DEF driveVars
<1>1. \A v \in Uploads : Running(v)' => up'[v] = up[v] /\ Running(v)
  BY DEF IInv, Types, Fail, Running, Ended, NoUpload
<1>2. \A v \in Uploads : Owns(v)' => up'[v] = up[v] /\ Owns(v)
  BY <1>1 DEF Owns, Fail
<1>3. OneOwner' /\ InUse' /\ Spares' /\ ListedIsWhole'
  BY <1>1, <1>2 DEF IInv, Core, OneOwner, InUse, Spares, ListedIsWhole, Owned, Fail
<1>4. Written'
  <2>1. ASSUME NEW v \in Uploads, Owns(v)'
        PROVE  FolderSoFar(v)' /\ FileSoFar(v)' /\ TornNow(v)'
    <3>1. up'[v] = up[v] /\ files' = files
          /\ FolderSoFar(v) /\ FileSoFar(v) /\ TornNow(v)
      BY <1>2, <2>1 DEF IInv, Core, Written, Fail
    <3> QED
      BY <3>1 DEF FolderSoFar, FileSoFar, TornNow, Done, Whole, Torn
  <2> QED
    BY <2>1 DEF Written
<1> QED
  BY <1>3, <1>4 DEF Core

LEMMA ListCore ==
  ASSUME Setting, IInv, NEW u \in Uploads, List(u)
  PROVE  Core'
<1> USE DEF driveVars
<1> DEFINE n == NextId
           r == [up |-> u, at |-> up[u].at, kind |-> up[u].kind,
                 parts |-> 1..up[u].part, doomed |-> FALSE]
<1>1. n \notin DOMAIN rows
  BY NewId DEF IInv
<1>2. rows' = [i \in DOMAIN rows \cup {n} |-> IF i = n THEN r ELSE rows[i]]
  BY DEF List, WithRow
<1>3. up[u].at \in Stored /\ up[u].kind \in Kinds /\ Running(u) /\ up[u].pc = "open"
  BY DEF List, IInv, Begun, Running, Types, UpRec, Setting
<1>4. /\ \A v \in Uploads \ {u} : Owns(v) => up[v].at # up[u].at
      /\ \A i \in DOMAIN rows : rows[i].at \notin exposed => rows[i].at # up[u].at
  BY <1>3, Elsewhere
<1>5. r.at = up[u].at /\ r.kind = up[u].kind /\ r.parts = 1..up[u].part /\ r.up = u
  OBVIOUS
<1> HIDE DEF n, r
<1>6. /\ DOMAIN rows' = DOMAIN rows \cup {n} /\ rows'[n] = r
      /\ \A i \in DOMAIN rows : rows'[i] = rows[i]
  BY <1>1, <1>2
<1>7. /\ \A v \in Uploads : Running(v)' => v # u /\ up'[v] = up[v] /\ Running(v)
      /\ \A v \in Uploads : Owns(v)' => v # u /\ up'[v] = up[v] /\ Owns(v)
      /\ UNCHANGED <<kinds, files, fresh, del, sweep, exposed>>
  BY DEF IInv, Types, List, Running, Owns, Ended, NoUpload
<1>8. OneOwner'
  BY <1>4, <1>5, <1>6, <1>7 DEF IInv, Core, OneOwner
<1>9. InUse'
  BY <1>6, <1>7 DEF IInv, Core, InUse
<1>10. Written'
  <2>1. ASSUME NEW v \in Uploads, Owns(v)'
        PROVE  FolderSoFar(v)' /\ FileSoFar(v)' /\ TornNow(v)'
    <3>1. up'[v] = up[v] /\ files' = files
          /\ FolderSoFar(v) /\ FileSoFar(v) /\ TornNow(v)
      BY <1>7, <2>1 DEF IInv, Core, Written
    <3> QED
      BY <3>1 DEF FolderSoFar, FileSoFar, TornNow, Done, Whole, Torn
  <2> QED
    BY <2>1 DEF Written
<1>11. Spares'
  BY <1>3, <1>5, <1>6, <1>7 DEF IInv, Core, Spares, InUse, Owns
<1>12. ListedIsWhole'
  <2>1. ASSUME NEW i \in DOMAIN rows, ~rows'[i].doomed, rows'[i].at \notin exposed'
        PROVE  HasFiles(i)'
    <3>1. HasFiles(i) /\ rows'[i] = rows[i] /\ files' = files
      BY <1>6, <1>7, <2>1, ListedIs DEF IInv, Core
    <3> QED
      BY <3>1 DEF HasFiles, Owned
  <2>2. ASSUME NEW i, i = n, r.at \notin exposed
        PROVE  HasFiles(i)'
    <3>1. Owns(u)
      BY <1>3, <1>5, <2>2 DEF Owns
    <3>2. FolderSoFar(u) /\ FileSoFar(u) /\ Done(u) = up[u].part
      BY <1>3, <3>1 DEF IInv, Core, Written, Done
    <3>3. rows'[i] = r /\ files' = files
      BY <1>6, <1>7, <2>2
    <3>4. ASSUME NEW q \in 1..up[u].part
          PROVE  files[up[u].at][Slot(up[u].kind, q)] = Whole(u)
      <4>1. CASE up[u].kind = "folder"
        BY <3>2, <3>4, <4>1 DEF FolderSoFar, Slot
      <4>2. CASE up[u].kind = "file"
        BY <1>3, <3>2, <4>2 DEF FileSoFar, Slot
      <4> QED
        BY <1>3, <4>1, <4>2 DEF Kinds
    <3> QED
      BY <1>5, <3>3, <3>4 DEF HasFiles, Owned, Whole
  <2> QED
    BY <1>6, <1>7, <2>1, <2>2, ListedIsNext
<1> QED
  BY <1>8, <1>9, <1>10, <1>11, <1>12 DEF Core

LEMMA UploadCore ==
  ASSUME Setting, IInv, NEW u \in Uploads, UploadStep(u)
  PROVE  Core'
BY BeginCore, StartPartCore, FinishPartCore, AbortPartCore, FailCore, ListCore
   DEF UploadStep

-----------------------------------------------------------------------------
(* Deletions, the sweep, a restart *)

LEMMA LookUpCore ==
  ASSUME Setting, IInv, NEW d \in Deletes, NEW i \in DOMAIN rows, LookUp(d, i)
  PROVE  Core'
<1> USE DEF driveVars
<1>1. OneOwner' /\ InUse' /\ Spares' /\ ListedIsWhole'
  BY DEF LookUp, IInv, Core, OneOwner, InUse, Spares, ListedIsWhole, Owned, Owns, Running
<1>2. Written'
  BY DEF LookUp, IInv, Core, Written, Owns, Running, FolderSoFar, FileSoFar,
         TornNow, Done, Whole, Torn
<1> QED
  BY <1>1, <1>2 DEF Core

\* What an upload has written, and what a row needs, is in its own entry.
LEMMA SameWork ==
  ASSUME NEW v \in Uploads, up'[v] = up[v], files'[up[v].at] = files[up[v].at],
         FolderSoFar(v), FileSoFar(v), TornNow(v)
  PROVE  FolderSoFar(v)' /\ FileSoFar(v)' /\ TornNow(v)'
BY DEF FolderSoFar, FileSoFar, TornNow, Done, Whole, Torn

LEMMA SameRow ==
  ASSUME NEW i, rows'[i] = rows[i], files'[rows[i].at] = files[rows[i].at], HasFiles(i)
  PROVE  HasFiles(i)'
BY DEF HasFiles, Owned

\* A removal disturbs nothing, as long as the entry is no upload's own and no
\* row's that counts.
LEMMA RemovalCore ==
  ASSUME IInv, NEW s \in Stored, UNCHANGED up,
         \A t \in Stored \ {s} : /\ files'[t] = files[t] /\ kinds'[t] = kinds[t]
                                 /\ t \in fresh' <=> t \in fresh,
         sweep'.on = sweep.on, sweep'.valid = sweep.valid,
         exposed \subseteq exposed', DOMAIN rows' = DOMAIN rows,
         \A i \in DOMAIN rows : /\ rows'[i].at = rows[i].at
                                /\ rows'[i] = rows[i] \/ rows'[i].doomed,
         \A v \in Uploads : Owns(v)' => up[v].at # s,
         \A i \in DOMAIN rows :
           ~rows'[i].doomed /\ rows[i].at \notin exposed' => rows[i].at # s
  PROVE  Core'
<1>1. \A v \in Uploads : /\ Running(v)' <=> Running(v)
                         /\ Owns(v)' => Owns(v) /\ up[v].at \in Stored \ {s}
  BY DEF Running, Owns
<1>2. ASSUME NEW i \in DOMAIN rows, ~rows'[i].doomed, rows[i].at \notin exposed'
      PROVE  /\ rows'[i] = rows[i] /\ rows[i].at \in Stored \ {s}
             /\ rows[i].at \notin exposed
  BY <1>2 DEF IInv, Types, RowRec
<1>3. OneOwner'
  BY <1>1 DEF IInv, Core, OneOwner
<1>4. InUse' /\ Written'
  <2>1. ASSUME NEW v \in Uploads, Owns(v)'
        PROVE  /\ kinds'[up'[v].at] # "none" /\ up'[v].at \in fresh'
               /\ FolderSoFar(v)' /\ FileSoFar(v)' /\ TornNow(v)'
    <3>1. up'[v] = up[v] /\ files'[up[v].at] = files[up[v].at]
          /\ kinds'[up[v].at] # "none" /\ up[v].at \in fresh'
          /\ FolderSoFar(v) /\ FileSoFar(v) /\ TornNow(v)
      BY <1>1, <2>1 DEF IInv, Core, InUse, Written
    <3> QED
      BY <3>1, SameWork
  <2> QED
    BY <2>1 DEF InUse, Written
<1>5. Spares'
  BY <1>2 DEF IInv, Core, Spares
<1>6. ListedIsWhole'
  <2>1. ASSUME NEW i \in DOMAIN rows', ~rows'[i].doomed, rows'[i].at \notin exposed'
        PROVE  HasFiles(i)'
    <3>1. i \in DOMAIN rows /\ rows'[i] = rows[i] /\ HasFiles(i)
      BY <1>2, <2>1, ListedIs DEF IInv, Core
    <3>2. files'[rows[i].at] = files[rows[i].at]
      BY <1>2, <2>1
    <3> QED
      BY <3>1, <3>2, SameRow
  <2> QED
    BY <2>1, ListedIsNext
<1> QED
  BY <1>3, <1>4, <1>5, <1>6 DEF Core

\* The deletion dooms its own row, or its name is exposed.
LEMMA RemoveFilesCore ==
  ASSUME Setting, IInv, NEW d \in Deletes, RemoveFiles(d)
  PROVE  Core'
<1> DEFINE s == del[d].at
           n == del[d].id
<1>1. s \in Stored
  BY DEF RemoveFiles, IInv, Begun
<1>2. /\ RemoveAll(s) \/ RemoveSome(s)
      /\ rows' = IF n \in DOMAIN rows THEN [rows EXCEPT ![n].doomed = TRUE] ELSE rows
      /\ exposed' = IF n \in DOMAIN rows /\ rows[n].at = s THEN exposed
                    ELSE exposed \cup {s}
      /\ UNCHANGED <<up, sweep, fetch>>
  BY DEF RemoveFiles
<1> HIDE DEF s, n
<1>3. \A t \in Stored \ {s} : /\ files'[t] = files[t] /\ kinds'[t] = kinds[t]
                              /\ t \in fresh' <=> t \in fresh
  BY <1>1, <1>2, Removal DEF IInv
<1>4. /\ DOMAIN rows' = DOMAIN rows /\ \A i \in DOMAIN rows : rows'[i].at = rows[i].at
      /\ n \in DOMAIN rows => rows'[n].doomed
      /\ \A i \in DOMAIN rows \ {n} : rows'[i] = rows[i]
  <2> DEFINE r == [rows[n] EXCEPT !.doomed = TRUE]
  <2>1. n \in DOMAIN rows => r.at = rows[n].at /\ r.doomed
    BY DEF IInv, Types, RowRec
  <2>2. rows' = IF n \in DOMAIN rows THEN [rows EXCEPT ![n] = r] ELSE rows
    BY <1>2
  <2> HIDE DEF r
  <2> QED
    BY <2>1, <2>2 DEF IInv, Types
\* No upload of its own, and no other row, has the entry.
<1>5. \A v \in Uploads : Owns(v)' => up[v].at # s
  <2>1. CASE n \in DOMAIN rows /\ rows[n].at = s
    BY <1>2, <2>1 DEF IInv, Core, OneOwner, Owns, Running
  <2>2. CASE ~(n \in DOMAIN rows /\ rows[n].at = s)
    BY <1>2, <2>2 DEF Owns
  <2> QED
    BY <2>1, <2>2
<1>6. ASSUME NEW i \in DOMAIN rows, ~rows'[i].doomed, rows[i].at \notin exposed'
      PROVE  rows[i].at # s
  BY <1>2, <1>4, <1>6 DEF IInv, Core, OneOwner
<1> QED
  BY <1>1, <1>2, <1>3, <1>4, <1>5, <1>6, RemovalCore

LEMMA DropRowCore ==
  ASSUME Setting, IInv, NEW d \in Deletes, DropRow(d)
  PROVE  Core'
<1> USE DEF driveVars
<1>1. /\ DOMAIN rows' \subseteq DOMAIN rows
      /\ \A i \in DOMAIN rows' : rows'[i] = rows[i]
  BY DEF DropRow, Restrict
<1>2. UNCHANGED <<kinds, files, fresh, up, sweep, fetch, exposed>>
  BY DEF DropRow
<1>3. OneOwner' /\ InUse' /\ Spares'
  BY <1>1, <1>2 DEF IInv, Core, OneOwner, InUse, Spares, Owns, Running
<1>4. Written'
  BY <1>2 DEF IInv, Core, Written, Owns, Running, FolderSoFar, FileSoFar,
              TornNow, Done, Whole, Torn
<1>5. ListedIsWhole'
  <2>1. ASSUME NEW i \in DOMAIN rows', ~rows'[i].doomed, rows'[i].at \notin exposed'
        PROVE  HasFiles(i)'
    <3>1. rows'[i] = rows[i] /\ HasFiles(i) /\ files' = files
      BY <1>1, <1>2, <2>1, ListedIs DEF IInv, Core
    <3> QED
      BY <3>1 DEF HasFiles, Owned
  <2> QED
    BY <2>1, ListedIsNext
<1> QED
  BY <1>3, <1>4, <1>5 DEF Core

LEMMA SweepCore ==
  ASSUME Setting, IInv, SweepStep
  PROVE  Core'
<1> USE DEF driveVars
<1>1. ASSUME UNCHANGED <<kinds, files, rows, up, del>>, exposed \subseteq exposed',
             UNCHANGED fresh \/ InUse', Spares'
      PROVE  Core'
  <2>1. \A v \in Uploads : (Running(v)' <=> Running(v)) /\ (Owns(v)' => Owns(v))
    BY <1>1 DEF Running, Owns
  <2>2. OneOwner' /\ InUse' /\ ListedIsWhole'
    BY <1>1, <2>1 DEF IInv, Core, OneOwner, InUse, ListedIsWhole, Owned
  <2>3. Written'
    BY <1>1, <2>1 DEF IInv, Core, Written, FolderSoFar, FileSoFar, TornNow, Done, Whole, Torn
  <2> QED
    BY <1>1, <2>2, <2>3 DEF Core
\* A sweep that could not read the rows exposes all that it may take.
<1>2. CASE SweepStart
  <2>1. Spares'
    BY <1>2 DEF SweepStart, Spares, InRows
  <2> QED
    BY <1>1, <1>2, <2>1 DEF SweepStart
<1>3. CASE SweepEnd
  BY <1>1, <1>3 DEF SweepEnd, NoSweep, Spares
\* An entry that ages under an upload is exposed.
<1>4. ASSUME NEW s \in Stored, Age(s) PROVE Core'
  <2>1. InUse'
    BY <1>4 DEF Age, UsedBy, IInv, Core, InUse, Owns, Running
  <2>2. Spares'
    BY <1>4 DEF Age, Spares
  <2> QED
    BY <1>1, <1>4, <2>1, <2>2 DEF Age
<1>5. ASSUME NEW s \in Stored, SweepEntry(s) \/ SweepFails(s) PROVE Core'
  <2>1. /\ RemoveAll(s) \/ RemoveSome(s)
        /\ UNCHANGED <<rows, up, exposed>>
        /\ sweep.on /\ s \notin sweep.valid /\ s \notin fresh
    BY <1>5 DEF SweepEntry, SweepFails, Eligible
  <2>2. sweep'.on = sweep.on /\ sweep'.valid = sweep.valid
    <3>1. sweep \in SweepRec
      BY DEF IInv, Types
    <3> QED
      BY <1>5, <3>1 DEF SweepEntry, SweepFails, SweepRec
  <2>3. \A t \in Stored \ {s} : /\ files'[t] = files[t] /\ kinds'[t] = kinds[t]
                                /\ t \in fresh' <=> t \in fresh
    BY <2>1, Removal DEF IInv
  <2>4. \A v \in Uploads : Owns(v)' => up[v].at # s
    BY <2>1 DEF IInv, Core, InUse, Owns, Running
  <2>5. \A i \in DOMAIN rows :
          ~rows'[i].doomed /\ rows[i].at \notin exposed' => rows[i].at # s
    BY <2>1 DEF IInv, Core, Spares
  <2> QED
    BY <2>1, <2>2, <2>3, <2>4, <2>5, RemovalCore
<1> QED
  BY <1>2, <1>3, <1>4, <1>5 DEF SweepStep

LEMMA RestartCore ==
  ASSUME Setting, IInv, PoolRestart
  PROVE  Core'
<1> USE DEF driveVars
<1>1. /\ \A v \in Uploads : ~Running(v)'
      /\ \A d \in Deletes : del'[d].pc = "idle"
      /\ ~sweep'.on /\ UNCHANGED <<kinds, files, fresh, rows, exposed>>
  BY DEF PoolRestart, Running, Ended, NoUpload, NoDelete, NoSweep
<1> QED
  BY <1>1 DEF IInv, Core, OneOwner, InUse, Written, Spares, ListedIsWhole, Owned, Owns

-----------------------------------------------------------------------------
(* The theorem *)

LEMMA InitOk ==
  ASSUME Setting, PoolInit
  PROVE  IInv
<1> USE DEF PoolInit
<1>1. NoUpload \in UpRec /\ NoDelete \in DelRec /\ Emptied \in [PartIds -> FileRec]
  BY DEF NoUpload, UpRec, NoDelete, DelRec, Emptied, NoFile, FileRec, Setting
<1>2. DOMAIN rows = {}
  OBVIOUS
<1>3. Types
  <2>1. rows \in [DOMAIN rows -> RowRec] /\ DOMAIN rows \subseteq 0..0
    BY <1>2
  <2> QED
    BY <1>1, <2>1 DEF Types, NoSweep, SweepRec
<1>4. Begun
  BY DEF Begun, Running, NoUpload, NoDelete
<1>5. Core
  BY <1>2 DEF Core, OneOwner, InUse, Written, Spares, ListedIsWhole,
              Owns, Running, NoUpload, NoDelete, NoSweep
<1> QED
  BY <1>3, <1>4, <1>5 DEF IInv

LEMMA StepOk ==
  ASSUME Setting, IInv, [PoolNext]_poolVars
  PROVE  IInv'
<1>1. ASSUME NEW u \in Uploads, UploadStep(u) PROVE IInv'
  BY <1>1, UploadTypes, UploadCore DEF IInv
<1>2. ASSUME NEW d \in Deletes, DeleteStep(d) PROVE IInv'
  <2>1. Core'
    BY <1>2, LookUpCore, RemoveFilesCore, DropRowCore DEF DeleteStep
  <2> QED
    BY <1>2, <2>1, DeleteTypes DEF IInv
<1>3. ASSUME UNCHANGED <<driveVars, rows, up, del, sweep, exposed>> PROVE IInv'
  <2>1. Types' /\ Begun'
    BY <1>3 DEF driveVars, IInv, Types, Begun, Running
  <2>2. OneOwner' /\ InUse' /\ Spares' /\ ListedIsWhole'
    BY <1>3 DEF driveVars, IInv, Core, OneOwner, InUse, Spares,
                ListedIsWhole, Owned, Owns, Running
  <2>3. Written'
    BY <1>3 DEF driveVars, IInv, Core, Written, Owns, Running, FolderSoFar,
                FileSoFar, TornNow, Done, Whole, Torn
  <2> QED
    BY <2>1, <2>2, <2>3 DEF IInv, Core
<1>4. ASSUME NEW f \in Fetches, FetchStep(f) PROVE IInv'
  BY <1>3, <1>4 DEF FetchStep, Listing, Get, Cancel, Report
<1>5. CASE SweepStep
  BY <1>5, SweepTypes, SweepCore DEF IInv
<1>6. CASE PoolRestart
  BY <1>6, RestartTypes, RestartCore DEF IInv
<1>7. CASE UNCHANGED poolVars
  BY <1>3, <1>7 DEF poolVars, driveVars
<1> QED
  BY <1>1, <1>2, <1>4, <1>5, <1>6, <1>7 DEF PoolNext

\* A share of the list that no deletion has come to has every file it was
\* uploaded with, whole and its own, unless its name is exposed: for any number
\* of uploads, deletions, downloads, names and parts, deletions of one share
\* overlapping, with restarts, sweeps that read the rows or fail to, and failures
\* between any two steps (upload_share, remove_share_data, share_orphan_sweep).
THEOREM ListingSound ==
  ASSUME Setting
  PROVE  PoolSpec => []ListedIsWhole
<1>1. PoolInit => IInv
  BY InitOk
<1>2. IInv /\ [PoolNext]_poolVars => IInv'
  BY StepOk
<1>3. IInv => ListedIsWhole
  BY DEF IInv, Core
<1> QED
  BY <1>1, <1>2, <1>3, PTL DEF PoolSpec

-----------------------------------------------------------------------------
(* Downloads of a share *)

FetchRec == [pc : {"idle", "get", "failed", "complete"}, name : Names \cup {Null},
             kind : Kinds \cup {Null}, id : Nat, of : Uploads \cup {Null},
             plan : SUBSET PartIds, todo : SUBSET PartIds, came : SUBSET PartIds,
             got : [Kinds -> [PartIds -> FileRec]], foreign : BOOLEAN]

\* An upload is listed once: its row is known by it, and comes back no more.
Once ==
  /\ \A i, j \in DOMAIN rows : rows[i].up = rows[j].up => i = j
  /\ \A i \in DOMAIN rows : up[rows[i].up].pc = "listed"
  /\ \A f \in Fetches : fetch[f].of # Null => up[fetch[f].of].pc = "listed"

\* A download asks for files only of a share it has the list of.
WellFormed(g) ==
  /\ g.todo \subseteq g.plan
  /\ g.pc = "get" => g.kind \in Kinds
  /\ g.of = Null => /\ g.todo = {}
                    /\ \A k \in Kinds, p \in PartIds : ~g.got[k][p].whole

\* As long as its share, in row r with number i, is in the list with all of it
\* there, it asks for it by its own number; what came is its, and so is all that
\* is there whole if nothing else was listed into the place; and a report is of
\* everything it has.
RightRow(g, i, r) == g.pc = "get" => g.id = i /\ g.plan = r.parts /\ g.kind = r.kind
OwnParts(g, r) == /\ \A p \in g.came : g.got[r.kind][p] = Whole(g.of)
                  /\ ~g.foreign => \A k \in Kinds, p \in PartIds :
                                     g.got[k][p].whole => g.got[k][p].by = g.of
AllIn(g, r) == g.pc = "complete" => \A p \in r.parts : g.got[r.kind][p].whole
Follows(g, i, r) == RightRow(g, i, r) /\ OwnParts(g, r) /\ AllIn(g, r)

Stands(r) == ~r.doomed /\ r.at \notin exposed
FetchInv ==
  /\ fetch \in [Fetches -> FetchRec]
  /\ Once
  /\ \A f \in Fetches : WellFormed(fetch[f])
  /\ \A f \in Fetches : \A i \in DOMAIN rows :
       rows[i].up = fetch[f].of /\ Stands(rows[i]) => Follows(fetch[f], i, rows[i])

\* A listed upload stays as it is.
LEMMA ListedStays ==
  ASSUME IInv, [PoolNext]_poolVars, NEW u \in Uploads, up[u].pc = "listed"
  PROVE  up'[u].pc = "listed"
<1> USE DEF IInv, Types, driveVars
<1>1. ASSUME NEW v \in Uploads, UploadStep(v) PROVE up'[u] = up[u]
  <2>1. v # u /\ \E r : up' = [up EXCEPT ![v] = r]
    <3>1. ASSUME NEW k \in Kinds, NEW n \in Names, Begin(v, k, n)
          PROVE  v # u /\ \E r : up' = [up EXCEPT ![v] = r]
      BY <3>1 DEF Begin
    <3>2. CASE StartPart(v)
      BY <3>2 DEF StartPart
    <3>3. CASE FinishPart(v)
      BY <3>3 DEF FinishPart
    <3>4. CASE AbortPart(v)
      BY <3>4 DEF AbortPart
    <3>5. CASE Fail(v)
      BY <3>5 DEF Fail, Running
    <3>6. CASE List(v)
      BY <3>6 DEF List
    <3> QED
      BY <1>1, <3>1, <3>2, <3>3, <3>4, <3>5, <3>6 DEF UploadStep
  <2> QED
    BY <2>1
<1>2. CASE PoolRestart
  BY <1>2 DEF PoolRestart, Running
<1>3. ASSUME NEW d \in Deletes, DeleteStep(d) PROVE up' = up
  BY <1>3 DEF DeleteStep, LookUp, RemoveFiles, DropRow
<1>4. ASSUME NEW f \in Fetches, FetchStep(f) PROVE up' = up
  BY <1>4 DEF FetchStep, Listing, Get, Cancel, Report
<1>5. CASE SweepStep
  BY <1>5 DEF SweepStep, SweepStart, SweepEnd, SweepEntry, SweepFails, Age
<1>6. CASE UNCHANGED poolVars
  BY <1>6 DEF poolVars
<1> QED
  BY <1>1, <1>2, <1>3, <1>4, <1>5, <1>6 DEF PoolNext

\* Steps of the server only take rows away from a download, or add one that no
\* download is of.
LEMMA ServerFetchInv ==
  ASSUME Setting, IInv, FetchInv, [PoolNext]_poolVars, UNCHANGED fetch,
         \A i \in DOMAIN rows' :
           \/ /\ i \in DOMAIN rows /\ rows'[i].up = rows[i].up
              /\ rows'[i].at = rows[i].at /\ rows'[i].parts = rows[i].parts
              /\ rows'[i].kind = rows[i].kind
              /\ rows[i].doomed => rows'[i].doomed
           \/ /\ up[rows'[i].up].pc # "listed" /\ up'[rows'[i].up].pc = "listed"
              /\ rows'[i].up \in Uploads /\ i = NextId,
         exposed \subseteq exposed'
  PROVE  FetchInv'
<1>1. \A u \in Uploads : up[u].pc = "listed" => up'[u].pc = "listed"
  BY ListedStays
<1>2. \A i \in DOMAIN rows : rows[i].up \in Uploads /\ up[rows[i].up].pc = "listed"
  BY DEF IInv, Types, RowRec, FetchInv, Once
<1>3. \A f \in Fetches : fetch[f].of \in Uploads \cup {Null}
  BY DEF FetchInv, FetchRec
<1>4. Null \notin Uploads
  BY DEF Setting
<1> DEFINE n == NextId
<1> HIDE DEF n
<1>5. \A i \in DOMAIN rows' :
        \/ /\ i \in DOMAIN rows /\ rows'[i].up = rows[i].up
           /\ rows'[i].at = rows[i].at /\ rows'[i].parts = rows[i].parts
           /\ rows'[i].kind = rows[i].kind
           /\ rows[i].doomed => rows'[i].doomed
        \/ /\ up[rows'[i].up].pc # "listed" /\ up'[rows'[i].up].pc = "listed"
           /\ rows'[i].up \in Uploads /\ i = n
  BY DEF n
<1>6. Once'
  <2>1. \A i, j \in DOMAIN rows' : rows'[i].up = rows'[j].up => i = j
    BY <1>2, <1>5 DEF FetchInv, Once
  <2>2. \A i \in DOMAIN rows' : up'[rows'[i].up].pc = "listed"
    BY <1>1, <1>2, <1>5
  <2>3. \A f \in Fetches : fetch'[f].of # Null => up'[fetch'[f].of].pc = "listed"
    BY <1>1, <1>3 DEF FetchInv, Once
  <2> QED
    BY <2>1, <2>2, <2>3 DEF Once
<1>7. ASSUME NEW f \in Fetches, NEW i \in DOMAIN rows', rows'[i].up = fetch[f].of,
             ~rows'[i].doomed, rows'[i].at \notin exposed'
      PROVE  Follows(fetch[f], i, rows'[i])
  <2>3. ~(up[rows'[i].up].pc # "listed")
    BY <1>3, <1>4, <1>5, <1>7 DEF FetchInv, Once
  <2>4. /\ i \in DOMAIN rows /\ rows'[i].up = rows[i].up
        /\ rows'[i].at = rows[i].at /\ rows'[i].parts = rows[i].parts
        /\ rows'[i].kind = rows[i].kind /\ (rows[i].doomed => rows'[i].doomed)
    BY <1>5, <2>3
  <2>1. /\ i \in DOMAIN rows /\ rows[i].up = fetch[f].of /\ Stands(rows[i])
        /\ rows'[i].parts = rows[i].parts /\ rows'[i].kind = rows[i].kind
    BY <1>7, <2>4 DEF Stands
  <2>2. Follows(fetch[f], i, rows[i])
    BY <2>1 DEF FetchInv
  <2> QED
    BY <2>1, <2>2 DEF Follows, OwnParts, RightRow, AllIn
<1>8. \A f \in Fetches : \A i \in DOMAIN rows' :
        rows'[i].up = fetch'[f].of /\ Stands(rows[i])' => Follows(fetch[f], i, rows[i])'
  BY <1>7 DEF Stands, Follows, OwnParts, RightRow, AllIn, Whole
<1>9. \A f \in Fetches : WellFormed(fetch[f])'
  BY DEF FetchInv, WellFormed
<1> QED
  BY <1>6, <1>8, <1>9 DEF FetchInv

LEMMA RowsFetchInv ==
  ASSUME Setting, IInv, FetchInv, PoolNext, UNCHANGED fetch
  PROVE  FetchInv'
<1> USE DEF driveVars
<1>1. ASSUME UNCHANGED rows, exposed \subseteq exposed' PROVE FetchInv'
  BY <1>1, ServerFetchInv
<1>2. ASSUME NEW u \in Uploads, UploadStep(u) PROVE FetchInv'
  <2>1. CASE List(u)
    <3>1. /\ up[u].pc # "listed" /\ up'[u].pc = "listed" /\ exposed' = exposed
          /\ rows' = WithRow(u)
      BY <2>1 DEF List, Ended, NoUpload, IInv, Types
    <3>2. \A i \in DOMAIN rows' : \/ i \in DOMAIN rows /\ rows'[i] = rows[i]
                                  \/ i = NextId /\ rows'[i].up = u
      BY <3>1 DEF WithRow
    <3> QED
      BY <3>1, <3>2, ServerFetchInv
  <2>2. CASE ~List(u)
    <3>1. UNCHANGED rows /\ exposed \subseteq exposed'
      BY <1>2, <2>2 DEF UploadStep, Begin, StartPart, FinishPart, AbortPart, Fail
    <3> QED
      BY <1>1, <3>1
  <2> QED
    BY <2>1, <2>2
<1>3. ASSUME NEW d \in Deletes, DeleteStep(d) PROVE FetchInv'
  <2>1. ASSUME NEW i \in DOMAIN rows, LookUp(d, i) PROVE FetchInv'
    BY <1>1, <2>1 DEF LookUp
  <2>2. CASE RemoveFiles(d)
    <3> DEFINE n == del[d].id
    <3>1. rows' = IF n \in DOMAIN rows THEN [rows EXCEPT ![n].doomed = TRUE] ELSE rows
      BY <2>2 DEF RemoveFiles
    <3>2. /\ DOMAIN rows' = DOMAIN rows
          /\ \A i \in DOMAIN rows :
               /\ rows'[i].up = rows[i].up /\ rows'[i].at = rows[i].at
               /\ rows'[i].parts = rows[i].parts /\ rows'[i].kind = rows[i].kind
               /\ rows[i].doomed => rows'[i].doomed
      <4> DEFINE r == [rows[n] EXCEPT !.doomed = TRUE]
      <4>1. n \in DOMAIN rows =>
              /\ r.up = rows[n].up /\ r.at = rows[n].at /\ r.parts = rows[n].parts
              /\ r.kind = rows[n].kind /\ r.doomed
        BY DEF IInv, Types, RowRec
      <4>2. rows' = IF n \in DOMAIN rows THEN [rows EXCEPT ![n] = r] ELSE rows
        BY <3>1
      <4> HIDE DEF r, n
      <4> QED
        BY <4>1, <4>2
    <3>3. exposed \subseteq exposed'
      BY <2>2 DEF RemoveFiles
    <3> QED
      BY <3>2, <3>3, ServerFetchInv
  <2>3. CASE DropRow(d)
    <3>1. /\ exposed' = exposed
          /\ \A i \in DOMAIN rows' : i \in DOMAIN rows /\ rows'[i] = rows[i]
      BY <2>3 DEF DropRow, Restrict
    <3> QED
      BY <3>1, ServerFetchInv
  <2> QED
    BY <1>3, <2>1, <2>2, <2>3 DEF DeleteStep
<1>4. CASE SweepStep
  BY <1>1, <1>4 DEF SweepStep, SweepStart, SweepEnd, SweepEntry, SweepFails, Age
<1>5. CASE PoolRestart
  BY <1>1, <1>5 DEF PoolRestart
<1>6. ASSUME NEW f \in Fetches, FetchStep(f) PROVE FetchInv'
  BY <1>1, <1>6 DEF FetchStep, Listing, Get, Cancel, Report
<1> QED
  BY <1>2, <1>3, <1>4, <1>5, <1>6 DEF PoolNext

\* What a download's own step may make of its record.
Fits(g) ==
  /\ g \in FetchRec /\ WellFormed(g)
  /\ g.of # Null => up[g.of].pc = "listed"
  /\ \A i \in DOMAIN rows :
       rows[i].up = g.of /\ Stands(rows[i]) => Follows(g, i, rows[i])

\* A failed attempt leaves what is in the place.
LEMMA BrokenFits ==
  ASSUME Setting, NEW g, Fits(g)
  PROVE  Fits(Broken(g))
<1> DEFINE r == Broken(g)
<1>1. g \in FetchRec
  BY DEF Fits
<1>2. /\ r \in FetchRec /\ r.pc = "failed" /\ r.of = g.of /\ r.got = g.got
      /\ r.todo = {} /\ r.came = {} /\ r.foreign = g.foreign
  BY <1>1 DEF Broken, FetchRec
<1> HIDE DEF r
<1>3. WellFormed(r)
  BY <1>2 DEF Fits, WellFormed
<1>4. \A i \in DOMAIN rows :
        rows[i].up = r.of /\ Stands(rows[i]) => Follows(r, i, rows[i])
  BY <1>2 DEF Fits, Follows, RightRow, OwnParts, AllIn
<1>5. Fits(r)
  BY <1>2, <1>3, <1>4 DEF Fits
<1> QED
  BY <1>5 DEF r

\* The download's record after a step of its own is one that fits.
LEMMA FetchChange ==
  ASSUME Setting, IInv, FetchInv, NEW f \in Fetches, NEW r, Fits(r),
         fetch' = [fetch EXCEPT ![f] = r], UNCHANGED <<rows, up, exposed>>
  PROVE  FetchInv'
<1>1. fetch' \in [Fetches -> FetchRec] /\ fetch'[f] = r
      /\ \A g \in Fetches \ {f} : fetch'[g] = fetch[g]
  BY DEF FetchInv, Fits
<1>2. Once'
  BY <1>1 DEF FetchInv, Once, Fits
<1>3. \A g \in Fetches : WellFormed(fetch'[g])
  BY <1>1 DEF FetchInv, Fits
<1>4. ASSUME NEW g \in Fetches, NEW i \in DOMAIN rows, rows[i].up = fetch'[g].of,
             Stands(rows[i])
      PROVE  Follows(fetch'[g], i, rows[i])
  BY <1>1, <1>4 DEF FetchInv, Fits
<1>5. \A g \in Fetches : WellFormed(fetch[g])'
  BY <1>3 DEF WellFormed
<1>6. \A g \in Fetches : \A i \in DOMAIN rows' :
        rows'[i].up = fetch'[g].of /\ Stands(rows[i])' => Follows(fetch[g], i, rows[i])'
  BY <1>4 DEF Stands, Follows, RightRow, OwnParts, AllIn, Whole
<1> QED
  BY <1>1, <1>2, <1>5, <1>6 DEF FetchInv

LEMMA ListingInv ==
  ASSUME Setting, IInv, FetchInv, NEW f \in Fetches, Fits(fetch[f]),
         NEW i \in DOMAIN rows, Listing(f, i)
  PROVE  FetchInv'
<1> DEFINE a == fetch[f]
           R == rows[i]
<1>1. PICK only_missing \in BOOLEAN :
        fetch' = [fetch EXCEPT ![f] =
          [@ EXCEPT !.pc = "get", !.name = R.at[1], !.kind = R.kind, !.id = i,
                    !.of = R.up, !.plan = R.parts, !.came = {},
                    !.todo = {p \in R.parts :
                               ~(only_missing /\ AtSize(fetch[f].got[R.kind][p]))},
                    !.foreign = fetch[f].foreign \/ fetch[f].of \notin {Null, R.up}]]
  BY DEF Listing
<1> DEFINE todo == {p \in R.parts : ~(only_missing /\ AtSize(a.got[R.kind][p]))}
           r == [a EXCEPT !.pc = "get", !.name = R.at[1], !.kind = R.kind, !.id = i,
                          !.of = R.up, !.plan = R.parts, !.came = {}, !.todo = todo,
                          !.foreign = a.foreign \/ a.of \notin {Null, R.up}]
<1>2. R \in RowRec /\ i \in Nat
  BY DEF IInv, Types
<1>3. R.at[1] \in Names
  BY <1>2 DEF RowRec, Stored
<1>4. a \in FetchRec
  BY DEF Fits
<1>5. todo \subseteq R.parts /\ R.parts \subseteq PartIds
  BY <1>2 DEF RowRec
<1>6. fetch' = [fetch EXCEPT ![f] = r]
  BY <1>1
<1>7. up[R.up].pc = "listed" /\ \A j \in DOMAIN rows : rows[j].up = R.up => j = i
  BY DEF FetchInv, Once
<1> HIDE DEF todo
<1>8. /\ r.pc = "get" /\ r.kind = R.kind /\ r.id = i /\ r.of = R.up
      /\ r.plan = R.parts /\ r.came = {} /\ r.todo = todo /\ r.got = a.got
      /\ ~r.foreign => ~a.foreign /\ a.of \in {Null, R.up}
      /\ r \in FetchRec
  <2> HIDE DEF a, R
  <2> QED
    BY <1>2, <1>3, <1>4, <1>5 DEF FetchRec, RowRec
<1> HIDE DEF r
<1>9. WellFormed(r)
  BY <1>2, <1>5, <1>8 DEF WellFormed, RowRec, Setting
<1>10. ASSUME Stands(R), ~r.foreign, NEW k \in Kinds, NEW p \in PartIds, a.got[k][p].whole
       PROVE  a.got[k][p].by = R.up
  <2>1. a.of = R.up
    BY <1>8, <1>10 DEF Fits, WellFormed
  <2> QED
    BY <1>8, <1>10, <2>1 DEF Fits, Follows, OwnParts
<1>11. Fits(r)
  <2>1. Stands(R) => Follows(r, i, R)
    BY <1>8, <1>10 DEF Follows, RightRow, OwnParts, AllIn
  <2> HIDE DEF R
  <2>2. r.of # Null => up[r.of].pc = "listed"
    BY <1>7, <1>8
  <2>3. \A j \in DOMAIN rows :
          rows[j].up = r.of /\ Stands(rows[j]) => Follows(r, j, rows[j])
    BY <1>7, <1>8, <2>1 DEF R
  <2> QED
    BY <1>8, <1>9, <2>2, <2>3 DEF Fits
<1>12. UNCHANGED <<rows, up, exposed>>
  BY DEF Listing
<1> QED
  BY <1>6, <1>11, <1>12, FetchChange

LEMMA GetInv ==
  ASSUME Setting, IInv, FetchInv, NEW f \in Fetches, Fits(fetch[f]),
         NEW p \in PartIds, Get(f, p)
  PROVE  FetchInv'
<1> DEFINE a == fetch[f]
           b == Serves(a.id, p)
           k == a.kind
           torn == [b EXCEPT !.whole = FALSE]
           c == Broken(a)
           rTorn == [c EXCEPT !.got[k][p] = torn]
           rIt == [a EXCEPT !.got[k][p] = b, !.todo = a.todo \ {p}, !.came = a.came \cup {p}]
<1>1. p \in a.todo /\ a.pc = "get" /\ UNCHANGED <<rows, up, exposed>>
  BY DEF Get
<1>2. fetch' \in {[fetch EXCEPT ![f] = c], [fetch EXCEPT ![f] = rTorn],
                  [fetch EXCEPT ![f] = rIt]}
  BY DEF Get
<1>3. a \in FetchRec /\ k \in Kinds
  BY <1>1 DEF Fits, WellFormed
<1>4. a.of # Null
  BY <1>1 DEF Fits, WellFormed
<1>5. b \in FileRec
  <2>1. NoFile \in FileRec
    BY DEF NoFile, FileRec
  <2>2. ASSUME a.id \in DOMAIN rows
        PROVE  rows[a.id].at \in Stored /\ Slot(rows[a.id].kind, p) \in PartIds
    BY <2>2, SlotType DEF IInv, Types, RowRec
  <2> QED
    BY <2>1, <2>2 DEF Serves, IInv, Types
\* Its own share in the list: the part is the share's.
<1>6. ASSUME NEW i \in DOMAIN rows, rows[i].up = a.of, Stands(rows[i])
      PROVE  b = Whole(a.of) /\ k = rows[i].kind
  <2>1. a.id = i /\ a.plan = rows[i].parts /\ k = rows[i].kind
    BY <1>1, <1>6 DEF Fits, Follows, RightRow
  <2>2. p \in rows[i].parts
    BY <1>1, <2>1 DEF Fits, WellFormed
  <2>3. Owned(rows[i], p)
    BY <1>6, <2>2 DEF IInv, Core, ListedIsWhole, Stands
  <2> QED
    BY <1>6, <2>1, <2>3 DEF Serves, Owned, Whole
<1>7. Fits(c)
  BY BrokenFits
<1> HIDE DEF b
<1>8. torn \in FileRec /\ ~torn.whole
  BY <1>5 DEF FileRec
<1>9. c \in FetchRec /\ c.pc = "failed" /\ c.of = a.of /\ c.got = a.got
      /\ c.todo = {} /\ c.came = {}
  BY <1>3 DEF Broken, FetchRec
<1> HIDE DEF a, torn, c, k
<1>10. /\ rTorn \in FetchRec /\ rTorn.pc = "failed" /\ rTorn.of = a.of
       /\ rTorn.todo = {} /\ rTorn.came = {} /\ rTorn.foreign = c.foreign
       /\ rTorn.got = [a.got EXCEPT ![k][p] = torn]
  BY <1>3, <1>8, <1>9 DEF FetchRec
<1>11. /\ rIt \in FetchRec /\ rIt.pc = "get" /\ rIt.of = a.of /\ rIt.id = a.id
       /\ rIt.plan = a.plan /\ rIt.kind = k /\ rIt.todo = a.todo \ {p}
       /\ rIt.came = a.came \cup {p} /\ rIt.foreign = a.foreign
       /\ rIt.got = [a.got EXCEPT ![k][p] = b]
  BY <1>1, <1>3, <1>5 DEF FetchRec, k
<1>12. a.got \in [Kinds -> [PartIds -> FileRec]]
  BY <1>3 DEF FetchRec
<1> HIDE DEF rTorn, rIt
<1>13. Fits(rTorn)
  <2>1. \A m \in Kinds, q \in PartIds :
          rTorn.got[m][q].whole => rTorn.got[m][q] = a.got[m][q]
    BY <1>3, <1>8, <1>10, <1>12
  <2>2. WellFormed(rTorn)
    BY <1>4, <1>10 DEF WellFormed
  <2>3. ASSUME NEW i \in DOMAIN rows, rows[i].up = a.of, Stands(rows[i])
        PROVE  Follows(rTorn, i, rows[i])
    <3>1. OwnParts(c, rows[i])
      BY <1>7, <1>9, <2>3 DEF Fits, Follows
    <3> QED
      BY <1>9, <1>10, <2>1, <3>1 DEF Follows, RightRow, OwnParts, AllIn
  <2>4. up[a.of].pc = "listed"
    BY <1>4 DEF Fits, a
  <2> QED
    BY <1>10, <2>2, <2>3, <2>4 DEF Fits
<1>14. Fits(rIt)
  <2>1. \A m \in Kinds, q \in PartIds :
          rIt.got[m][q] = IF m = k /\ q = p THEN b ELSE a.got[m][q]
    BY <1>3, <1>11, <1>12
  <2>2. WellFormed(a) /\ up[a.of].pc = "listed"
    BY <1>4 DEF Fits, a
  <2>3. WellFormed(rIt)
    BY <1>3, <1>4, <1>11, <2>2 DEF WellFormed
  <2>4. ASSUME NEW i \in DOMAIN rows, rows[i].up = a.of, Stands(rows[i])
        PROVE  Follows(rIt, i, rows[i])
    <3>1. RightRow(a, i, rows[i]) /\ OwnParts(a, rows[i])
      BY <2>4 DEF Fits, Follows, a
    <3>2. b = Whole(a.of) /\ k = rows[i].kind
      BY <1>6, <2>4 DEF a
    <3>3. RightRow(rIt, i, rows[i])
      BY <1>1, <1>11, <3>1, <3>2 DEF RightRow
    <3>4. \A q \in rIt.came : rIt.got[rows[i].kind][q] = Whole(rIt.of)
      <4>1. ASSUME NEW q \in a.came \cup {p} PROVE rIt.got[k][q] = Whole(a.of)
        <5>1. q \in PartIds
          BY <1>3, <4>1 DEF FetchRec
        <5> QED
          BY <1>3, <2>1, <3>1, <3>2, <4>1, <5>1 DEF OwnParts
      <4> QED
        BY <1>11, <3>2, <4>1
    <3>5. ASSUME ~rIt.foreign, NEW m \in Kinds, NEW q \in PartIds, rIt.got[m][q].whole
          PROVE  rIt.got[m][q].by = rIt.of
      <4>1. CASE m = k /\ q = p
        BY <1>11, <2>1, <3>2, <4>1 DEF Whole
      <4>2. CASE ~(m = k /\ q = p)
        BY <1>11, <2>1, <3>1, <3>5, <4>2 DEF OwnParts
      <4> QED
        BY <4>1, <4>2
    <3>6. AllIn(rIt, rows[i])
      BY <1>11 DEF AllIn
    <3> QED
      BY <3>3, <3>4, <3>5, <3>6 DEF Follows, OwnParts
  <2> QED
    BY <1>11, <2>2, <2>3, <2>4 DEF Fits
<1> QED
  BY <1>1, <1>2, <1>7, <1>13, <1>14, FetchChange

LEMMA ReportInv ==
  ASSUME Setting, IInv, FetchInv, NEW f \in Fetches, Fits(fetch[f]), Report(f)
  PROVE  FetchInv'
<1> DEFINE a == fetch[f]
           r == [a EXCEPT !.pc = "complete", !.id = 0, !.plan = {}]
<1>1. a.pc = "get" /\ a.todo = {} /\ UNCHANGED <<rows, up, exposed>>
  BY DEF Report
<1>2. \/ fetch' = [fetch EXCEPT ![f] = Broken(a)]
      \/ /\ fetch' = [fetch EXCEPT ![f] = r]
         /\ \A p \in a.plan : a.got[a.kind][p].whole
  BY DEF Report, AtSize
<1>3. a \in FetchRec /\ WellFormed(a)
  BY DEF Fits
<1>4. ASSUME \A p \in a.plan : a.got[a.kind][p].whole PROVE Fits(r)
  <2>1. /\ \A i \in DOMAIN rows :
             rows[i].up = a.of /\ Stands(rows[i]) => Follows(a, i, rows[i])
        /\ a.of # Null => up[a.of].pc = "listed"
    BY DEF Fits
  <2> HIDE DEF a
  <2>2. /\ r \in FetchRec /\ r.pc = "complete" /\ r.of = a.of /\ r.todo = a.todo
        /\ r.came = a.came /\ r.got = a.got /\ r.foreign = a.foreign
    BY <1>3 DEF FetchRec
  <2> HIDE DEF r
  <2>3. WellFormed(r)
    BY <1>1, <1>3, <2>2 DEF WellFormed
  <2>4. ASSUME NEW i \in DOMAIN rows, rows[i].up = a.of, Stands(rows[i])
        PROVE  Follows(r, i, rows[i])
    <3>1. Follows(a, i, rows[i])
      BY <2>1, <2>4
    <3>2. \A p \in rows[i].parts : a.got[rows[i].kind][p].whole
      BY <1>1, <1>4, <3>1 DEF Follows, RightRow
    <3> QED
      BY <2>2, <3>1, <3>2 DEF Follows, RightRow, OwnParts, AllIn
  <2> QED
    BY <2>1, <2>2, <2>3, <2>4 DEF Fits
<1>5. Fits(Broken(a))
  BY BrokenFits
<1> QED
  BY <1>1, <1>2, <1>4, <1>5, FetchChange

LEMMA CancelInv ==
  ASSUME Setting, IInv, FetchInv, NEW f \in Fetches, Fits(fetch[f]), Cancel(f)
  PROVE  FetchInv'
<1> DEFINE a == fetch[f]
           r == [a EXCEPT !.todo = {}]
<1>1. fetch' = [fetch EXCEPT ![f] = r] /\ UNCHANGED <<rows, up, exposed>>
  BY DEF Cancel
<1>2. Fits(r)
  <2>1. Fits(a)
    OBVIOUS
  <2> HIDE DEF a
  <2>2. a \in FetchRec
    BY <2>1 DEF Fits
  <2>3. /\ r \in FetchRec /\ r.pc = a.pc /\ r.of = a.of /\ r.todo = {} /\ r.id = a.id
        /\ r.came = a.came /\ r.got = a.got /\ r.foreign = a.foreign
        /\ r.plan = a.plan /\ r.kind = a.kind
    BY <2>2 DEF FetchRec
  <2> HIDE DEF r
  <2> QED
    BY <2>1, <2>3 DEF Fits, WellFormed, Follows, RightRow, OwnParts, AllIn
<1> QED
  BY <1>1, <1>2, FetchChange

\* A download's own steps: what it is given for its share is that share's.
LEMMA FetchStepInv ==
  ASSUME Setting, IInv, FetchInv, NEW f \in Fetches, FetchStep(f)
  PROVE  FetchInv'
<1>1. Fits(fetch[f])
  BY DEF Fits, FetchInv, Once
<1> QED
  BY <1>1, ListingInv, GetInv, ReportInv, CancelInv DEF FetchStep

LEMMA FetchInvInit ==
  ASSUME Setting, PoolInit
  PROVE  FetchInv
<1> USE DEF PoolInit
<1>1. DOMAIN rows = {}
  OBVIOUS
<1>2. NoFetch \in FetchRec /\ NoFetch.of = Null /\ WellFormed(NoFetch)
  <2>1. Emptied \in [PartIds -> FileRec] /\ \A p \in PartIds : ~Emptied[p].whole
    BY DEF Emptied, NoFile, FileRec
  <2> QED
    BY <2>1 DEF NoFetch, FetchRec, WellFormed
<1>3. \A f \in Fetches : fetch[f] = NoFetch
  OBVIOUS
<1> HIDE DEF PoolInit
<1>4. fetch \in [Fetches -> FetchRec]
  BY <1>2 DEF PoolInit
<1> QED
  BY <1>1, <1>2, <1>3, <1>4 DEF FetchInv, Once

\* Every step keeps what is known of a download.
LEMMA NextFetchInv ==
  ASSUME Setting, IInv, FetchInv, [PoolNext]_poolVars
  PROVE  FetchInv'
<1>1. ASSUME NEW f \in Fetches, FetchStep(f) PROVE FetchInv'
  BY <1>1, FetchStepInv
<1>2. CASE PoolNext /\ UNCHANGED fetch
  BY <1>2, RowsFetchInv
<1>3. CASE UNCHANGED poolVars
  BY <1>3, ServerFetchInv DEF poolVars
<1>4. PoolNext => UNCHANGED fetch \/ \E f \in Fetches : FetchStep(f)
  <2>1. ASSUME NEW u \in Uploads, UploadStep(u) PROVE UNCHANGED fetch
    BY <2>1 DEF UploadStep, Begin, StartPart, FinishPart, AbortPart, Fail, List
  <2>2. ASSUME NEW d \in Deletes, DeleteStep(d) PROVE UNCHANGED fetch
    BY <2>2 DEF DeleteStep, LookUp, RemoveFiles, DropRow
  <2>3. SweepStep \/ PoolRestart => UNCHANGED fetch
    BY DEF SweepStep, SweepStart, SweepEnd, SweepEntry, SweepFails, Age, PoolRestart
  <2> QED
    BY <2>1, <2>2, <2>3 DEF PoolNext
<1> QED
  BY <1>1, <1>2, <1>3, <1>4

\* A download that reports every file present, of a share that is in the list,
\* that no deletion has come to and whose name is not exposed, has all its files
\* at their size, and those that came are that share's; all are, if no share of
\* another upload was listed into the same place before: for any number of
\* downloads, broken, cancelled and repeated at any point beside the uploads,
\* deletions, sweeps and restarts (share_download, serve_share_file).
THEOREM DownloadSound ==
  ASSUME Setting
  PROVE  PoolSpec => []FetchedIsShare
<1>1. PoolInit => IInv /\ FetchInv
  BY InitOk, FetchInvInit
<1>2. IInv /\ FetchInv /\ [PoolNext]_poolVars => (IInv /\ FetchInv)'
  BY StepOk, NextFetchInv
<1>3. IInv /\ FetchInv => FetchedIsShare
  <2>1. SUFFICES ASSUME IInv, FetchInv, NEW f \in Fetches, NEW i \in DOMAIN rows,
                        fetch[f].pc = "complete", rows[i].up = fetch[f].of,
                        Stands(rows[i]), NEW p \in rows[i].parts
                 PROVE  LET g == fetch[f].got[rows[i].kind][p]
                        IN /\ g.whole
                           /\ p \in fetch[f].came \/ ~fetch[f].foreign
                                => g = Whole(rows[i].up)
    BY DEF FetchedIsShare, Stands, AtSize, Whole
  <2>2. /\ p \in PartIds /\ rows[i].kind \in Kinds
        /\ fetch[f].got[rows[i].kind][p] \in FileRec
    BY <2>1 DEF IInv, Types, RowRec, FetchInv, FetchRec
  <2>3. OwnParts(fetch[f], rows[i]) /\ AllIn(fetch[f], rows[i])
    BY <2>1 DEF FetchInv, Follows
  <2>4. fetch[f].got[rows[i].kind][p].whole
    BY <2>1, <2>3 DEF AllIn
  <2>5. CASE p \in fetch[f].came
    BY <2>1, <2>3, <2>4, <2>5 DEF OwnParts
  <2>6. CASE ~fetch[f].foreign
    BY <2>1, <2>2, <2>3, <2>4, <2>6 DEF OwnParts, Whole, FileRec
  <2> QED
    BY <2>4, <2>5, <2>6
<1> QED
  BY <1>1, <1>2, <1>3, PTL DEF PoolSpec

-----------------------------------------------------------------------------
(* Types *)

Uploaded == {u \in Uploads : up[u].pc = "listed"}

\* The greatest number ever given out is no greater than the number of uploads
\* that have been listed: each of them took one more than one in use.
Numbered == DOMAIN rows \subseteq 1..Cardinality(Uploaded)

LEMMA NextNumbered ==
  ASSUME Setting, IsFiniteSet(Uploads), IInv, Numbered, [PoolNext]_poolVars
  PROVE  Numbered'
<1> USE DEF driveVars
<1>1. /\ Uploaded \subseteq Uploaded' /\ IsFiniteSet(Uploaded) /\ IsFiniteSet(Uploaded')
      /\ Cardinality(Uploaded) \in Nat /\ Cardinality(Uploaded') \in Nat
      /\ Cardinality(Uploaded) <= Cardinality(Uploaded')
  <2>1. Uploaded \subseteq Uploaded'
    BY ListedStays DEF Uploaded
  <2>2. IsFiniteSet(Uploaded) /\ IsFiniteSet(Uploaded')
    BY FS_Subset DEF Uploaded
  <2> QED
    BY <2>1, <2>2, FS_CardinalityType, FS_Subset
<1>2. ASSUME DOMAIN rows' \subseteq DOMAIN rows PROVE Numbered'
  BY <1>1, <1>2 DEF Numbered
<1>3. ASSUME NEW u \in Uploads, List(u) PROVE Numbered'
  <2>1. DOMAIN rows' = DOMAIN rows \cup {NextId}
    BY <1>3 DEF List, WithRow
  <2>2. PICK i \in DOMAIN rows \cup {0} : NextId = 1 + i
    BY NewId DEF IInv
  <2>3. i \in 0..Cardinality(Uploaded)
    BY <1>1, <2>2 DEF Numbered
  <2>4. u \notin Uploaded /\ u \in Uploaded'
    BY <1>3 DEF List, Uploaded, Ended, IInv, Types
  <2>5. Cardinality(Uploaded \cup {u}) = Cardinality(Uploaded) + 1
    BY <1>1, <2>4, FS_AddElement
  <2>6. Cardinality(Uploaded \cup {u}) <= Cardinality(Uploaded')
    BY <1>1, <2>4, FS_Subset
  <2>7. NextId \in 1..Cardinality(Uploaded')
    BY <1>1, <2>2, <2>3, <2>5, <2>6
  <2> QED
    BY <1>1, <2>1, <2>7 DEF Numbered
<1>4. ASSUME NEW u \in Uploads, UploadStep(u) PROVE Numbered'
  BY <1>2, <1>3, <1>4 DEF UploadStep, Begin, StartPart, FinishPart, AbortPart, Fail
<1>5. ASSUME NEW d \in Deletes, DeleteStep(d) PROVE Numbered'
  <2>1. ASSUME NEW i \in DOMAIN rows, LookUp(d, i) PROVE Numbered'
    BY <1>2, <2>1 DEF LookUp
  <2>2. CASE RemoveFiles(d)
    BY <1>2, <2>2 DEF RemoveFiles
  <2>3. CASE DropRow(d)
    BY <1>2, <2>3 DEF DropRow, Restrict
  <2> QED
    BY <1>5, <2>1, <2>2, <2>3 DEF DeleteStep
<1>6. ASSUME NEW f \in Fetches, FetchStep(f) PROVE Numbered'
  BY <1>2, <1>6 DEF FetchStep, Listing, Get, Cancel, Report
<1>7. CASE SweepStep
  BY <1>2, <1>7 DEF SweepStep, SweepStart, SweepEnd, SweepEntry, SweepFails, Age
<1>8. CASE PoolRestart
  BY <1>2, <1>8 DEF PoolRestart
<1>9. CASE UNCHANGED poolVars
  BY <1>2, <1>9 DEF poolVars
<1> QED
  BY <1>4, <1>5, <1>6, <1>7, <1>8, <1>9 DEF PoolNext

\* Types, and that a row's number is no greater than the number of uploads that
\* were ever listed (shares.id, upload_share).
THEOREM PoolTyped ==
  ASSUME Setting, IsFiniteSet(Uploads)
  PROVE  PoolSpec => []PoolTypeOK
<1>1. PoolInit => IInv /\ FetchInv /\ Numbered
  BY InitOk, FetchInvInit DEF PoolInit, Numbered
<1>2. IInv /\ FetchInv /\ Numbered /\ [PoolNext]_poolVars => (IInv /\ FetchInv /\ Numbered)'
  BY StepOk, NextFetchInv, NextNumbered
<1>3. IInv /\ FetchInv /\ Numbered => PoolTypeOK
  <2> SUFFICES ASSUME IInv, FetchInv, Numbered PROVE PoolTypeOK
    OBVIOUS
  <2>1. Uploaded \subseteq Uploads
    BY DEF Uploaded
  <2>2. Cardinality(Uploaded) <= Cardinality(Uploads) /\ Cardinality(Uploaded) \in Nat
        /\ Cardinality(Uploads) \in Nat
    BY <2>1, FS_Subset, FS_CardinalityType
  <2>3. DOMAIN rows \subseteq 1..Cardinality(Uploads)
    BY <2>2 DEF Numbered
  <2> QED
    BY <2>3 DEF IInv, Types, FetchInv, PoolTypeOK, RowRec, UpRec, DelRec, SweepRec, FetchRec
<1> QED
  BY <1>1, <1>2, <1>3, PTL DEF PoolSpec
=============================================================================
