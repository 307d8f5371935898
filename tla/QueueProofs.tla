----------------------------- MODULE QueueProofs -----------------------------
(***************************************************************************)
(* Proofs about the two components that work a queue off: the visible      *)
(* queue of downloads (DownloadQueue), for any callers, workers, titles    *)
(* and versions, and the rebind channel of the server (Supervisor), for    *)
(* any services, addresses, paths, modes, requests and tries; and what     *)
(* both rest on, the sequence of the elements at some positions            *)
(* (Subsequence).                                                          *)
(***************************************************************************)
EXTENDS DownloadQueue, Supervisor, FiniteSetTheorems, TLAPS

(* The elements of a sequence at some of its positions *)

\* Finitely many positions; the least k of them are counted once each.
LEMMA RankType ==
  ASSUME NEW n \in Nat, NEW P \in SUBSET (1..n)
  PROVE  /\ IsFiniteSet(P) /\ Cardinality(P) \in Nat
         /\ \A i \in P : Rank(P, i) \in 1..Cardinality(P)
<1>1. IsFiniteSet(1..n)
  BY FS_Interval
<1>2. IsFiniteSet(P) /\ Cardinality(P) \in Nat
  BY <1>1, FS_Subset, FS_CardinalityType
<1>3. ASSUME NEW i \in P PROVE Rank(P, i) \in 1..Cardinality(P)
  <2> DEFINE Q == {j \in P : j <= i}
  <2>1. IsFiniteSet(Q) /\ Cardinality(Q) <= Cardinality(P) /\ Cardinality(Q) \in Nat
    BY <1>2, FS_Subset, FS_CardinalityType
  <2>2. i \in Q
    OBVIOUS
  <2>3. Cardinality(Q) # 0
    BY <2>1, <2>2, FS_EmptySet
  <2> QED
    BY <1>2, <2>1, <2>3 DEF Rank
<1> QED
  BY <1>2, <1>3

\* A later position has a greater rank.
LEMMA RankGrows ==
  ASSUME NEW n \in Nat, NEW P \in SUBSET (1..n), NEW i \in P, NEW k \in P, i < k
  PROVE  Rank(P, i) < Rank(P, k)
<1> DEFINE Q == {j \in P : j <= i}
           R == {j \in P : j <= k}
<1>1. IsFiniteSet(R) /\ Cardinality(R) \in Nat
  BY RankType, FS_Subset, FS_CardinalityType
<1>2. Q \in SUBSET R /\ k \in R /\ k \notin Q
  <2>1. i \in 1..n /\ k \in 1..n /\ \A j \in P : j \in 1..n
    OBVIOUS
  <2>2. k <= k /\ ~(k <= i) /\ \A j \in P : j <= i => j <= k
    BY <2>1
  <2> QED
    BY <2>2
<1>3. Cardinality(Q) \in Nat /\ Cardinality(Q) <= Cardinality(R)
      /\ Cardinality(Q) # Cardinality(R)
  <2> HIDE DEF Q, R
  <2> QED
    BY <1>1, <1>2, FS_Subset, FS_CardinalityType
<1> QED
  BY <1>1, <1>3 DEF Rank

\* The ranks are 1 to the number of positions, each the rank of one position.
LEMMA NthFacts ==
  ASSUME NEW n \in Nat, NEW P \in SUBSET (1..n)
  PROVE  /\ \A k \in 1..Cardinality(P) : Nth(P, k) \in P /\ Rank(P, Nth(P, k)) = k
         /\ \A i \in P : Nth(P, Rank(P, i)) = i
<1> DEFINE m == Cardinality(P)
           f == [i \in P |-> Rank(P, i)]
<1>1. IsFiniteSet(P) /\ m \in Nat /\ \A i \in P : Rank(P, i) \in 1..m
  BY RankType
<1>2. \A i, k \in P : Rank(P, i) = Rank(P, k) => i = k
  <2> SUFFICES ASSUME NEW i \in P, NEW k \in P, Rank(P, i) = Rank(P, k)
               PROVE  i = k
    OBVIOUS
  <2>1. i \in 1..n /\ k \in 1..n
    OBVIOUS
  <2>2. ~(i < k) /\ ~(k < i)
    BY <1>1, RankGrows
  <2> QED
    BY <2>1, <2>2
<1>3. IsFiniteSet(1..m) /\ Cardinality(1..m) = m
  BY <1>1, FS_Interval
<1>4. f \in Injection(P, 1..m)
  BY <1>1, <1>2 DEF Injection, IsInjective
<1>5. f \in Surjection(P, 1..m)
  <2> HIDE DEF f
  <2> QED
    BY <1>3, <1>4, FS_Injection
<1>6. ASSUME NEW k \in 1..m PROVE Nth(P, k) \in P /\ Rank(P, Nth(P, k)) = k
  <2>1. \E i \in P : Rank(P, i) = k
    BY <1>5 DEF Surjection
  <2> QED
    BY <2>1 DEF Nth
<1>7. ASSUME NEW i \in P PROVE Nth(P, Rank(P, i)) = i
  BY <1>1, <1>2, <1>6
<1> QED
  BY <1>6, <1>7

\* The picked elements are a sequence; each comes from one of the positions,
\* and no position is left out or comes twice.
LEMMA PickedFacts ==
  ASSUME NEW S, NEW s \in Seq(S), NEW P \in SUBSET DOMAIN s
  PROVE  /\ Picked(s, P) \in Seq(S)
         /\ DOMAIN Picked(s, P) = 1..Cardinality(P) /\ Cardinality(P) \in Nat
         /\ \A k \in DOMAIN Picked(s, P) :
              Nth(P, k) \in P /\ Picked(s, P)[k] = s[Nth(P, k)]
         /\ \A i \in P : \E k \in DOMAIN Picked(s, P) : Picked(s, P)[k] = s[i]
         /\ \A k, l \in DOMAIN Picked(s, P) : Nth(P, k) = Nth(P, l) => k = l
<1> PICK n \in Nat : n = Len(s)
  OBVIOUS
<1>1. P \in SUBSET (1..n) /\ \A i \in 1..n : s[i] \in S
  OBVIOUS
<1>2. PICK m \in Nat : m = Cardinality(P)
  BY <1>1, RankType
<1>3. /\ \A k \in 1..m : Nth(P, k) \in P /\ Rank(P, Nth(P, k)) = k
      /\ \A i \in P : Rank(P, i) \in 1..m /\ Nth(P, Rank(P, i)) = i
  BY <1>1, <1>2, NthFacts, RankType
<1>4. DOMAIN Picked(s, P) = 1..m /\ \A k \in 1..m : Picked(s, P)[k] = s[Nth(P, k)]
  BY <1>2 DEF Picked
<1>5. Picked(s, P) \in Seq(S)
  <2>1. Picked(s, P) \in [1..m -> S]
    BY <1>1, <1>2, <1>3 DEF Picked
  <2> QED
    BY <2>1
<1>6. \A i \in P : \E k \in 1..m : Picked(s, P)[k] = s[i]
  BY <1>3, <1>4
<1>7. \A k, l \in 1..m : Nth(P, k) = Nth(P, l) => k = l
  BY <1>3
<1> QED
  BY <1>2, <1>3, <1>4, <1>5, <1>6, <1>7

-----------------------------------------------------------------------------
(* The queue of downloads *)

\* The types the two invariants need; the queue's contents do not matter.
WorkerTypes ==
  /\ running \in BOOLEAN
  /\ wpc \in [Workers -> {"off", "pop", "start", "run", "end", "stop"}]
  /\ wjob = [w \in Workers |-> wjob[w]]

\* No step of pump or of its workers leaves the types of the worker's state.
LEMMA NextWorkerTypes ==
  ASSUME WorkerTypes, [Next]_vars
  PROVE  WorkerTypes'
<1> USE DEF vars, WorkerTypes
<1>1. ASSUME NEW c \in Callers, NEW j \in Job, Enqueue(c, j) PROVE WorkerTypes'
  BY <1>1 DEF Enqueue
<1>2. ASSUME NEW t \in Titles, Pause(t) PROVE WorkerTypes'
  BY <1>2 DEF Pause
<1>3. ASSUME NEW t \in Titles, Cancel(t) PROVE WorkerTypes'
  BY <1>3 DEF Cancel
<1>4. ASSUME NEW c \in Callers, Pump(c) PROVE WorkerTypes'
  BY <1>4 DEF Pump
<1>5. ASSUME NEW w \in Workers, Pop(w) PROVE WorkerTypes'
  BY <1>5 DEF Pop
<1>6. ASSUME NEW w \in Workers, Start(w) \/ Finish(w) \/ ClearSlot(w) \/ Stop(w)
      PROVE  WorkerTypes'
  BY <1>6 DEF Start, Finish, ClearSlot, Stop
<1>7. CASE UNCHANGED vars
  BY <1>7
<1> QED
  BY <1>1, <1>2, <1>3, <1>4, <1>5, <1>6, <1>7 DEF Next, Command, Loop

\* Two workers never run at once: the swap in pump lets a second one in only
\* after the store that follows the first one's last step.
LEMMA NextOneWorker ==
  ASSUME WorkerTypes, OneWorker, [Next]_vars
  PROVE  OneWorker'
<1> USE DEF vars, WorkerTypes, OneWorker, Alive
<1>1. ASSUME NEW c \in Callers, NEW j \in Job, Enqueue(c, j) PROVE OneWorker'
  BY <1>1 DEF Enqueue
<1>2. ASSUME NEW t \in Titles, Pause(t) \/ Cancel(t) PROVE OneWorker'
  BY <1>2 DEF Pause, Cancel
<1>3. ASSUME NEW c \in Callers, Pump(c) PROVE OneWorker'
  <2>1. CASE running /\ UNCHANGED wpc
    BY <1>3, <2>1 DEF Pump, SwapWins
  <2>2. ASSUME ~running, NEW w \in Workers, wpc' = [wpc EXCEPT ![w] = "pop"]
        PROVE  OneWorker'
    BY <1>3, <2>2 DEF Pump, SwapWins
  <2> QED
    BY <1>3, <2>1, <2>2 DEF Pump, SwapWins
<1>4. ASSUME NEW w \in Workers, Pop(w) \/ Start(w) \/ Finish(w) \/ ClearSlot(w)
      PROVE  OneWorker'
  <2>1. /\ UNCHANGED running /\ wpc[w] # "off"
        /\ \E k \in {"pop", "start", "run", "end", "stop"} :
             wpc' = [wpc EXCEPT ![w] = k]
    BY <1>4 DEF Pop, Start, Finish, ClearSlot
  <2> QED
    BY <2>1
<1>5. ASSUME NEW w \in Workers, Stop(w) PROVE OneWorker'
  BY <1>5 DEF Stop
<1>6. CASE UNCHANGED vars
  BY <1>6
<1> QED
  BY <1>1, <1>2, <1>3, <1>4, <1>5, <1>6 DEF Next, Command, Loop

\* No step leaves a job in the active slot that its worker is not on.
LEMMA NextActiveIsRunning ==
  ASSUME WorkerTypes, OneWorker, ActiveIsRunning, [Next]_vars
  PROVE  ActiveIsRunning'
<1> USE DEF vars, WorkerTypes, ActiveIsRunning
<1>1. ASSUME NEW c \in Callers, NEW j \in Job, Enqueue(c, j) PROVE ActiveIsRunning'
  BY <1>1 DEF Enqueue
<1>2. ASSUME NEW t \in Titles, Pause(t) \/ Cancel(t) PROVE ActiveIsRunning'
  BY <1>2 DEF Pause, Cancel
<1>3. ASSUME NEW c \in Callers, Pump(c) PROVE ActiveIsRunning'
  BY <1>3 DEF Pump
<1>4. ASSUME NEW w \in Workers, Pop(w) PROVE ActiveIsRunning'
  BY <1>4 DEF Pop
<1>5. ASSUME NEW w \in Workers, Start(w) PROVE ActiveIsRunning'
  BY <1>5 DEF Start
<1>6. ASSUME NEW w \in Workers, Finish(w) PROVE ActiveIsRunning'
  BY <1>6 DEF Finish
<1>7. ASSUME NEW w \in Workers, ClearSlot(w) PROVE ActiveIsRunning'
  BY <1>7 DEF ClearSlot
<1>8. ASSUME NEW w \in Workers, Stop(w) PROVE ActiveIsRunning'
  BY <1>8 DEF Stop
<1>9. CASE UNCHANGED vars
  BY <1>9
<1> QED
  BY <1>1, <1>2, <1>3, <1>4, <1>5, <1>6, <1>7, <1>8, <1>9 DEF Next, Command, Loop

QueueInv == WorkerTypes /\ OneWorker /\ ActiveIsRunning

\* The queue's inductive invariant holds in every reachable state.
LEMMA QueueInvariance == Spec => []QueueInv
<1>1. Init => QueueInv
  <2> SUFFICES ASSUME Init PROVE QueueInv
    OBVIOUS
  <2>1. WorkerTypes
    BY DEF Init, WorkerTypes
  <2>2. OneWorker /\ ActiveIsRunning
    BY DEF Init, OneWorker, Alive, ActiveIsRunning
  <2> QED
    BY <2>1, <2>2 DEF QueueInv
<1>2. QueueInv /\ [Next]_vars => QueueInv'
  BY NextWorkerTypes, NextOneWorker, NextActiveIsRunning DEF QueueInv
<1> QED
  BY <1>1, <1>2, PTL DEF Spec

\* The visible queue is worked off by one worker at a time (pump), for any
\* number of threads that call enqueue.
THEOREM Sequential == Spec => []OneWorker
<1>1. QueueInv => OneWorker
  BY DEF QueueInv
<1> QED
  BY <1>1, QueueInvariance, PTL

\* Pause and Cancel reach the job that is in progress, never an earlier one.
THEOREM FlagsReachRunningJob == Spec => []ActiveIsRunning
<1>1. QueueInv => ActiveIsRunning
  BY DEF QueueInv
<1> QED
  BY <1>1, QueueInvariance, PTL

-----------------------------------------------------------------------------
(* What the queue of downloads holds *)

\* No step of a caller or a worker leaves the types, and a worker has a job
\* exactly while it is on one.
LEMMA NextTypes ==
  ASSUME TypeOK, [Next]_vars
  PROVE  TypeOK'
<1> USE DEF vars, TypeOK
<1>1. ASSUME NEW c \in Callers, NEW j \in Job, Enqueue(c, j) PROVE TypeOK'
  BY <1>1 DEF Enqueue
<1>2. ASSUME NEW t \in Titles, Pause(t) PROVE TypeOK'
  BY <1>2 DEF Pause
<1>3. ASSUME NEW t \in Titles, Cancel(t) PROVE TypeOK'
  <2>1. queue' \in Seq(Job)
    <3> DEFINE P == {i \in DOMAIN queue : queue[i].title # t}
    <3>1. queue' = Picked(queue, P)
      BY <1>3 DEF Cancel
    <3>2. P \in SUBSET DOMAIN queue
      OBVIOUS
    <3> HIDE DEF P
    <3> QED
      BY <3>1, <3>2, PickedFacts
  <2>2. /\ UNCHANGED <<active, running, cpc, wpc, wjob>>
        /\ flagged' \in BOOLEAN
    BY <1>3 DEF Cancel
  <2> QED
    BY <2>1, <2>2
<1>4. ASSUME NEW c \in Callers, Pump(c) PROVE TypeOK'
  BY <1>4 DEF Pump
<1>5. ASSUME NEW w \in Workers, Pop(w) PROVE TypeOK'
  <2>1. CASE queue = <<>>
    BY <1>5, <2>1 DEF Pop
  <2>2. CASE queue # <<>>
    <3>1. Head(queue) \in Job /\ Tail(queue) \in Seq(Job)
      BY <2>2
    <3> QED
      BY <1>5, <2>2, <3>1, QueueAssumption DEF Pop
  <2> QED
    BY <2>1, <2>2
<1>6. ASSUME NEW w \in Workers, Start(w) PROVE TypeOK'
  BY <1>6 DEF Start
<1>7. ASSUME NEW w \in Workers, Finish(w) \/ ClearSlot(w) \/ Stop(w) PROVE TypeOK'
  BY <1>7 DEF Finish, ClearSlot, Stop
<1>8. CASE UNCHANGED vars
  BY <1>8
<1> QED
  BY <1>1, <1>2, <1>3, <1>4, <1>5, <1>6, <1>7, <1>8 DEF Next, Command, Loop

\* Every variable of the queue keeps its type, and a worker holds a job exactly
\* while it is between the pop and the end of that job (enqueue, pump).
THEOREM QueueTypes == Spec => []TypeOK
<1>1. Init => TypeOK
  <2> SUFFICES ASSUME Init PROVE TypeOK
    OBVIOUS
  <2>1. queue \in Seq(Job)
    BY DEF Init
  <2>2. \A w \in Workers : wpc[w] = "off" /\ wjob[w] = NoJob
    BY DEF Init
  <2> QED
    BY <2>1, <2>2 DEF Init, TypeOK
<1>2. TypeOK /\ [Next]_vars => TypeOK'
  BY NextTypes
<1> QED
  BY <1>1, <1>2, PTL DEF Spec

-----------------------------------------------------------------------------
(* The queue is served in order *)

Shown == IF active = NoJob THEN {} ELSE {active}
Flags(t) == \E j \in Shown : j.title = t

\* A job is held by the one worker that is on it, and by no other.
LEMMA OneInHand ==
  ASSUME TypeOK, OneWorker, NEW w \in Workers, wpc[w] # "off"
  PROVE  InHand = {wjob[w]} \ {NoJob}
<1>1. \A v \in Workers \ {w} : wjob[v] = NoJob
  BY DEF TypeOK, OneWorker, Alive
<1> QED
  BY <1>1 DEF InHand

\* The jobs that Cancel leaves are the same in both modules.
LEMMA SamePicked == \A P : Picked(queue, P) = Jobs!Picked(queue, P)
BY Zenon DEF Picked, Nth, Rank, Cardinality,
             Jobs!Picked, Jobs!Nth, Jobs!Rank, Jobs!Cardinality

\* Callers' and workers' steps are steps of the queue they keep together: the
\* push, the flags and the removal as they are, the pop of a job as its being
\* taken, the filling and the clearing of the active slot.
LEMMA StepServes ==
  ASSUME TypeOK, OneWorker, ActiveIsRunning, OneWorker', TypeOK', [Next]_vars
  PROVE  [Jobs!JobNext]_<<queue, InHand, Shown, flagged>>
<1> USE DEF vars
<1>1. ASSUME NEW c \in Callers, NEW j \in Job, Enqueue(c, j)
      PROVE  Jobs!Add(j)
  <2>1. InHand' = InHand /\ Shown' = Shown
    BY <1>1 DEF Enqueue, InHand, Shown
  <2> QED
    BY <1>1, <2>1 DEF Enqueue, Known, Queued, Jobs!Add, Jobs!Waits, Shown
<1>2. ASSUME NEW t \in Titles, Pause(t) \/ Cancel(t)
      PROVE  Jobs!Pause(t) \/ Jobs!Cancel(t)
  <2>1. InHand' = InHand /\ Shown' = Shown
    BY <1>2 DEF Pause, Cancel, InHand, Shown
  <2>2. Flags(t) <=> active # NoJob /\ active.title = t
    BY DEF Flags, Shown
  <2>3. CASE Pause(t)
    BY <2>1, <2>2, <2>3 DEF Pause, Jobs!Pause, Jobs!Shows, Flags, Shown
  <2>4. CASE Cancel(t)
    <3>1. flagged' = (flagged \/ Flags(t))
      BY <2>2, <2>4 DEF Cancel
    <3>2. flagged' = (flagged \/ Jobs!Shows(t))
      BY <3>1, Zenon DEF Flags, Shown, Jobs!Shows
    <3>3. queue' = Jobs!Picked(queue, {i \in DOMAIN queue : queue[i].title # t})
      BY <2>4, SamePicked, Zenon DEF Cancel
    <3> QED
      BY <2>1, <3>2, <3>3, Zenon DEF Jobs!Cancel, Shown
  <2> QED
    BY <1>2, <2>3, <2>4
<1>3. ASSUME NEW w \in Workers, Pop(w), queue # <<>>
      PROVE  Jobs!Take
  <2>1. wpc[w] = "pop" /\ wpc'[w] = "start" /\ wjob'[w] = Head(queue)
    BY <1>3 DEF Pop, TypeOK
  <2>2. wjob[w] = NoJob /\ Head(queue) # NoJob
    BY <1>3, <2>1, QueueAssumption DEF TypeOK
  <2>3. InHand = {}
    BY <2>1, <2>2, OneInHand
  <2>4. InHand' = {Head(queue)}
    <3>1. InHand' = {wjob'[w]} \ {NoJob}
      <4>1. \A v \in Workers \ {w} : wjob'[v] = NoJob
        BY <2>1 DEF TypeOK, OneWorker, Alive
      <4> QED
        BY <4>1 DEF InHand
    <3> QED
      BY <2>1, <2>2, <3>1
  <2>5. Shown' = Shown /\ flagged' = flagged /\ queue' = Tail(queue)
    BY <1>3 DEF Pop, Shown
  <2> QED
    BY <1>3, <2>3, <2>4, <2>5 DEF Jobs!Take, Shown
<1>4. ASSUME NEW w \in Workers, Start(w)
      PROVE  Jobs!Show \/ UNCHANGED <<queue, InHand, Shown, flagged>>
  <2>1. wpc[w] = "start" /\ InHand' = InHand /\ queue' = queue
    BY <1>4 DEF Start, InHand
  <2>2. InHand = {wjob[w]} /\ wjob[w] # NoJob
    BY <2>1, OneInHand DEF TypeOK
  <2>3. active = NoJob
    BY <2>1 DEF ActiveIsRunning, OneWorker, Alive
  <2>4. CASE active' = wjob[w] /\ flagged' = FALSE
    BY <2>1, <2>2, <2>3, <2>4 DEF Jobs!Show, Shown
  <2>5. CASE UNCHANGED <<active, flagged>>
    BY <2>1, <2>5 DEF Shown
  <2> QED
    BY <1>4, <2>4, <2>5 DEF Start
<1>5. ASSUME NEW w \in Workers, ClearSlot(w)
      PROVE  Jobs!Done
  <2>1. /\ wpc[w] = "end" /\ queue' = queue /\ flagged' = FALSE
        /\ active' = NoJob /\ wjob' = [wjob EXCEPT ![w] = NoJob]
    BY <1>5 DEF ClearSlot
  <2>2. InHand = {wjob[w]} /\ wjob[w] # NoJob
    BY <2>1, OneInHand DEF TypeOK
  <2>3. InHand' = {}
    <3>1. \A v \in Workers : wjob'[v] = NoJob
      BY <2>1 DEF TypeOK, OneWorker, Alive
    <3> QED
      BY <3>1 DEF InHand
  <2> QED
    BY <2>1, <2>2, <2>3 DEF Jobs!Done, Shown
<1>6. CASE UNCHANGED <<queue, active, flagged, wjob>>
  BY <1>6 DEF InHand, Shown
<1>7. ASSUME NEW w \in Workers, Pop(w), queue = <<>>
      PROVE  UNCHANGED <<queue, active, flagged, wjob>>
  BY <1>7 DEF Pop
<1>8. /\ \A c \in Callers : Pump(c) => UNCHANGED <<queue, active, flagged, wjob>>
      /\ \A w \in Workers :
           Finish(w) \/ Stop(w) => UNCHANGED <<queue, active, flagged, wjob>>
  BY DEF Pump, Finish, Stop
<1> QED
  BY <1>1, <1>2, <1>3, <1>4, <1>5, <1>6, <1>7, <1>8
  DEF Next, Command, Loop, Jobs!JobNext, Job

\* For any number of callers and workers the queue that they keep together is
\* one that takes the jobs in order, one at a time, and lets Pause and Cancel
\* stop the job in progress and no other (enqueue, pump, pause, cancel).
THEOREM QueueServedInOrder == Spec => ServedInOrder
<1>1. Init => Jobs!JobInit
  BY DEF Init, InHand, Jobs!JobInit
<1>2. /\ TypeOK /\ OneWorker /\ ActiveIsRunning /\ TypeOK' /\ OneWorker' /\ [Next]_vars
      => [Jobs!JobNext]_Jobs!jobVars
  <2>1. Jobs!jobVars = <<queue, InHand, Shown, flagged>>
    BY DEF Jobs!jobVars, Shown
  <2>2. Jobs!jobVars' = <<queue, InHand, Shown, flagged>>'
    BY DEF Jobs!jobVars, Shown
  <2> QED
    BY <2>1, <2>2, StepServes
<1> QED
  BY <1>1, <1>2, QueueTypes, Sequential, FlagsReachRunningJob, PTL
  DEF Spec, ServedInOrder, Jobs!JobSpec

-----------------------------------------------------------------------------
(* The configuration and the listeners: messages *)

\* The order of the first binds has every service in it.
LEMMA InOrderFacts ==
  /\ InOrder \in Seq(Services)
  /\ \A k \in Services : \E i \in DOMAIN InOrder : InOrder[i] = k
<1> DEFINE n == Cardinality(Services)
           f == SetToSeq(Services)
<1>1. n \in Nat /\ Bijection(1..n, Services) # {}
  BY FS_CardinalityType, SupAssumption DEF ExistsBijection
<1>2. f \in [1..n -> Services] /\ IsInjective(f)
  <2>1. \E g \in [1..n -> Services] : IsInjective(g)
    BY <1>1 DEF Bijection, Injection
  <2> QED
    BY <2>1 DEF SetToSeq
<1>3. IsFiniteSet(1..n) /\ Cardinality(1..n) = n
  BY <1>1, FS_Interval
<1>4. f \in Surjection(1..n, Services)
  <2> HIDE DEF f
  <2>1. f \in Injection(1..n, Services)
    BY <1>2 DEF Injection
  <2> QED
    BY <1>3, <2>1, FS_Injection, SupAssumption
<1>5. f \in Seq(Services) /\ DOMAIN f = 1..n
  BY <1>1, <1>2
<1> QED
  BY <1>4, <1>5 DEF Surjection, InOrder

\* A request sends a message for every service whose address it changes.
LEMMA MovedFacts ==
  ASSUME NEW new
  PROVE  /\ Moved(new) \in Seq(Services)
         /\ \A k \in Services : new.bind[k] # cfg.bind[k] =>
              \E i \in DOMAIN Moved(new) : Moved(new)[i] = k
<1> DEFINE P == {i \in DOMAIN InOrder : new.bind[InOrder[i]] # cfg.bind[InOrder[i]]}
<1>1. P \in SUBSET DOMAIN InOrder /\ Moved(new) = Picked(InOrder, P)
  BY DEF Moved
<1>2. \A k \in Services : new.bind[k] # cfg.bind[k] => \E i \in P : InOrder[i] = k
  BY InOrderFacts
<1> HIDE DEF P
<1>3. /\ Picked(InOrder, P) \in Seq(Services)
      /\ \A i \in P : \E k \in DOMAIN Picked(InOrder, P) :
           Picked(InOrder, P)[k] = InOrder[i]
  BY <1>1, InOrderFacts, PickedFacts
<1> QED
  BY <1>1, <1>2, <1>3

Listed(s, k) == \E i \in DOMAIN s : s[i] = k
Join(x, y)   == x \o y

\* Messages sent join those that wait, and all of them are still there.
LEMMA Joined ==
  ASSUME NEW x \in Seq(Services), NEW y \in Seq(Services)
  PROVE  /\ Join(x, y) \in Seq(Services)
         /\ \A k : Listed(x, k) \/ Listed(y, k) => Listed(Join(x, y), k)
<1>1. PICK m \in Nat : m = Len(x)  OBVIOUS
<1>2. PICK n \in Nat : n = Len(y)  OBVIOUS
<1>3. /\ Join(x, y) \in Seq(Services) /\ DOMAIN Join(x, y) = 1..(m + n)
      /\ \A i \in 1..m : Join(x, y)[i] = x[i]
      /\ \A i \in 1..n : Join(x, y)[m + i] = y[i]
  BY <1>1, <1>2 DEF Join
<1>4. DOMAIN x = 1..m /\ DOMAIN y = 1..n
  BY <1>1, <1>2
<1>5. ASSUME NEW k, Listed(x, k) PROVE Listed(Join(x, y), k)
  <2>1. PICK i \in 1..m : x[i] = k
    BY <1>4, <1>5 DEF Listed
  <2>2. i \in 1..(m + n)
    OBVIOUS
  <2> QED
    BY <1>3, <2>1, <2>2 DEF Listed
<1>6. ASSUME NEW k, Listed(y, k) PROVE Listed(Join(x, y), k)
  <2>1. PICK i \in 1..n : y[i] = k
    BY <1>4, <1>6 DEF Listed
  <2>2. m + i \in 1..(m + n)
    OBVIOUS
  <2> QED
    BY <1>3, <2>1, <2>2 DEF Listed
<1> QED
  BY <1>3, <1>5, <1>6

\* One message more, and none lost.
LEMMA Appended ==
  ASSUME NEW x \in Seq(Services), NEW k \in Services
  PROVE  /\ Append(x, k) \in Seq(Services)
         /\ \A l : Listed(x, l) => Listed(Append(x, k), l)
<1>1. PICK m \in Nat : m = Len(x)  OBVIOUS
<1>2. /\ DOMAIN Append(x, k) = 1..(m + 1) /\ DOMAIN x = 1..m
      /\ \A i \in 1..m : Append(x, k)[i] = x[i]
  BY <1>1
<1>3. \A i \in 1..m : i \in 1..(m + 1)
  OBVIOUS
<1> QED
  BY <1>2, <1>3 DEF Listed

\* Taking the first message leaves the others.
LEMMA Taken ==
  ASSUME NEW x \in Seq(Services), x # <<>>
  PROVE  /\ Head(x) \in Services /\ Tail(x) \in Seq(Services)
         /\ \A k : Listed(x, k) => k = Head(x) \/ Listed(Tail(x), k)
<1>1. PICK m \in Nat : m = Len(x) /\ m # 0  OBVIOUS
<1>2. /\ DOMAIN x = 1..m /\ DOMAIN Tail(x) = 1..(m - 1) /\ Head(x) = x[1]
      /\ \A i \in 1..(m - 1) : Tail(x)[i] = x[i + 1]
  BY <1>1
<1>3. ASSUME NEW k, Listed(x, k), k # Head(x) PROVE Listed(Tail(x), k)
  <2>1. PICK i \in 1..m : x[i] = k
    BY <1>2, <1>3 DEF Listed
  <2>2. i # 1
    BY <1>2, <1>3, <2>1
  <2>3. i - 1 \in 1..(m - 1) /\ Tail(x)[i - 1] = x[i]
    BY <1>2, <2>2
  <2> QED
    BY <1>2, <2>1, <2>3 DEF Listed
<1> QED
  BY <1>3

-----------------------------------------------------------------------------
(* The configuration and the listeners: the inductive invariant *)

\* A message for the service waits in the channel or will be sent by a request.
Told(k) == Listed(channel, k) \/ \E h \in Requests : Listed(req[h].rebinds, k)

\* What the loop works on: nothing, or a service that is down.
LoopShape ==
  /\ sup.pc = "wait" => sup = Waiting
  /\ sup.pc # "wait" => sup.kind \in Services /\ bound[sup.kind] = Down
  /\ sup.pc = "bind" => sup.addr \in Addrs

\* A save that succeeds leaves memory, file and the path in use alike.
Saved == ~unsaved => file = cfg /\ live.path = cfg.path

\* A service that is not where the configuration says is down or will be told;
\* so it is with the address the loop is about to bind.
Heard ==
  ~unsaved =>
    /\ \A k \in Services : bound[k] \in {cfg.bind[k], Down} \/ Told(k)
    /\ sup.pc = "bind" => sup.addr = cfg.bind[sup.kind] \/ Told(sup.kind)

\* One request at most has a mode to apply, the configured one, unless two have
\* crossed; when none has, the jukebox plays by the configured one.
ModeHeard ==
  /\ \A h \in Requests : req[h].pc # "mode" => req[h].mode = None
  /\ ~unsaved /\ ~crossed =>
       /\ \A h \in Requests : req[h].mode \in {cfg.mode, None}
       /\ \A h, g \in Requests : req[h].mode # None /\ req[g].mode # None => h = g
       /\ Pending \/ live.mode = cfg.mode

SupInv == SupTypeOK /\ LoopShape /\ Saved /\ Heard /\ ModeHeard

\* A request goes on to its messages with all it has.
LEMMA StepOfRequest ==
  ASSUME NEW r \in [pc : {"idle", "mode", "send"}, mode : Modes \cup {None},
                    rebinds : Seq(Services)]
  PROVE  [r EXCEPT !.pc = "send", !.mode = None]
           \in [pc : {"idle", "mode", "send"}, mode : Modes \cup {None},
               rebinds : Seq(Services)]
  OBVIOUS

\* The steps of the panel's handlers keep the types.
LEMMA HandlersKeepTypes ==
  ASSUME SupTypeOK,
         \/ \E h \in Requests : \/ \E new \in Config : PutConfig(h, new)
                                \/ ApplyMode(h) \/ SendRebinds(h)
         \/ \E md \in Modes : JukeboxMode(md)
         \/ \E k \in Services : RestartService(k)
  PROVE  SupTypeOK'
<1> USE DEF SupTypeOK, loopVars
<1>1. ASSUME NEW h \in Requests, NEW new \in Config, PutConfig(h, new)
      PROVE  SupTypeOK'
  <2>1. changes' \in 0..MaxChanges
    BY <1>1, SupAssumption DEF PutConfig, Another
  <2>2. Moved(new) \in Seq(Services) /\ NewMode(new) \in Modes \cup {None}
    BY MovedFacts DEF NewMode, Config
  <2>3. new.path \in Paths
    BY DEF Config
  <2>4. CASE unsaved' = TRUE /\ UNCHANGED <<file, live, req>>
    BY <1>1, <2>1, <2>4 DEF PutConfig
  <2>5. CASE /\ file' = new /\ live' = [live EXCEPT !.path = new.path]
             /\ req' = [req EXCEPT ![h] = [pc |-> "mode", mode |-> NewMode(new),
                                           rebinds |-> Moved(new)]]
             /\ UNCHANGED unsaved
    BY <1>1, <2>1, <2>2, <2>3, <2>5 DEF PutConfig
  <2> QED
    BY <1>1, <2>4, <2>5 DEF PutConfig
<1>2. ASSUME NEW h \in Requests, ApplyMode(h) PROVE SupTypeOK'
  <2>1. UNCHANGED <<cfg, file, channel, sup, bound, held, unsaved, crossed, changes>>
    BY <1>2 DEF ApplyMode
  <2>2. req' \in [Requests -> [pc : {"idle", "mode", "send"}, mode : Modes \cup {None},
                               rebinds : Seq(Services)]]
    <3>1. req' = [req EXCEPT ![h] = [req[h] EXCEPT !.pc = "send", !.mode = None]]
      BY <1>2 DEF ApplyMode
    <3> QED
      BY <3>1, StepOfRequest
  <2>3. live' \in [path : Paths, mode : Modes]
    BY <1>2 DEF ApplyMode
  <2> QED
    BY <2>1, <2>2, <2>3
<1>3. ASSUME NEW h \in Requests, SendRebinds(h) PROVE SupTypeOK'
  <2>1. channel' \in Seq(Services)
    <3>1. channel' = Join(channel, req[h].rebinds)
      BY <1>3 DEF SendRebinds, Join
    <3> QED
      BY <3>1, Joined
  <2>2. NoReq \in [pc : {"idle", "mode", "send"}, mode : Modes \cup {None},
                   rebinds : Seq(Services)]
    BY DEF NoReq
  <2>3. req' = [req EXCEPT ![h] = NoReq]
        /\ UNCHANGED <<cfg, file, live, sup, bound, held, unsaved, crossed, changes>>
    BY <1>3 DEF SendRebinds
  <2> QED
    BY <2>1, <2>2, <2>3
<1>4. ASSUME NEW md \in Modes, JukeboxMode(md) PROVE SupTypeOK'
  <2>1. changes' \in 0..MaxChanges
    BY <1>4, SupAssumption DEF JukeboxMode, Another
  <2>2. PICK saved \in BOOLEAN : /\ file' = IF saved THEN cfg' ELSE file
                                 /\ unsaved' = (unsaved \/ ~saved)
    BY <1>4 DEF JukeboxMode
  <2>3. cfg' \in Config /\ live' \in [path : Paths, mode : Modes]
    BY <1>4 DEF JukeboxMode, Config
  <2>4. unsaved' \in BOOLEAN /\ file' \in Config
    BY <2>2, <2>3
  <2> QED
    BY <1>4, <2>1, <2>3, <2>4 DEF JukeboxMode
<1>5. ASSUME NEW k \in Services, RestartService(k) PROVE SupTypeOK'
  <2>1. changes' \in 0..MaxChanges
    BY <1>5, SupAssumption DEF RestartService, Another
  <2>2. channel' \in Seq(Services)
    BY <1>5, Appended DEF RestartService
  <2> QED
    BY <1>5, <2>1, <2>2 DEF RestartService
<1> QED
  BY <1>1, <1>2, <1>3, <1>4, <1>5

\* The steps of the supervisor's loop keep the types, and no two services get
\* one address.
LEMMA LoopKeepsTypes ==
  ASSUME SupTypeOK, LoopShape, SupLoop
  PROVE  SupTypeOK'
<1> USE DEF SupTypeOK
<1>1. CASE Take
  <2>1. Head(channel) \in Services /\ channel' \in Seq(Services)
    BY <1>1, Taken DEF Take
  <2>2. sup' \in [pc : {"wait", "drain", "bind"}, kind : Services \cup {None},
                  addr : Addrs \cup {None}, tries : 0..Tries]
    BY <1>1, <2>1, SupAssumption DEF Take, Waiting
  <2>3. bound' = [bound EXCEPT ![Head(channel)] = Down]
        /\ UNCHANGED <<cfg, file, live, req, held, unsaved, crossed, changes>>
    BY <1>1 DEF Take
  <2> QED
    BY <2>1, <2>2, <2>3
<1>2. CASE ReadBind
  <2>1. cfg.bind[sup.kind] \in Addrs
    BY <1>2 DEF ReadBind, LoopShape, Config
  <2> QED
    BY <1>2, <2>1 DEF ReadBind
<1>3. CASE Listen
  <2>1. sup.kind \in Services /\ sup.addr \in Addrs
    BY <1>3 DEF Listen, LoopShape
  <2>2. \A k \in Services : bound[k] # sup.addr
    BY <1>3 DEF Listen, InUse
  <2>3. bound' = [bound EXCEPT ![sup.kind] = sup.addr] /\ sup' = Waiting
        /\ UNCHANGED <<cfg, file, live, req, channel, held, unsaved, crossed, changes>>
    BY <1>3 DEF Listen
  <2>4. sup' \in [pc : {"wait", "drain", "bind"}, kind : Services \cup {None},
                  addr : Addrs \cup {None}, tries : 0..Tries]
    BY <2>3, SupAssumption DEF Waiting
  <2>5. bound' \in [Services -> Addrs \cup {Down}]
        /\ \A k, l \in Services : bound'[k] = bound'[l] /\ bound'[k] # Down => k = l
    BY <2>1, <2>2, <2>3
  <2> QED
    BY <2>3, <2>4, <2>5
<1>4. CASE TryAgain \/ BindFails
  <2>1. sup' \in [pc : {"wait", "drain", "bind"}, kind : Services \cup {None},
                  addr : Addrs \cup {None}, tries : 0..Tries]
    <3>1. CASE sup.tries < Tries /\ sup' = [sup EXCEPT !.tries = sup.tries + 1]
      <4>1. sup.tries + 1 \in 0..Tries
        <5>1. sup.tries \in 0..Tries /\ Tries \in Nat
          BY SupAssumption
        <5> QED
          BY <3>1, <5>1
      <4> QED
        BY <3>1, <4>1
    <3>2. CASE sup' = Waiting
      BY <3>2, SupAssumption DEF Waiting
    <3> QED
      BY <1>4, <3>1, <3>2 DEF TryAgain, BindFails
  <2>2. UNCHANGED <<cfg, file, live, req, channel, bound, held, unsaved, crossed, changes>>
    BY <1>4 DEF TryAgain, BindFails
  <2> QED
    BY <2>1, <2>2
<1> QED
  BY <1>1, <1>2, <1>3, <1>4 DEF SupLoop, Rebind

\* A restart leaves the types.
LEMMA RestartKeepsTypes ==
  ASSUME SupTypeOK, Restart
  PROVE  SupTypeOK'
<1> USE DEF SupTypeOK
<1>1. changes' \in 0..MaxChanges /\ unsaved' \in BOOLEAN /\ crossed' \in BOOLEAN
  <2>1. changes < MaxChanges /\ changes' = changes + 1
    BY DEF Restart, Another
  <2>2. unsaved' = FALSE /\ crossed' = FALSE
    BY DEF Restart
  <2>3. MaxChanges \in Nat
    BY SupAssumption
  <2>4. changes' \in 0..MaxChanges
    BY <2>1, <2>3
  <2> QED
    BY <2>2, <2>4
<1>2. cfg' \in Config /\ file' \in Config /\ live' \in [path : Paths, mode : Modes]
  BY DEF Restart, Running, Config
<1>3. req' \in [Requests -> [pc : {"idle", "mode", "send"}, mode : Modes \cup {None},
                             rebinds : Seq(Services)]]
  <2>1. NoReq \in [pc : {"idle", "mode", "send"}, mode : Modes \cup {None},
                   rebinds : Seq(Services)]
    BY DEF NoReq
  <2> QED
    BY <2>1 DEF Restart
<1>4. channel' \in Seq(Services)
  BY InOrderFacts DEF Restart
<1>5. sup' \in [pc : {"wait", "drain", "bind"}, kind : Services \cup {None},
                addr : Addrs \cup {None}, tries : 0..Tries]
  BY SupAssumption DEF Restart, Waiting
<1>6. /\ bound' \in [Services -> Addrs \cup {Down}]
      /\ \A k, l \in Services : bound'[k] = bound'[l] /\ bound'[k] # Down => k = l
  BY DEF Restart
<1>7. held' \subseteq Addrs
  BY DEF Restart
<1> QED
  BY <1>1, <1>2, <1>3, <1>4, <1>5, <1>6, <1>7

\* The loop's shape is kept by every step.
LEMMA NextLoopShape ==
  ASSUME SupTypeOK, LoopShape, [SupNext]_supVars
  PROVE  LoopShape'
<1>1. CASE UNCHANGED <<sup, bound>>
  BY <1>1 DEF LoopShape, Waiting
<1>2. CASE Take
  <2>1. Head(channel) \in Services
    BY <1>2, Taken DEF Take, SupTypeOK
  <2>2. sup' = [pc |-> "drain", kind |-> Head(channel), addr |-> None, tries |-> 0]
    BY <1>2 DEF Take, Waiting
  <2>3. bound'[Head(channel)] = Down
    BY <1>2, <2>1 DEF Take, SupTypeOK
  <2> QED
    BY <2>1, <2>2, <2>3 DEF LoopShape
<1>3. CASE ReadBind
  <2>1. sup.kind \in Services /\ bound[sup.kind] = Down
    BY <1>3 DEF ReadBind, LoopShape
  <2>2. cfg.bind[sup.kind] \in Addrs
    BY <2>1 DEF SupTypeOK, Config
  <2>3. sup'.kind = sup.kind /\ sup'.pc = "bind" /\ sup'.addr = cfg.bind[sup.kind]
        /\ bound' = bound
    BY <1>3 DEF ReadBind, SupTypeOK
  <2> QED
    BY <2>1, <2>2, <2>3 DEF LoopShape
<1>4. CASE sup' = Waiting
  BY <1>4 DEF LoopShape, Waiting
<1>5. CASE TryAgain
  <2>1. CASE sup' = [sup EXCEPT !.tries = sup.tries + 1]
    <3>1. sup'.pc = sup.pc /\ sup'.kind = sup.kind /\ sup'.addr = sup.addr
          /\ sup.pc = "bind" /\ bound' = bound
      BY <1>5, <2>1 DEF TryAgain, SupTypeOK
    <3> QED
      BY <3>1 DEF LoopShape
  <2> QED
    BY <1>4, <1>5, <2>1 DEF TryAgain
<1> QED
  BY <1>1, <1>2, <1>3, <1>4, <1>5
  DEF SupNext, SupLoop, Rebind, supVars, loopVars, PutConfig, ApplyMode, SendRebinds,
      JukeboxMode, RestartService, Listen, BindFails, Release, Restart

\* Memory, file and path in use stay alike until a save fails.
LEMMA NextSaved ==
  ASSUME SupTypeOK, Saved, [SupNext]_supVars
  PROVE  Saved'
<1>1. ASSUME NEW h \in Requests, NEW new \in Config, PutConfig(h, new)
      PROVE  Saved'
  <2>1. CASE unsaved' = TRUE
    BY <2>1 DEF Saved
  <2>2. CASE file' = new /\ live' = [live EXCEPT !.path = new.path]
    BY <1>1, <2>2 DEF PutConfig, Saved, SupTypeOK
  <2> QED
    BY <1>1, <2>1, <2>2 DEF PutConfig
<1>2. ASSUME NEW h \in Requests, ApplyMode(h) PROVE Saved'
  <2>1. live'.path = live.path
    BY <1>2 DEF ApplyMode, SupTypeOK
  <2> QED
    BY <1>2, <2>1 DEF ApplyMode, Saved
<1>3. ASSUME NEW md \in Modes, JukeboxMode(md) PROVE Saved'
  <2>1. live'.path = live.path /\ cfg'.path = cfg.path
    BY <1>3 DEF JukeboxMode, SupTypeOK, Config
  <2>2. PICK saved \in BOOLEAN : /\ file' = IF saved THEN cfg' ELSE file
                                 /\ unsaved' = (unsaved \/ ~saved)
    BY <1>3 DEF JukeboxMode
  <2>3. unsaved \in BOOLEAN
    BY DEF SupTypeOK
  <2>4. CASE saved
    BY <2>1, <2>2, <2>3, <2>4 DEF Saved
  <2>5. CASE ~saved
    BY <2>2, <2>3, <2>5 DEF Saved
  <2> QED
    BY <2>4, <2>5
<1>4. CASE Restart
  BY <1>4 DEF Restart, Running, Saved
<1>5. CASE UNCHANGED <<cfg, file, live, unsaved>>
  BY <1>5 DEF Saved
<1> QED
  BY <1>1, <1>2, <1>3, <1>4, <1>5
  DEF SupNext, SupLoop, Rebind, supVars, loopVars, SendRebinds, RestartService, Take,
      ReadBind, Listen, TryAgain, BindFails, Release

\* The jukebox's mode stays behind the configured one only while one request has
\* it to apply, until two requests cross.
LEMMA NextModeHeard ==
  ASSUME SupTypeOK, ModeHeard, [SupNext]_supVars
  PROVE  ModeHeard'
<1>1. ASSUME NEW h \in Requests, NEW new \in Config, PutConfig(h, new)
      PROVE  ModeHeard'
  <2>1. CASE unsaved' = TRUE /\ UNCHANGED <<file, live, req>>
    BY <2>1 DEF ModeHeard
  <2>2. CASE /\ live' = [live EXCEPT !.path = new.path]
             /\ req' = [req EXCEPT ![h] = [pc |-> "mode", mode |-> NewMode(new),
                                           rebinds |-> Moved(new)]]
             /\ UNCHANGED unsaved
    <3>1. cfg' = new /\ crossed' = (crossed \/ (Pending /\ new.mode # cfg.mode))
      BY <1>1 DEF PutConfig
    <3>2. live'.mode = live.mode /\ cfg'.mode = new.mode
      BY <2>2, <3>1 DEF SupTypeOK
    <3>3. /\ req'[h].mode = NewMode(new) /\ req'[h].pc = "mode"
          /\ \A g \in Requests \ {h} : req'[g] = req[g]
      BY <2>2 DEF SupTypeOK
    <3>4. req[h].mode = None
      BY <1>1 DEF PutConfig, NoReq
    <3>5. CASE new.mode = cfg.mode
      <4>1. req'[h].mode = None
        BY <3>3, <3>5 DEF NewMode
      <4>2. \A g \in Requests : req'[g].mode = req[g].mode
        BY <3>3, <3>4, <4>1
      <4>3. Pending' <=> Pending
        BY <4>2 DEF Pending
      <4>4. \A g \in Requests : req'[g].pc # "mode" => req'[g].mode = None
        BY <3>3, <4>2 DEF ModeHeard
      <4> QED
        BY <2>2, <3>1, <3>2, <3>5, <4>2, <4>3, <4>4 DEF ModeHeard
    <3>6. CASE new.mode # cfg.mode
      <4>1. req'[h].mode = new.mode
        BY <3>3, <3>6 DEF NewMode
      <4>2. new.mode # None
        BY SupAssumption DEF Config
      <4>3. Pending'
        BY <4>1, <4>2 DEF Pending
      <4>4. \A g \in Requests : req'[g].pc # "mode" => req'[g].mode = None
        BY <3>3 DEF ModeHeard
      <4>5. ~crossed' => \A g \in Requests \ {h} : req'[g].mode = None
        BY <3>1, <3>3, <3>6 DEF Pending
      <4> QED
        BY <3>1, <4>1, <4>3, <4>4, <4>5 DEF ModeHeard
    <3> QED
      BY <3>5, <3>6
  <2> QED
    BY <1>1, <2>1, <2>2 DEF PutConfig
<1>2. ASSUME NEW h \in Requests, ApplyMode(h) PROVE ModeHeard'
  <2>1. /\ req'[h].mode = None /\ req'[h].pc = "send"
        /\ \A g \in Requests \ {h} : req'[g] = req[g]
    BY <1>2 DEF ApplyMode, SupTypeOK
  <2>2. UNCHANGED <<cfg, unsaved, crossed>>
    BY <1>2 DEF ApplyMode
  <2>3. CASE req[h].mode = None
    <3>1. live' = live /\ \A g \in Requests : req'[g].mode = req[g].mode
      BY <1>2, <2>1, <2>3 DEF ApplyMode
    <3>2. Pending' <=> Pending
      BY <3>1 DEF Pending
    <3> QED
      BY <2>1, <2>2, <3>1, <3>2 DEF ModeHeard
  <2>4. CASE req[h].mode # None
    <3>1. live'.mode = req[h].mode
      BY <1>2, <2>4 DEF ApplyMode, SupTypeOK
    <3> QED
      BY <2>1, <2>2, <2>4, <3>1 DEF ModeHeard
  <2> QED
    BY <2>3, <2>4
<1>3. ASSUME NEW h \in Requests, SendRebinds(h) PROVE ModeHeard'
  <2>1. /\ req'[h] = NoReq /\ \A g \in Requests \ {h} : req'[g] = req[g]
        /\ UNCHANGED <<cfg, live, unsaved, crossed>> /\ req[h].pc = "send"
    BY <1>3 DEF SendRebinds, SupTypeOK
  <2>2. req'[h].mode = None /\ req[h].mode = None
    BY <2>1 DEF ModeHeard, NoReq
  <2>3. \A g \in Requests : req'[g].mode = req[g].mode
    BY <2>1, <2>2
  <2>4. Pending' <=> Pending
    BY <2>3 DEF Pending
  <2> QED
    BY <2>1, <2>2, <2>3, <2>4 DEF ModeHeard
<1>4. ASSUME NEW md \in Modes, JukeboxMode(md) PROVE ModeHeard'
  <2>1. cfg'.mode = md /\ live'.mode = md /\ req' = req
    BY <1>4 DEF JukeboxMode, SupTypeOK, Config
  <2>2. crossed' = (crossed \/ Pending)
    BY <1>4 DEF JukeboxMode
  <2>3. ~crossed' => \A g \in Requests : req'[g].mode = None
    BY <2>1, <2>2 DEF Pending
  <2> QED
    BY <2>1, <2>3 DEF ModeHeard
<1>5. CASE Restart
  <2>1. \A g \in Requests : req'[g] = NoReq
    BY <1>5 DEF Restart
  <2>2. live'.mode = cfg'.mode
    BY <1>5 DEF Restart, Running
  <2> QED
    BY <2>1, <2>2 DEF ModeHeard, NoReq
<1>6. CASE UNCHANGED <<cfg, live, req, unsaved, crossed>>
  BY <1>6 DEF ModeHeard, Pending
<1> QED
  BY <1>1, <1>2, <1>3, <1>4, <1>5, <1>6
  DEF SupNext, SupLoop, Rebind, supVars, loopVars, RestartService, Take,
      ReadBind, Listen, TryAgain, BindFails, Release

\* What a service was told stays told unless the loop takes the message.
LEMMA StaysTold ==
  ASSUME UNCHANGED req,
         \A k \in Services : Listed(channel, k) => Listed(channel', k)
  PROVE  \A k \in Services : Told(k) => Told(k)'
  BY DEF Told

\* A change of the configuration is heard of by every service it moves; no
\* message is lost on the way.
LEMMA HandlersKeepHeard ==
  ASSUME SupTypeOK, LoopShape, Heard,
         \/ \E h \in Requests : \/ \E new \in Config : PutConfig(h, new)
                                \/ ApplyMode(h) \/ SendRebinds(h)
         \/ \E md \in Modes : JukeboxMode(md)
         \/ \E k \in Services : RestartService(k)
  PROVE  Heard'
<1>1. ASSUME NEW h \in Requests, NEW new \in Config, PutConfig(h, new)
      PROVE  Heard'
  <2>1. CASE unsaved' = TRUE
    BY <2>1 DEF Heard
  <2>2. CASE /\ req' = [req EXCEPT ![h] = [pc |-> "mode", mode |-> NewMode(new),
                                           rebinds |-> Moved(new)]]
             /\ UNCHANGED unsaved
    <3>1. UNCHANGED <<channel, sup, bound>> /\ cfg' = new /\ req[h] = NoReq
      BY <1>1 DEF PutConfig, loopVars
    <3>2. /\ req'[h].rebinds = Moved(new)
          /\ \A g \in Requests : g # h => req'[g] = req[g]
      BY <2>2 DEF SupTypeOK
    <3>3. ASSUME NEW k \in Services, Told(k) PROVE Told(k)'
      <4>1. CASE Listed(channel, k)
        BY <3>1, <4>1 DEF Told
      <4>2. ASSUME NEW g \in Requests, Listed(req[g].rebinds, k) PROVE Told(k)'
        <5>1. g # h
          BY <3>1, <4>2 DEF NoReq, Listed
        <5> QED
          BY <3>2, <4>2, <5>1 DEF Told
      <4> QED
        BY <3>3, <4>1, <4>2 DEF Told
    <3>4. ASSUME NEW k \in Services, new.bind[k] # cfg.bind[k] PROVE Told(k)'
      <4>1. Listed(Moved(new), k)
        BY <3>4, MovedFacts DEF Listed
      <4> QED
        BY <3>2, <4>1 DEF Told
    <3>5. sup.pc = "bind" => sup.kind \in Services
      BY DEF LoopShape
    <3> QED
      BY <2>2, <3>1, <3>3, <3>4, <3>5 DEF Heard
  <2> QED
    BY <1>1, <2>1, <2>2 DEF PutConfig
<1>2. ASSUME NEW h \in Requests, ApplyMode(h) PROVE Heard'
  <2>1. UNCHANGED <<cfg, channel, sup, bound, unsaved>>
    BY <1>2 DEF ApplyMode, loopVars
  <2>2. \A g \in Requests : req'[g].rebinds = req[g].rebinds
    BY <1>2 DEF ApplyMode, SupTypeOK
  <2>3. \A k : Told(k) => Told(k)'
    BY <2>1, <2>2 DEF Told
  <2> QED
    BY <2>1, <2>3 DEF Heard
<1>3. ASSUME NEW h \in Requests, SendRebinds(h) PROVE Heard'
  <2>1. UNCHANGED <<cfg, sup, bound, unsaved>>
    BY <1>3 DEF SendRebinds
  <2>2. channel' = Join(channel, req[h].rebinds)
    BY <1>3 DEF SendRebinds, Join
  <2>3. \A k : Listed(channel, k) \/ Listed(req[h].rebinds, k) => Listed(channel', k)
    BY <2>2, Joined DEF SupTypeOK
  <2>4. \A g \in Requests : g # h => req'[g] = req[g]
    BY <1>3 DEF SendRebinds, SupTypeOK
  <2>5. \A k : Told(k) => Told(k)'
    BY <2>3, <2>4 DEF Told
  <2> QED
    BY <2>1, <2>5 DEF Heard
<1>4. ASSUME NEW md \in Modes, JukeboxMode(md) PROVE Heard'
  <2>1. UNCHANGED <<req, channel, sup, bound>> /\ cfg'.bind = cfg.bind
    BY <1>4 DEF JukeboxMode, loopVars, SupTypeOK, Config
  <2>2. unsaved => unsaved'
    BY <1>4 DEF JukeboxMode, SupTypeOK
  <2>3. \A k : Told(k) => Told(k)'
    BY <2>1 DEF Told
  <2> QED
    BY <2>1, <2>2, <2>3 DEF Heard
<1>5. ASSUME NEW k \in Services, RestartService(k) PROVE Heard'
  <2>1. UNCHANGED <<cfg, req, sup, bound, unsaved>> /\ channel' = Append(channel, k)
    BY <1>5 DEF RestartService
  <2>2. \A l : Listed(channel, l) => Listed(channel', l)
    BY <2>1, Appended DEF SupTypeOK
  <2>3. \A l : Told(l) => Told(l)'
    BY <2>1, <2>2 DEF Told
  <2> QED
    BY <2>1, <2>3 DEF Heard
<1> QED
  BY <1>1, <1>2, <1>3, <1>4, <1>5

\* The loop takes a message only to read the address afterwards; what it binds
\* is the address that was read, or there is another message.
LEMMA LoopKeepsHeard ==
  ASSUME SupTypeOK, LoopShape, Heard, SupLoop
  PROVE  Heard'
<1>1. CASE Take
  <2>1. /\ UNCHANGED <<cfg, req, unsaved>> /\ sup'.pc = "drain"
        /\ channel' = Tail(channel) /\ channel # <<>>
        /\ bound' = [bound EXCEPT ![Head(channel)] = Down]
    BY <1>1 DEF Take, Waiting
  <2>2. \A k : Listed(channel, k) => k = Head(channel) \/ Listed(channel', k)
    BY <2>1, Taken DEF SupTypeOK
  <2>3. \A k : Told(k) => k = Head(channel) \/ Told(k)'
    BY <2>1, <2>2 DEF Told
  <2>4. \A k \in Services : bound'[k] = IF k = Head(channel) THEN Down ELSE bound[k]
    BY <2>1 DEF SupTypeOK
  <2> QED
    BY <2>1, <2>3, <2>4 DEF Heard
<1>2. CASE ReadBind
  <2>1. UNCHANGED <<cfg, req, channel, bound, unsaved>>
        /\ sup'.addr = cfg.bind[sup.kind] /\ sup'.kind = sup.kind
    BY <1>2 DEF ReadBind, SupTypeOK
  <2>2. \A k : Told(k) => Told(k)'
    BY <2>1 DEF Told
  <2> QED
    BY <2>1, <2>2 DEF Heard
<1>3. CASE Listen
  <2>1. UNCHANGED <<cfg, req, channel, unsaved>> /\ sup'.pc = "wait" /\ sup.pc = "bind"
        /\ bound' = [bound EXCEPT ![sup.kind] = sup.addr]
    BY <1>3 DEF Listen, Waiting
  <2>2. \A k : Told(k) => Told(k)'
    BY <2>1 DEF Told
  <2>3. \A k \in Services : bound'[k] = IF k = sup.kind THEN sup.addr ELSE bound[k]
    BY <2>1 DEF SupTypeOK
  <2> QED
    BY <2>1, <2>2, <2>3 DEF Heard
<1>4. CASE TryAgain \/ BindFails
  <2>1. UNCHANGED <<cfg, req, channel, bound, unsaved>> /\ sup.pc = "bind"
    BY <1>4 DEF TryAgain, BindFails
  <2>2. \/ sup'.pc = "wait"
        \/ sup'.addr = sup.addr /\ sup'.kind = sup.kind
    <3>1. \/ sup' = [sup EXCEPT !.tries = sup.tries + 1]
          \/ sup' = Waiting
      BY <1>4 DEF TryAgain, BindFails
    <3> QED
      BY <3>1 DEF Waiting, SupTypeOK
  <2>3. \A k : Told(k) => Told(k)'
    BY <2>1 DEF Told
  <2> QED
    BY <2>1, <2>2, <2>3 DEF Heard
<1> QED
  BY <1>1, <1>2, <1>3, <1>4 DEF SupLoop, Rebind

\* Every step keeps the invariant.
LEMMA NextSupInv ==
  ASSUME SupInv, [SupNext]_supVars
  PROVE  SupInv'
<1> USE DEF SupInv
<1>1. LoopShape' /\ Saved' /\ ModeHeard'
  BY NextLoopShape, NextSaved, NextModeHeard
<1>2. CASE \/ \E h \in Requests : \/ \E new \in Config : PutConfig(h, new)
                                  \/ ApplyMode(h) \/ SendRebinds(h)
           \/ \E md \in Modes : JukeboxMode(md)
           \/ \E k \in Services : RestartService(k)
  BY <1>1, <1>2, HandlersKeepTypes, HandlersKeepHeard
<1>3. CASE SupLoop
  BY <1>1, <1>3, LoopKeepsTypes, LoopKeepsHeard
<1>4. CASE Release
  BY <1>1, <1>4 DEF Release, loopVars, SupTypeOK, Heard, Told
<1>5. CASE Restart
  <2>1. \A k \in Services : bound'[k] = Down
    BY <1>5 DEF Restart
  <2>2. sup'.pc = "wait"
    BY <1>5 DEF Restart, Waiting
  <2>3. Heard'
    BY <2>1, <2>2 DEF Heard
  <2> QED
    BY <1>1, <1>5, <2>3, RestartKeepsTypes
<1>6. CASE UNCHANGED supVars
  BY <1>1, <1>6 DEF supVars, SupTypeOK, Heard, Told
<1> QED
  BY <1>2, <1>3, <1>4, <1>5, <1>6 DEF SupNext

\* The server starts with every service down and a message for each.
LEMMA InitSupInv ==
  ASSUME SupInit
  PROVE  SupInv
<1>1. SupTypeOK
  <2>1. live \in [path : Paths, mode : Modes] /\ cfg \in Config /\ file \in Config
    BY DEF SupInit, Running, Config
  <2>2. NoReq \in [pc : {"idle", "mode", "send"}, mode : Modes \cup {None},
                   rebinds : Seq(Services)]
    BY DEF NoReq
  <2>3. channel \in Seq(Services)
    BY InOrderFacts DEF SupInit
  <2>4. Waiting \in [pc : {"wait", "drain", "bind"}, kind : Services \cup {None},
                     addr : Addrs \cup {None}, tries : 0..Tries]
    BY SupAssumption DEF Waiting
  <2>5. changes \in 0..MaxChanges /\ unsaved \in BOOLEAN /\ crossed \in BOOLEAN
    <3>1. changes = 0 /\ MaxChanges \in Nat
      BY SupAssumption DEF SupInit
    <3>2. changes \in 0..MaxChanges
      BY <3>1
    <3>3. unsaved \in BOOLEAN /\ crossed \in BOOLEAN
      BY DEF SupInit
    <3> QED
      BY <3>2, <3>3
  <2>6. /\ bound \in [Services -> Addrs \cup {Down}] /\ held \subseteq Addrs
        /\ \A k, l \in Services : bound[k] = bound[l] /\ bound[k] # Down => k = l
    BY DEF SupInit
  <2> QED
    BY <2>1, <2>2, <2>3, <2>4, <2>5, <2>6 DEF SupInit, SupTypeOK
<1>2. LoopShape
  BY DEF SupInit, LoopShape, Waiting
<1>3. Saved
  BY DEF SupInit, Running, Saved
<1>4. Heard
  BY DEF SupInit, Heard, Waiting
<1>5. ModeHeard
  BY DEF SupInit, Running, NoReq, ModeHeard
<1> QED
  BY <1>1, <1>2, <1>3, <1>4, <1>5 DEF SupInv

\* The invariant of the configuration and its listeners holds in every reachable
\* state, whatever saves, drains and binds do and whenever the server restarts.
THEOREM SupInvariant == SupSpec => []SupInv
<1>1. SupInit => SupInv
  BY InitSupInv
<1>2. SupInv /\ [SupNext]_supVars => SupInv'
  BY NextSupInv
<1> QED
  BY <1>1, <1>2, PTL DEF SupSpec

\* Types, and that two services never listen on one address (spawn_listener).
THEOREM SupTypes == SupSpec => []SupTypeOK
<1>1. SupInv => SupTypeOK
  BY DEF SupInv
<1> QED
  BY <1>1, SupInvariant, PTL

\* When requests and messages are through, every service listens where the
\* configuration says or not at all, and the path in use, the file and the
\* jukebox's mode are the configured ones, unless a save failed or, for the
\* mode, two requests crossed (put_config, jukebox_mode, the rebind loop).
THEOREM ListenersFollow == SupSpec => []FollowsConfig
<1>1. SupInv => FollowsConfig
  <2> SUFFICES ASSUME SupInv, Settled, ~unsaved
               PROVE  /\ \A k \in Services : bound[k] \in {cfg.bind[k], Down}
                      /\ live.path = cfg.path /\ file = cfg
                      /\ live.mode = cfg.mode \/ crossed
    BY DEF FollowsConfig
  <2>1. \A k : ~Told(k)
    BY DEF Settled, Told, Listed, NoReq
  <2>2. ~Pending
    BY DEF Settled, Pending, NoReq
  <2> QED
    BY <2>1, <2>2 DEF SupInv, Heard, Saved, ModeHeard
<1> QED
  BY <1>1, SupInvariant, PTL

=============================================================================
