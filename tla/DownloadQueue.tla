---------------------------- MODULE DownloadQueue ----------------------------
(***************************************************************************)
(* The visible, sequential queue of the download manager (downloads.rs):   *)
(* callers push jobs and make sure a worker runs (enqueue, pump), workers  *)
(* pop jobs until the queue is empty, Pause and Cancel reach the job in    *)
(* the active slot.  What a job does is the subject of Download.           *)
(*                                                                         *)
(* A caller is a thread that executes a command.  Between the push, made   *)
(* under the queue's lock, and the swap of the running flag in pump any    *)
(* other thread may run; so it may between the pop that finds the queue    *)
(* empty and the store that clears the flag.                               *)
(***************************************************************************)
EXTENDS Integers, Sequences, FiniteSets, Subsequence

CONSTANTS
  Titles, Vers,   \* a job is a title and a version
  Callers,        \* threads that execute commands
  Workers,        \* the tasks pump may spawn
  NoJob

Job == [title : Titles, ver : Vers]

ASSUME QueueAssumption == NoJob \notin Job

VARIABLES
  queue,      \* the jobs waiting, first in first out
  active,     \* the job in the active slot, or NoJob
  flagged,    \* the active job was paused or cancelled
  running,    \* the flag pump swaps
  cpc,        \* where each caller is
  wpc,        \* where each worker is
  wjob        \* the job each worker popped

vars == <<queue, active, flagged, running, cpc, wpc, wjob>>

Queued == {queue[i] : i \in DOMAIN queue}

-----------------------------------------------------------------------------
(* Callers. *)

Known(j) == j \in Queued \/ j = active

\* The queue's lock is held over the check and the push.
Enqueue(c, j) ==
  /\ cpc[c] = "idle"
  /\ ~Known(j)
  /\ queue' = Append(queue, j)
  /\ cpc' = [cpc EXCEPT ![c] = "pump"]
  /\ UNCHANGED <<active, flagged, running, wpc, wjob>>

\* The swap of the flag found it clear.
SwapWinsAlways == TRUE
SwapWins == ~running

\* A worker is spawned only by the caller whose swap found the flag clear.
Pump(c) ==
  /\ cpc[c] = "pump"
  /\ cpc' = [cpc EXCEPT ![c] = "idle"]
  /\ running' = TRUE
  /\ \/ ~SwapWins /\ UNCHANGED wpc
     \/ /\ SwapWins
        /\ \E w \in Workers :
             /\ wpc[w] = "off"
             /\ wpc' = [wpc EXCEPT ![w] = "pop"]
  /\ UNCHANGED <<queue, active, flagged, wjob>>

Pause(t) ==
  /\ active # NoJob
  /\ active.title = t
  /\ flagged' = TRUE
  /\ UNCHANGED <<queue, active, running, cpc, wpc, wjob>>

CancelAny(t) ==
  /\ queue' = Picked(queue, {i \in DOMAIN queue : queue[i].title # t})
  /\ flagged' = (flagged \/ active # NoJob)
  /\ UNCHANGED <<active, running, cpc, wpc, wjob>>
Cancel(t) ==
  /\ queue' = Picked(queue, {i \in DOMAIN queue : queue[i].title # t})
  /\ flagged' = (flagged \/ (IF active = NoJob THEN FALSE ELSE active.title = t))
  /\ UNCHANGED <<active, running, cpc, wpc, wjob>>

-----------------------------------------------------------------------------
(* Workers: the loop pump spawns. *)

Pop(w) ==
  /\ wpc[w] = "pop"
  /\ \/ /\ queue = <<>>
        /\ wpc' = [wpc EXCEPT ![w] = "stop"]
        /\ UNCHANGED <<queue, wjob>>
     \/ /\ queue # <<>>
        /\ wjob' = [wjob EXCEPT ![w] = Head(queue)]
        /\ queue' = Tail(queue)
        /\ wpc' = [wpc EXCEPT ![w] = "start"]
  /\ UNCHANGED <<active, flagged, running, cpc>>

\* run_job reaches the active slot, with fresh flags, or fails before it.
Start(w) ==
  /\ wpc[w] = "start"
  /\ \/ /\ active' = wjob[w]
        /\ flagged' = FALSE
        /\ wpc' = [wpc EXCEPT ![w] = "run"]
     \/ /\ wpc' = [wpc EXCEPT ![w] = "end"]
        /\ UNCHANGED <<active, flagged>>
  /\ UNCHANGED <<queue, running, cpc, wjob>>

\* The job completes, fails, or leaves because it was flagged.
Finish(w) ==
  /\ wpc[w] = "run"
  /\ wpc' = [wpc EXCEPT ![w] = "end"]
  /\ UNCHANGED <<queue, active, flagged, running, cpc, wjob>>

ClearKeepsActive(w) ==
  /\ wpc[w] = "end"
  /\ wpc' = [wpc EXCEPT ![w] = "pop"]
  /\ wjob' = [wjob EXCEPT ![w] = NoJob]
  /\ UNCHANGED <<queue, active, flagged, running, cpc>>
ClearAndStop(w) ==
  /\ wpc[w] = "end"
  /\ active' = NoJob /\ flagged' = FALSE
  /\ wpc' = [wpc EXCEPT ![w] = "stop"]
  /\ wjob' = [wjob EXCEPT ![w] = NoJob]
  /\ UNCHANGED <<queue, running, cpc>>

\* The loop clears the active slot after every job.
ClearSlot(w) ==
  /\ wpc[w] = "end"
  /\ active' = NoJob /\ flagged' = FALSE
  /\ wpc' = [wpc EXCEPT ![w] = "pop"]
  /\ wjob' = [wjob EXCEPT ![w] = NoJob]
  /\ UNCHANGED <<queue, running, cpc>>

Stop(w) ==
  /\ wpc[w] = "stop"
  /\ running' = FALSE
  /\ wpc' = [wpc EXCEPT ![w] = "off"]
  /\ UNCHANGED <<queue, active, flagged, cpc, wjob>>

-----------------------------------------------------------------------------
Init ==
  /\ queue = <<>> /\ active = NoJob /\ flagged = FALSE /\ running = FALSE
  /\ cpc = [c \in Callers |-> "idle"]
  /\ wpc = [w \in Workers |-> "off"]
  /\ wjob = [w \in Workers |-> NoJob]

Command ==
  \/ \E c \in Callers, j \in Job : Enqueue(c, j)
  \/ \E t \in Titles : Pause(t) \/ Cancel(t)

Loop(w) == Pop(w) \/ Start(w) \/ Finish(w) \/ ClearSlot(w) \/ Stop(w)

Next ==
  \/ Command
  \/ \E c \in Callers : Pump(c)
  \/ \E w \in Workers : Loop(w)

Spec == Init /\ [][Next]_vars

\* Threads and the worker's loop run on. That a job ends is not assumed: a pass
\* that fails is retried for good (run_job).
Between(w) == Pop(w) \/ ClearSlot(w) \/ Stop(w)
FairSpec ==
  /\ Spec
  /\ \A c \in Callers : WF_vars(Pump(c))
  /\ \A w \in Workers : WF_vars(Between(w))

-----------------------------------------------------------------------------
TypeOK ==
  /\ queue \in Seq(Job)
  /\ active \in Job \cup {NoJob}
  /\ flagged \in BOOLEAN /\ running \in BOOLEAN
  /\ cpc \in [Callers -> {"idle", "pump"}]
  /\ wpc \in [Workers -> {"off", "pop", "start", "run", "end", "stop"}]
  /\ wjob \in [Workers -> Job \cup {NoJob}]
  /\ \A w \in Workers : wjob[w] = NoJob <=> wpc[w] \in {"off", "pop", "stop"}

Alive(w) == wpc[w] # "off"

\* The queue is sequential: however pumps and stopping workers interleave, two
\* workers never run at once, and none runs with the flag clear (pump).
OneWorker ==
  /\ \A v, w \in Workers : Alive(v) /\ Alive(w) => v = w
  /\ \A w \in Workers : Alive(w) => running

\* The active slot is the running worker's job, never a job of an earlier one:
\* Pause and Cancel flag the download that is really in progress.
ActiveIsRunning ==
  active # NoJob =>
    \E w \in Workers : wpc[w] \in {"run", "end"} /\ wjob[w] = active

\* The job that a worker is on; with OneWorker there is one at most.
InHand == {wjob[w] : w \in Workers} \ {NoJob}

\* Callers and workers together keep a queue that is served in order, one job
\* at a time: a job is taken up only when the one before it is over, and
\* Pause and Cancel flag the job in progress when it is of the title named, and
\* no other (downloads.rs, "a **visible sequential queue** of title jobs").
Jobs == INSTANCE JobQueue WITH
  waiting <- queue,
  current <- InHand,
  shown   <- IF active = NoJob THEN {} ELSE {active},
  asked   <- flagged
ServedInOrder == Jobs!JobSpec

\* Every job that a worker takes up ends.
JobsEnd == \A w \in Workers : []<>(wpc[w] \notin {"start", "run"})

\* If the jobs before it end, a job left in the queue while a worker is alive is
\* taken up or cancelled, except when that worker was about to stop: none is
\* passed over, and no worker stops with it in sight (pump, "Start the worker
\* for the next job if idle").
ServedWhileRunning ==
  JobsEnd => \A j \in Job :
    (j \in Queued /\ \E w \in Workers : wpc[w] \in {"pop", "start", "run", "end"})
      ~> (j \notin Queued)

\* "Start the worker for the next job if idle": a job waits only while a worker
\* runs or is about to be started.
NeverStranded ==
  queue # <<>> => running \/ \E c \in Callers : cpc[c] = "pump"

=============================================================================
