------------------------------- MODULE JobQueue -------------------------------
(***************************************************************************)
(* What the download queue promises its user, whatever threads call it and *)
(* whatever workers serve it: the jobs are taken in the order in which     *)
(* they were queued, one at a time; none waits twice, or joins the queue   *)
(* while it is shown as running, though it may in the moment before it is  *)
(* shown; Cancel takes all jobs of its title out of the queue, and only    *)
(* the job that is shown can be asked to stop, by a request for its title. *)
(***************************************************************************)
EXTENDS Sequences, Subsequence

CONSTANTS Titles, Vers   \* a job is a title and a version

VARIABLES
  waiting,  \* the jobs that wait, first in first out
  current,  \* the job being worked on: one or none
  shown,    \* the job shown as running, once it has been set up
  asked     \* that job was asked to stop

jobVars == <<waiting, current, shown, asked>>

JobInit == waiting = <<>> /\ current = {} /\ shown = {} /\ asked = FALSE

Waits(j) == \E i \in DOMAIN waiting : waiting[i] = j
Shows(t) == \E j \in shown : j.title = t

Add(j) ==
  /\ ~Waits(j) /\ j \notin shown
  /\ waiting' = Append(waiting, j)
  /\ UNCHANGED <<current, shown, asked>>

Pause(t) ==
  /\ Shows(t) /\ asked' = TRUE
  /\ UNCHANGED <<waiting, current, shown>>

Cancel(t) ==
  /\ waiting' = Picked(waiting, {i \in DOMAIN waiting : waiting[i].title # t})
  /\ asked' = (asked \/ Shows(t))
  /\ UNCHANGED <<current, shown>>

Take ==
  /\ current = {} /\ waiting # <<>>
  /\ current' = {Head(waiting)} /\ waiting' = Tail(waiting)
  /\ UNCHANGED <<shown, asked>>

\* A job that is shown has not been asked to stop yet.
Show ==
  /\ current # {} /\ shown = {}
  /\ shown' = current /\ asked' = FALSE
  /\ UNCHANGED <<waiting, current>>

Done ==
  /\ current # {}
  /\ current' = {} /\ shown' = {} /\ asked' = FALSE
  /\ UNCHANGED waiting

JobNext ==
  \/ \E j \in [title : Titles, ver : Vers] : Add(j)
  \/ \E t \in Titles : Pause(t) \/ Cancel(t)
  \/ Take \/ Show \/ Done

JobSpec == JobInit /\ [][JobNext]_jobVars
=============================================================================
