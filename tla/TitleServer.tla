----------------------------- MODULE TitleServer -----------------------------
(***************************************************************************)
(* What the server promises the clients about the titles it offers: once   *)
(* offered a title stays on offer, its version counts up one by one, and   *)
(* what is offered changes with its version and never without.             *)
(*                                                                         *)
(* The promise ends for a title that the server may have given up, and     *)
(* then for good: it is among the lost, and what is offered of it does not *)
(* matter.  Library implements this specification, and the environment of  *)
(* Download is one that keeps it.                                          *)
(***************************************************************************)
EXTENDS Integers

CONSTANTS
  Titles,
  Nothing   \* what is offered of a title that is not on offer

VARIABLES
  offer,    \* of each title the manifest on offer, with its version ver
  lost      \* the titles nothing is promised about any more

serverVars == <<offer, lost>>

VersionOf(m) == IF m = Nothing THEN 0 ELSE m.ver

\* A title is not on offer yet, or in its first version.
ServerInit ==
  /\ lost = {}
  /\ DOMAIN offer = Titles
  /\ \A t \in Titles : VersionOf(offer[t]) \in {0, 1}

\* The next version of a title, and of this title only.
Raise(t) ==
  /\ t \notin lost
  /\ VersionOf(offer'[t]) = VersionOf(offer[t]) + 1
  /\ offer' = [offer EXCEPT ![t] = offer'[t]]
  /\ UNCHANGED lost

Lose(S) ==
  /\ lost' = lost \cup S
  /\ offer' = [t \in Titles |-> IF t \in S THEN Nothing ELSE offer[t]]

ServerNext ==
  \/ \E t \in Titles : Raise(t)
  \/ \E S \in SUBSET Titles : Lose(S)

ServerSpec == ServerInit /\ [][ServerNext]_serverVars
=============================================================================
