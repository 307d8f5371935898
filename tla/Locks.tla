------------------------------- MODULE Locks -------------------------------
(***************************************************************************)
(* The locks of the server's AppState (crates/server/src/state.rs) in the  *)
(* order its handlers take them. A handler is a sequence of scopes; in a   *)
(* scope it takes some locks one after the other, waits for each, and lets *)
(* all of them go at the end. None of the locks can be taken twice.        *)
(*                                                                         *)
(* Only scopes that hold a lock while taking another are listed, and those *)
(* that stand between them; one handler stands for all with its scopes.    *)
(*                                                                         *)
(* at[t]  what the worker thread t runs: the handler, its scope, and how   *)
(*        many of the locks of that scope it has                           *)
(***************************************************************************)
EXTENDS Integers, Sequences

CONSTANT Threads   \* worker threads of the runtime

VARIABLE at

\* broadcast_jukebox: the connections, then the state to send.
BroadcastHolding == <<<<"sessions", "db", "jukebox">>>>   \* mutant: all at once
BroadcastJukebox == <<<<"sessions">>, <<"db", "jukebox", "sessions">>>>

\* config is a reader-writer lock; the scopes of status only read it.
Scopes == [
  put_config   |-> <<<<"config", "paths", "db">>, <<"jukebox">>>> \o BroadcastJukebox,
  jukebox_mode |-> <<<<"jukebox", "config">>>> \o BroadcastJukebox,
  jukebox_next |-> <<<<"db", "jukebox">>>> \o BroadcastJukebox,
  delete_share |-> <<<<"paths">>, <<"db", "jukebox">>>> \o BroadcastJukebox,
  disconnect   |-> <<<<"sessions">>, <<"sessions">>, <<"db", "jukebox">>>> \o BroadcastJukebox,
  status       |-> <<<<"config:read", "sessions">>>>]

LockUsers == DOMAIN Scopes
Asleep   == [run |-> "none", scope |-> 0, has |-> 0]
Begun(h) == [run |-> h, scope |-> 1, has |-> 0]

\* Where a thread goes on at the end of a scope.
After(r) == IF r.scope < Len(Scopes[r.run])
            THEN [run |-> r.run, scope |-> r.scope + 1, has |-> 0] ELSE Asleep

Scope(t)  == Scopes[at[t].run][at[t].scope]
Held(t)   == IF at[t] = Asleep THEN {} ELSE {Scope(t)[i] : i \in 1..at[t].has}
Wanted(t) == IF at[t] # Asleep /\ at[t].has < Len(Scope(t))
             THEN {Scope(t)[at[t].has + 1]} ELSE {}

Conflict(l, m) == (l = m /\ l # "config:read") \/ {l, m} = {"config", "config:read"}
WaitsFor(t, u) == \E l \in Wanted(t), m \in Held(u) : Conflict(l, m)

-----------------------------------------------------------------------------
Start(t, h) == at[t] = Asleep /\ at' = [at EXCEPT ![t] = Begun(h)]

Acquire(t) ==
  /\ Wanted(t) # {} /\ \A u \in Threads : ~WaitsFor(t, u)
  /\ at' = [at EXCEPT ![t].has = @ + 1]

Release(t) ==
  /\ at[t] # Asleep /\ at[t].has = Len(Scope(t))
  /\ at' = [at EXCEPT ![t] = After(at[t])]

LockInit == at = [t \in Threads |-> Asleep]
LockNext == \E t \in Threads : (\E h \in LockUsers : Start(t, h)) \/ Acquire(t) \/ Release(t)
LockSpec == LockInit /\ [][LockNext]_at

-----------------------------------------------------------------------------
\* No threads wait for one another in a circle. share.rs says of its locks
\* "Lock order matches the jukebox handlers (db -> jukebox)"; jukebox_mode
\* takes jukebox and then config, put_config takes config and then db.
NoCircularWait ==
  \A W \in (SUBSET Threads) \ {{}} : ~ \A t \in W : \E u \in W : WaitsFor(t, u)

\* Any circle takes three: jukebox_mode with jukebox on its way to config,
\* put_config with config, and a handler with db on its way to jukebox.  Two
\* threads never block each other, and without jukebox_mode no number does.
OneCircle ==
  \A W \in (SUBSET Threads) \ {{}} :
    (\A t \in W : \E u \in W : WaitsFor(t, u))
      => \E a, b, c \in W :
           /\ at[a].run = "jukebox_mode" /\ Held(a) = {"jukebox"} /\ Wanted(a) = {"config"}
           /\ at[b].run = "put_config" /\ "config" \in Held(b)
           /\ "db" \in Held(c) /\ Wanted(c) = {"jukebox"}
=============================================================================
