---------------------------- MODULE AdminSessions ----------------------------
(***************************************************************************)
(* The administrator's password, the sessions opened with it and the       *)
(* throttle of wrong passwords: setup, login, change_password, logout and  *)
(* require_auth (crates/server/src/admin_api.rs), the session table and    *)
(* the throttle (state.rs), and the handlers that ask for the password     *)
(* without a session: verify_admin and PlaybackAuth (data_api.rs),         *)
(* delete_share (share.rs).                                                *)
(*                                                                         *)
(* hash, file   the password in force, in memory and in config.toml        *)
(* sessions[t]  the session whose cookie is t: its age, the time since use *)
(* throttle[a]  failures of the address a, and how long it is still locked *)
(* ask[h]       the request h between its lock scopes; hashing with argon2 *)
(*              lies between them, with no lock held                       *)
(* split        history: a save has failed, memory is ahead of the file    *)
(* late[a]      history: failures counted while a was locked               *)
(*                                                                         *)
(* early, in a request and in the session it opens, is history too: the    *)
(* password was written by another request while this one was under way.   *)
(***************************************************************************)
EXTENDS Integers, FiniteSets

CONSTANTS
  Asks,      \* requests at a time
  Passwords, Addresses,
  Cookies,   \* bound on the sessions at a time
  MaxFails,  \* MAX_LOGIN_FAILS (8)
  Lockout, SessionIdle, Absolute,  \* LOGIN_LOCKOUT, SESSION_IDLE, SESSION_ABSOLUTE
  Nil

\* The requests are finitely many; the limits are counts, and a session's idle
\* time runs out before its absolute one (state.rs:20).
ASSUME AdmAssumption ==
  /\ Nil \notin Passwords
  /\ IsFiniteSet(Asks)
  /\ MaxFails \in Nat \ {0}
  /\ {Lockout, SessionIdle, Absolute} \subseteq Nat
  /\ SessionIdle <= Absolute

VARIABLES hash, file, sessions, throttle, ask, split, late

admVars == <<hash, file, sessions, throttle, ask, split, late>>

NoAsk   == [pc |-> "idle", from |-> Nil, pw |-> Nil, opens |-> FALSE, early |-> FALSE]
Clean   == [fails |-> 0, left |-> 0]
Opened(pw, early) == [pw |-> pw, early |-> early, age |-> 0, unused |-> 0]
Holding == {t \in Cookies : sessions[t] # Nil}
Ended(h) == ask' = [ask EXCEPT ![h] = NoAsk]
Goto(h, pc) == ask' = [ask EXCEPT ![h].pc = pc]

-----------------------------------------------------------------------------
(* state.rs *)

Locked(a) == throttle[a].left > 0

LoginFail(a) ==
  LET n == throttle[a].fails + 1
  IN throttle' = [throttle EXCEPT ![a] = IF n >= MaxFails
                    THEN [fails |-> 0, left |-> Lockout]
                    ELSE [@ EXCEPT !.fails = n]]

LoginOk(a) == throttle' = [throttle EXCEPT ![a] = Clean]

Live(s) == s.age < Absolute /\ s.unused < SessionIdle

\* What session_valid leaves of the table when it is asked for the cookie t.
Looked(t) ==
  [sessions EXCEPT ![t] = IF @ # Nil /\ Live(@) THEN [@ EXCEPT !.unused = 0] ELSE Nil]
Valid(t) == sessions[t] # Nil /\ Live(sessions[t])

\* The save of a new password: the others under way are now early ones.
Write(h, pw) ==
  /\ hash' = pw
  /\ \E saved \in BOOLEAN :
       /\ file' = IF saved THEN pw ELSE file
       /\ split' = ~saved
       /\ ask' = [g \in Asks |->
            IF g # h THEN [ask[g] EXCEPT !.early = ask[g] # NoAsk]
            ELSE IF saved THEN [ask[h] EXCEPT !.pc = IF @ = "setup" THEN "open" ELSE "clear"]
                          ELSE NoAsk]
  /\ UNCHANGED <<sessions, throttle, late>>

-----------------------------------------------------------------------------
(* The handlers *)

\* setup: the hash is made first, then checked for and written under one lock.
SetupStart(h, pw) ==
  /\ ask[h] = NoAsk
  /\ ask' = [ask EXCEPT ![h] = [NoAsk EXCEPT !.pc = "setup", !.pw = pw]]
  /\ UNCHANGED <<hash, file, sessions, throttle, split, late>>

SetupAnyway(h) ==   \* mutant: asked before hashing, written after
  ask[h].pc = "setup" /\ Write(h, ask[h].pw)
Setup(h) ==
  /\ ask[h].pc = "setup" /\ hash = Nil
  /\ Write(h, ask[h].pw)

SetupRefused(h) ==
  /\ ask[h].pc = "setup" /\ hash # Nil
  /\ Ended(h)
  /\ UNCHANGED <<hash, file, sessions, throttle, split, late>>

\* login and the askers without a session: first the throttle.
AskStartAlways(h, a, pw, opens) ==   \* mutant: the throttle is not asked
  /\ ask[h] = NoAsk
  /\ ask' = [ask EXCEPT ![h] = [NoAsk EXCEPT !.pc = "read", !.from = a,
                                             !.pw = pw, !.opens = opens]]
  /\ UNCHANGED <<hash, file, sessions, throttle, split, late>>
AskStart(h, a, pw, opens) ==
  /\ ask[h] = NoAsk /\ ~Locked(a)
  /\ ask' = [ask EXCEPT ![h] = [NoAsk EXCEPT !.pc = "read", !.from = a,
                                             !.pw = pw, !.opens = opens]]
  /\ UNCHANGED <<hash, file, sessions, throttle, split, late>>

\* Then the stored hash, verified out of any lock. None is set: login and
\* verify_admin end here, the others take it for a wrong password.
Verify(h) ==
  /\ ask[h].pc = "read"
  /\ \/ hash = Nil /\ Ended(h)
     \/ hash = Nil /\ ~ask[h].opens /\ Goto(h, "wrong")
     \/ hash # Nil /\ Goto(h, IF ask[h].pw = hash THEN "right" ELSE "wrong")
  /\ UNCHANGED <<hash, file, sessions, throttle, split, late>>

Wrong(h) ==
  /\ ask[h].pc = "wrong"
  /\ LoginFail(ask[h].from)
  /\ late' = [late EXCEPT ![ask[h].from] = IF Locked(ask[h].from) THEN @ + 1 ELSE 0]
  /\ Ended(h)
  /\ UNCHANGED <<hash, file, sessions, split>>

Right(h) ==
  /\ ask[h].pc = "right"
  /\ LoginOk(ask[h].from)
  /\ late' = [late EXCEPT ![ask[h].from] = 0]
  /\ IF ask[h].opens THEN Goto(h, "open") ELSE Ended(h)
  /\ UNCHANGED <<hash, file, sessions, split>>

\* issue_session
IssueSession(h) ==
  /\ ask[h].pc = "open"
  /\ \E t \in Cookies \ Holding :
       sessions' = [sessions EXCEPT ![t] = Opened(ask[h].pw, ask[h].early)]
  /\ Ended(h)
  /\ UNCHANGED <<hash, file, throttle, split, late>>

\* change_password, behind require_auth: the current password is verified
\* against the hash of this moment and the new one hashed, then written.
ChangeStart(h, t, new) ==
  /\ ask[h] = NoAsk /\ Valid(t) /\ hash # Nil
  /\ sessions' = Looked(t)
  /\ ask' = [ask EXCEPT ![h] = [NoAsk EXCEPT !.pc = "change", !.pw = new]]
  /\ UNCHANGED <<hash, file, throttle, split, late>>

Change(h) == ask[h].pc = "change" /\ Write(h, ask[h].pw)

\* session_clear, then the caller gets a session of its own.
SessionClear(h) ==
  /\ ask[h].pc = "clear"
  /\ sessions' = [t \in Cookies |-> Nil]
  /\ Goto(h, "open")
  /\ UNCHANGED <<hash, file, throttle, split, late>>

\* Any other gated request, or auth_state: it refreshes or prunes.
RequireAuth(t) ==
  /\ sessions' = Looked(t)
  /\ UNCHANGED <<hash, file, throttle, ask, split, late>>

Logout(t) ==
  /\ sessions' = [sessions EXCEPT ![t] = Nil]
  /\ UNCHANGED <<hash, file, throttle, ask, split, late>>

\* Time passes; what has run out stays where it is until it is looked at.
Older(n, limit) == IF n < limit THEN n + 1 ELSE n
Tick ==
  /\ sessions' = [t \in Cookies |->
       IF t \in Holding THEN [sessions[t] EXCEPT !.age = Older(@, Absolute),
                                                !.unused = Older(@, SessionIdle)] ELSE Nil]
  /\ throttle' = [a \in Addresses |-> [throttle[a] EXCEPT !.left = IF @ > 0 THEN @ - 1 ELSE 0]]
  /\ UNCHANGED <<hash, file, ask, split, late>>

\* Sessions and throttle live in memory only.
Restart ==
  /\ hash' = file /\ split' = FALSE
  /\ sessions' = [t \in Cookies |-> Nil]
  /\ throttle' = [a \in Addresses |-> Clean]
  /\ late' = [a \in Addresses |-> 0]
  /\ ask' = [h \in Asks |-> NoAsk]
  /\ UNCHANGED <<file>>

-----------------------------------------------------------------------------
AdmInit ==
  /\ hash = Nil /\ file = Nil /\ split = FALSE
  /\ sessions = [t \in Cookies |-> Nil]
  /\ throttle = [a \in Addresses |-> Clean]
  /\ late = [a \in Addresses |-> 0]
  /\ ask = [h \in Asks |-> NoAsk]

AdmNext ==
  \/ \E h \in Asks : \/ \E pw \in Passwords : SetupStart(h, pw)
                     \/ \E a \in Addresses, pw \in Passwords, o \in BOOLEAN :
                          AskStart(h, a, pw, o)
                     \/ \E t \in Cookies, new \in Passwords : ChangeStart(h, t, new)
                     \/ Setup(h) \/ SetupRefused(h) \/ Verify(h) \/ Wrong(h) \/ Right(h)
                     \/ IssueSession(h) \/ Change(h) \/ SessionClear(h)
  \/ \E t \in Cookies : RequireAuth(t) \/ Logout(t)
  \/ Tick \/ Restart

AdmSpec == AdmInit /\ [][AdmNext]_admVars

-----------------------------------------------------------------------------
AdmTypeOK ==
  /\ {hash, file} \subseteq Passwords \cup {Nil} /\ split \in BOOLEAN
  /\ throttle \in [Addresses -> [fails : 0..MaxFails-1, left : 0..Lockout]]
  /\ \A t \in Holding : sessions[t].pw \in Passwords /\ sessions[t].unused <= sessions[t].age
  /\ \A h \in Asks : ask[h].pc \in {"idle", "setup", "read", "right", "wrong", "change",
                                    "clear", "open"}

\* Every session was opened with the password in force, except by a request
\* that was under way while another one wrote it, and unless a save has
\* failed: setup succeeds once, and a change revokes what was opened before
\* (setup, "concurrent first-run setups can't race"; change_password).
SessionsCurrent ==
  ~split /\ (\A h \in Asks : ask[h].pc # "clear") =>
    \A t \in Holding : sessions[t].early \/ sessions[t].pw = hash

\* While an address is locked only the attempts that were past the throttle
\* when it closed are still counted: one less than run at a time (login,
\* login_fail, login_locked).
LockHolds == \A a \in Addresses : Locked(a) => late[a] < Cardinality(Asks)
=============================================================================
