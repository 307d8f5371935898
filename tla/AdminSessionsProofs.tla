------------------------ MODULE AdminSessionsProofs ------------------------
(***************************************************************************)
(* Proofs about AdminSessions for any number of requests at a time,        *)
(* passwords, addresses and sessions, and any limits, and about Locks for  *)
(* any number of threads.                                                  *)
(***************************************************************************)
EXTENDS AdminSessions, Locks, FiniteSetTheorems, TLAPS

PCs == {"idle", "setup", "read", "right", "wrong", "change", "clear", "open"}
AskRec == [pc : PCs, from : Addresses \cup {Nil}, pw : Passwords \cup {Nil},
           opens : BOOLEAN, early : BOOLEAN]
SessionRec == [pw : Passwords \cup {Nil}, early : BOOLEAN, age : Nat, unused : Nat]

Count(n, left) == [fails |-> n, left |-> left]

\* The types the proofs need; hash and file may be anything.
Types ==
  /\ ask \in [Asks -> AskRec]
  /\ sessions \in [Cookies -> SessionRec \cup {Nil}]
  /\ DOMAIN throttle = Addresses /\ throttle = [a \in Addresses |-> throttle[a]]
  /\ \A a \in Addresses : throttle[a] = Count(throttle[a].fails, throttle[a].left)
  /\ late \in [Addresses -> Nat]

\* The types of the requests and of the sessions after the save of a password.
LEMMA WriteTypes ==
  ASSUME Types, NEW h \in Asks, NEW pw \in Passwords \cup {Nil}, Write(h, pw)
  PROVE  Types'
<1>1. PICK saved \in BOOLEAN :
        ask' = [g \in Asks |->
            IF g # h THEN [ask[g] EXCEPT !.early = ask[g] # NoAsk]
            ELSE IF saved THEN [ask[h] EXCEPT !.pc = IF @ = "setup" THEN "open" ELSE "clear"]
                          ELSE NoAsk]
  BY DEF Write
<1>2. NoAsk \in AskRec
  BY DEF NoAsk, AskRec, PCs
<1>3. \A g \in Asks : ask[g] \in AskRec
  BY DEF Types
<1>4. \A g \in Asks : [ask[g] EXCEPT !.early = ask[g] # NoAsk] \in AskRec
  BY <1>3 DEF AskRec
<1>5. [ask[h] EXCEPT !.pc = IF @ = "setup" THEN "open" ELSE "clear"] \in AskRec
  BY <1>3 DEF AskRec, PCs
<1>6. ask' \in [Asks -> AskRec]
  BY <1>1, <1>2, <1>4, <1>5
<1>7. UNCHANGED <<sessions, throttle, late>>
  BY DEF Write
<1> QED
  BY <1>6, <1>7 DEF Types

\* A look at a session leaves the table's type.
LEMMA LookedType ==
  ASSUME Types, NEW t \in Cookies
  PROVE  Looked(t) \in [Cookies -> SessionRec \cup {Nil}]
<1>1. ASSUME sessions[t] # Nil
      PROVE  [sessions[t] EXCEPT !.unused = 0] \in SessionRec
  BY <1>1 DEF Types, SessionRec
<1> QED
  BY <1>1 DEF Looked, Types

\* Every step keeps the types.
LEMMA NextTypes ==
  ASSUME Types, [AdmNext]_admVars
  PROVE  Types'
<1>0. NoAsk \in AskRec /\ \A g \in Asks : ask[g] \in AskRec
  BY DEF NoAsk, AskRec, PCs, Types
<1>1. ASSUME NEW h \in Asks, NEW pw \in Passwords, SetupStart(h, pw) PROVE Types'
  <2>1. [NoAsk EXCEPT !.pc = "setup", !.pw = pw] \in AskRec
    BY DEF NoAsk, AskRec, PCs
  <2> QED
    BY <1>1, <2>1 DEF SetupStart, Types
<1>2. ASSUME NEW h \in Asks, NEW a \in Addresses, NEW pw \in Passwords,
             NEW o \in BOOLEAN, AskStart(h, a, pw, o) PROVE Types'
  <2>1. [NoAsk EXCEPT !.pc = "read", !.from = a, !.pw = pw, !.opens = o] \in AskRec
    BY DEF NoAsk, AskRec, PCs
  <2> QED
    BY <1>2, <2>1 DEF AskStart, Types
<1>3. ASSUME NEW h \in Asks, NEW t \in Cookies, NEW new \in Passwords,
             ChangeStart(h, t, new) PROVE Types'
  <2>1. [NoAsk EXCEPT !.pc = "change", !.pw = new] \in AskRec
    BY DEF NoAsk, AskRec, PCs
  <2> QED
    BY <1>3, <2>1, LookedType DEF ChangeStart, Types
<1>4. ASSUME NEW h \in Asks, Setup(h) \/ Change(h) PROVE Types'
  <2>1. ask[h].pw \in Passwords \cup {Nil}
    BY <1>0 DEF AskRec
  <2> QED
    BY <1>4, <2>1, WriteTypes DEF Setup, Change
<1>5. ASSUME NEW h \in Asks, SetupRefused(h) \/ Verify(h) PROVE Types'
  <2>1. \A pc \in PCs : [ask[h] EXCEPT !.pc = pc] \in AskRec
    BY <1>0 DEF AskRec
  <2>2. ask' \in [Asks -> AskRec]
    BY <1>0, <1>5, <2>1 DEF SetupRefused, Verify, Ended, Goto, Types, PCs
  <2> QED
    BY <1>5, <2>2 DEF SetupRefused, Verify, Types
<1>6. ASSUME NEW h \in Asks, Wrong(h) \/ Right(h) PROVE Types'
  <2>1. [ask[h] EXCEPT !.pc = "open"] \in AskRec
    BY <1>0 DEF AskRec, PCs
  <2>2. ask' \in [Asks -> AskRec]
    BY <1>0, <1>6, <2>1 DEF Wrong, Right, Ended, Goto, Types
  <2>3. late' \in [Addresses -> Nat]
    BY <1>6 DEF Wrong, Right, Types
  <2>4. sessions' = sessions
    BY <1>6 DEF Wrong, Right
  <2>5. /\ DOMAIN throttle' = Addresses
        /\ throttle' = [a \in Addresses |-> throttle'[a]]
    BY <1>6 DEF Wrong, Right, LoginFail, LoginOk, Types
  <2>6. ASSUME NEW a \in Addresses
        PROVE  throttle'[a] = Count(throttle'[a].fails, throttle'[a].left)
    <3>1. throttle[a] = Count(throttle[a].fails, throttle[a].left)
      BY DEF Types
    <3>2. \/ throttle'[a] = throttle[a]
          \/ throttle'[a] = Clean
          \/ throttle'[a] = Count(0, Lockout)
          \/ throttle'[a] = [throttle[a] EXCEPT !.fails = throttle[a].fails + 1]
      BY <1>6 DEF Wrong, Right, LoginFail, LoginOk, Types, Count
    <3> QED
      BY <3>1, <3>2 DEF Count, Clean
  <2> QED
    BY <2>2, <2>3, <2>4, <2>5, <2>6 DEF Types
<1>7. ASSUME NEW h \in Asks, IssueSession(h) PROVE Types'
  <2>1. Opened(ask[h].pw, ask[h].early) \in SessionRec
    BY <1>0 DEF Opened, SessionRec, AskRec
  <2>2. sessions' \in [Cookies -> SessionRec \cup {Nil}]
    BY <1>7, <2>1 DEF IssueSession, Types
  <2> QED
    BY <1>0, <1>7, <2>2 DEF IssueSession, Ended, Types
<1>8. ASSUME NEW h \in Asks, SessionClear(h) PROVE Types'
  <2>1. [ask[h] EXCEPT !.pc = "open"] \in AskRec
    BY <1>0 DEF AskRec, PCs
  <2> QED
    BY <1>8, <2>1 DEF SessionClear, Goto, Types
<1>9. ASSUME NEW t \in Cookies, RequireAuth(t) \/ Logout(t) PROVE Types'
  BY <1>9, LookedType DEF RequireAuth, Logout, Types
<1>10. CASE Tick
  <2>1. ASSUME NEW t \in Holding
        PROVE  [sessions[t] EXCEPT !.age = Older(@, Absolute),
                                   !.unused = Older(@, SessionIdle)] \in SessionRec
    <3>1. sessions[t] \in SessionRec
      BY DEF Holding, Types
    <3>2. Older(sessions[t].age, Absolute) \in Nat /\ Older(sessions[t].unused, SessionIdle) \in Nat
      BY <3>1 DEF SessionRec, Older
    <3> QED
      BY <3>1, <3>2 DEF SessionRec
  <2>2. sessions' \in [Cookies -> SessionRec \cup {Nil}]
    BY <1>10, <2>1 DEF Tick
  <2>3. /\ DOMAIN throttle' = Addresses
        /\ throttle' = [a \in Addresses |-> throttle'[a]]
    BY <1>10 DEF Tick, Types
  <2>4. ASSUME NEW a \in Addresses
        PROVE  throttle'[a] = Count(throttle'[a].fails, throttle'[a].left)
    <3>1. throttle[a] = Count(throttle[a].fails, throttle[a].left)
      BY DEF Types
    <3>2. throttle'[a] = [throttle[a] EXCEPT !.left = IF @ > 0 THEN @ - 1 ELSE 0]
      BY <1>10 DEF Tick
    <3> QED
      BY <3>1, <3>2 DEF Count
  <2> QED
    BY <1>10, <2>2, <2>3, <2>4 DEF Tick, Types
<1>11. CASE Restart
  BY <1>0, <1>11 DEF Restart, Types, Clean, Count
<1>12. CASE UNCHANGED admVars
  BY <1>12 DEF admVars, Types
<1> QED
  BY <1>1, <1>2, <1>3, <1>4, <1>5, <1>6, <1>7, <1>8, <1>9, <1>10, <1>11, <1>12 DEF AdmNext

\* The initial state has the types.
LEMMA InitTypes == AdmInit => Types
  BY DEF AdmInit, Types, NoAsk, AskRec, PCs, Clean, Count

-----------------------------------------------------------------------------
\* A request under way has a password to write or to verify.
PasswordsAsked == \A h \in Asks : ask[h].pc # "idle" => ask[h].pw \in Passwords

\* It brings the password with its first step and keeps it to its last.
LEMMA NextPasswords ==
  ASSUME Types, PasswordsAsked, [AdmNext]_admVars
  PROVE  PasswordsAsked'
<1>0. \A g \in Asks : ask[g] \in AskRec
  BY DEF Types
<1>1. ASSUME NEW h \in Asks, NEW pw \in Passwords, SetupStart(h, pw) PROVE PasswordsAsked'
  BY <1>1 DEF SetupStart, NoAsk, Types, PasswordsAsked
<1>2. ASSUME NEW h \in Asks, NEW a \in Addresses, NEW pw \in Passwords,
             NEW o \in BOOLEAN, AskStart(h, a, pw, o) PROVE PasswordsAsked'
  BY <1>2 DEF AskStart, NoAsk, Types, PasswordsAsked
<1>3. ASSUME NEW h \in Asks, NEW t \in Cookies, NEW new \in Passwords,
             ChangeStart(h, t, new) PROVE PasswordsAsked'
  BY <1>3 DEF ChangeStart, NoAsk, Types, PasswordsAsked
<1>4. ASSUME NEW h \in Asks, NEW pw, Write(h, pw), ask[h].pc \in {"setup", "change"}
      PROVE  PasswordsAsked'
  <2>1. PICK saved \in BOOLEAN :
          ask' = [g \in Asks |->
            IF g # h THEN [ask[g] EXCEPT !.early = ask[g] # NoAsk]
            ELSE IF saved THEN [ask[h] EXCEPT !.pc = IF @ = "setup" THEN "open" ELSE "clear"]
                          ELSE NoAsk]
    BY <1>4 DEF Write
  <2>2. ask'[h].pc # "idle" => ask'[h].pw = ask[h].pw
    BY <1>0, <2>1 DEF NoAsk, AskRec
  <2>3. \A g \in Asks \ {h} : ask'[g].pc = ask[g].pc /\ ask'[g].pw = ask[g].pw
    BY <1>0, <2>1 DEF AskRec
  <2> QED
    BY <1>4, <2>2, <2>3 DEF PasswordsAsked
<1>5. ASSUME NEW h \in Asks, Setup(h) \/ Change(h) PROVE PasswordsAsked'
  BY <1>4, <1>5 DEF Setup, Change
<1>6. ASSUME NEW h \in Asks,
             \/ SetupRefused(h) \/ Verify(h) \/ Wrong(h) \/ Right(h)
             \/ IssueSession(h) \/ SessionClear(h)
      PROVE  PasswordsAsked'
  <2>1. /\ \A g \in Asks \ {h} : ask'[g] = ask[g]
        /\ ask'[h].pc # "idle" => ask[h].pc # "idle" /\ ask'[h].pw = ask[h].pw
    BY <1>0, <1>6 DEF SetupRefused, Verify, Wrong, Right, IssueSession, SessionClear,
                      Ended, Goto, NoAsk, Types, AskRec
  <2> QED
    BY <2>1 DEF PasswordsAsked
<1>7. CASE UNCHANGED ask
  BY <1>7 DEF PasswordsAsked
<1>8. CASE Restart
  BY <1>8 DEF Restart, NoAsk, PasswordsAsked
<1> QED
  BY <1>1, <1>2, <1>3, <1>5, <1>6, <1>7, <1>8
     DEF AdmNext, RequireAuth, Logout, Tick, admVars

-----------------------------------------------------------------------------
\* Before the first password there is no session and no request for one.
NothingBefore ==
  hash = Nil => /\ \A t \in Cookies : sessions[t] = Nil
                /\ \A h \in Asks : ask[h].pc \in {"idle", "setup", "read", "wrong"}

\* A request about to open a session has the password in force, or was under
\* way when that was written.
OpensCurrent ==
  \A h \in Asks : ask[h].pc \in {"right", "open", "clear"} =>
                    ask[h].early \/ ask[h].pw = hash

CurrentInv == NothingBefore /\ OpensCurrent /\ SessionsCurrent

\* The save of a password marks every other request; a change has its sessions
\* revoked before it opens its own, a setup finds none.
LEMMA WriteCurrent ==
  ASSUME Types, CurrentInv, NEW h \in Asks, NEW pw \in Passwords, Write(h, pw),
         pw # Nil, ask[h].pw = pw,
         \/ ask[h].pc = "setup" /\ hash = Nil
         \/ ask[h].pc = "change"
  PROVE  CurrentInv'
<1>1. PICK saved \in BOOLEAN :
        /\ split' = ~saved
        /\ ask' = [g \in Asks |->
            IF g # h THEN [ask[g] EXCEPT !.early = ask[g] # NoAsk]
            ELSE IF saved THEN [ask[h] EXCEPT !.pc = IF @ = "setup" THEN "open" ELSE "clear"]
                          ELSE NoAsk]
  BY DEF Write
<1>2. hash' = pw /\ sessions' = sessions
  BY DEF Write
<1>3. \A g \in Asks : ask[g] \in AskRec
  BY DEF Types
<1>4. NothingBefore'
  BY <1>2 DEF NothingBefore
<1>5. ASSUME NEW g \in Asks, g # h
      PROVE  ask'[g].pc = ask[g].pc /\ (ask[g].pc # "idle" => ask'[g].early)
  <2>1. ask'[g].pc = ask[g].pc
    BY <1>1, <1>3, <1>5 DEF AskRec
  <2>2. ask'[g].early = (ask[g] # NoAsk)
    BY <1>1, <1>3, <1>5 DEF AskRec
  <2>3. ask[g].pc # "idle" => ask[g] # NoAsk
    BY DEF NoAsk
  <2> QED
    BY <2>1, <2>2, <2>3, Zenon
<1>6. /\ ask'[h].pc \in {"idle", "open", "clear"}
      /\ ask'[h].pc # "idle" => ask'[h].pw = pw
      /\ saved => ask'[h].pc = IF ask[h].pc = "setup" THEN "open" ELSE "clear"
  BY <1>1, <1>3 DEF NoAsk, AskRec
<1>7. OpensCurrent'
  BY <1>2, <1>5, <1>6 DEF OpensCurrent
<1>8. SessionsCurrent'
  <2> SUFFICES ASSUME ~split', \A g \in Asks : ask'[g].pc # "clear",
                      NEW t \in Cookies, sessions'[t] # Nil
               PROVE  FALSE
    BY DEF SessionsCurrent, Holding
  <2>1. saved
    BY <1>1
  <2>2. ask[h].pc = "setup"
    BY <1>6, <2>1
  <2> QED
    BY <1>2, <2>2 DEF CurrentInv, NothingBefore
<1> QED
  BY <1>4, <1>7, <1>8 DEF CurrentInv

\* A step that writes no password, keeps the sessions' passwords or drops
\* sessions, and lets requests only get to a session from a checked password.
LEMMA KeptCurrent ==
  ASSUME Types, CurrentInv, hash' = hash, split' = split,
         \A t \in Cookies : \/ sessions'[t] = Nil
                            \/ /\ sessions[t] # Nil
                               /\ sessions'[t].pw = sessions[t].pw
                               /\ sessions'[t].early = sessions[t].early,
         \A g \in Asks : /\ ask'[g].pc = "clear" <=> ask[g].pc = "clear"
                         /\ ask'[g].pc \in {"right", "open", "clear"} =>
                              ask'[g].early \/ ask'[g].pw = hash
                         /\ hash = Nil =>
                              ask'[g].pc \in {"idle", "setup", "read", "wrong"}
  PROVE  CurrentInv'
<1>1. NothingBefore'
  BY DEF CurrentInv, NothingBefore
<1>2. OpensCurrent'
  BY DEF OpensCurrent
<1>3. SessionsCurrent'
  BY DEF CurrentInv, SessionsCurrent, Holding
<1> QED
  BY <1>1, <1>2, <1>3 DEF CurrentInv

\* Every step keeps the sessions current.
LEMMA NextCurrent ==
  ASSUME Nil \notin Passwords, Types, PasswordsAsked, CurrentInv, [AdmNext]_admVars
  PROVE  CurrentInv'
<1>0. /\ \A g \in Asks : ask[g] \in AskRec
      /\ \A t \in Cookies : sessions[t] \in SessionRec \cup {Nil}
  BY DEF Types
<1>00. \A g \in Asks : /\ ask[g].pc \in {"right", "open", "clear"} =>
                            ask[g].early \/ ask[g].pw = hash
                       /\ hash = Nil => ask[g].pc \in {"idle", "setup", "read", "wrong"}
  BY DEF CurrentInv, OpensCurrent, NothingBefore
<1>1. ASSUME NEW h \in Asks, NEW pw \in Passwords, SetupStart(h, pw) PROVE CurrentInv'
  BY <1>0, <1>00, <1>1, KeptCurrent DEF SetupStart, NoAsk, Types
<1>2. ASSUME NEW h \in Asks, NEW a \in Addresses, NEW pw \in Passwords,
             NEW o \in BOOLEAN, AskStart(h, a, pw, o) PROVE CurrentInv'
  BY <1>0, <1>00, <1>2, KeptCurrent DEF AskStart, NoAsk, Types
<1>3. ASSUME NEW t \in Cookies
      PROVE  \A c \in Cookies : \/ Looked(t)[c] = Nil
                                \/ /\ sessions[c] # Nil
                                   /\ Looked(t)[c].pw = sessions[c].pw
                                   /\ Looked(t)[c].early = sessions[c].early
  BY <1>0 DEF Looked, Types, SessionRec
<1>4. ASSUME NEW h \in Asks, NEW t \in Cookies, NEW new \in Passwords,
             ChangeStart(h, t, new) PROVE CurrentInv'
  <2>1. /\ hash # Nil /\ hash' = hash /\ split' = split /\ sessions' = Looked(t)
        /\ \A g \in Asks : IF g = h THEN ask[g].pc = "idle" /\ ask'[g].pc = "change"
                                    ELSE ask'[g] = ask[g]
    BY <1>4 DEF ChangeStart, NoAsk, Types
  <2> QED
    BY <1>00, <1>3, <2>1, KeptCurrent
<1>5. ASSUME NEW h \in Asks, Setup(h) \/ Change(h) PROVE CurrentInv'
  <2>1. ask[h].pw \in Passwords
    BY <1>5 DEF PasswordsAsked, Setup, Change
  <2> QED
    BY <1>5, <2>1, WriteCurrent DEF Setup, Change
<1>6. ASSUME NEW h \in Asks, SetupRefused(h) \/ Verify(h) \/ Wrong(h) \/ Right(h)
      PROVE  CurrentInv'
  <2>1. /\ hash' = hash /\ split' = split /\ sessions' = sessions
        /\ \A g \in Asks \ {h} : ask'[g] = ask[g]
    BY <1>6 DEF SetupRefused, Verify, Wrong, Right, Ended, Goto, Types
  <2>2. /\ ask[h].pc # "clear" /\ ask'[h].pc # "clear"
        /\ ask'[h].pc \in {"right", "open"} =>
             hash # Nil /\ (ask'[h].early \/ ask'[h].pw = hash)
        /\ ask'[h].pc \in {"idle", "wrong", "right", "open"}
    BY <1>0, <1>00, <1>6
       DEF SetupRefused, Verify, Wrong, Right, Ended, Goto, NoAsk, Types, AskRec
  <2> QED
    BY <1>00, <2>1, <2>2, KeptCurrent
<1>7. ASSUME NEW h \in Asks, IssueSession(h) PROVE CurrentInv'
  <2>1. PICK t \in Cookies : sessions' = [sessions EXCEPT ![t] = Opened(ask[h].pw, ask[h].early)]
    BY <1>7 DEF IssueSession
  <2>2. /\ hash' = hash /\ split' = split /\ ask[h].pc = "open"
        /\ \A g \in Asks \ {h} : ask'[g] = ask[g]
        /\ ask'[h] = NoAsk
    BY <1>7 DEF IssueSession, Ended, Types
  <2>3. hash # Nil
    BY <1>00, <2>2
  <2>4. NothingBefore' /\ OpensCurrent'
    BY <1>00, <2>2, <2>3 DEF NothingBefore, OpensCurrent, NoAsk
  <2>5. Opened(ask[h].pw, ask[h].early).early \/ Opened(ask[h].pw, ask[h].early).pw = hash
    BY <1>00, <2>2 DEF Opened
  <2>6. ASSUME ~split', \A g \in Asks : ask'[g].pc # "clear"
        PROVE  \A c \in Cookies : sessions[c] # Nil =>
                 sessions[c].early \/ sessions[c].pw = hash
    <3>1. \A g \in Asks : ask[g].pc # "clear"
      BY <2>2, <2>6
    <3> QED
      BY <2>2, <2>6, <3>1 DEF CurrentInv, SessionsCurrent, Holding
  <2>7. \A c \in Cookies : sessions'[c] = IF c = t THEN Opened(ask[h].pw, ask[h].early)
                                                   ELSE sessions[c]
    BY <2>1 DEF Types
  <2>8. SessionsCurrent'
    BY <2>2, <2>5, <2>6, <2>7 DEF SessionsCurrent, Holding
  <2> QED
    BY <2>4, <2>8 DEF CurrentInv
<1>8. ASSUME NEW h \in Asks, SessionClear(h) PROVE CurrentInv'
  <2>1. /\ hash' = hash /\ ask[h].pc = "clear"
        /\ \A c \in Cookies : sessions'[c] = Nil
        /\ \A g \in Asks \ {h} : ask'[g] = ask[g]
        /\ ask'[h].pc = "open" /\ ask'[h].early = ask[h].early /\ ask'[h].pw = ask[h].pw
    BY <1>0, <1>8 DEF SessionClear, Goto, Types, AskRec
  <2> QED
    BY <1>00, <2>1 DEF CurrentInv, NothingBefore, OpensCurrent, SessionsCurrent, Holding
<1>9. ASSUME NEW t \in Cookies, RequireAuth(t) \/ Logout(t) PROVE CurrentInv'
  <2>1. hash' = hash /\ split' = split /\ ask' = ask
    BY <1>9 DEF RequireAuth, Logout
  <2>2. sessions' = Looked(t) \/ sessions' = [sessions EXCEPT ![t] = Nil]
    BY <1>9 DEF RequireAuth, Logout
  <2>3. \A c \in Cookies : \/ sessions'[c] = Nil
                           \/ /\ sessions[c] # Nil
                              /\ sessions'[c].pw = sessions[c].pw
                              /\ sessions'[c].early = sessions[c].early
    BY <1>0, <1>3, <2>2 DEF Types
  <2> QED
    BY <1>00, <2>1, <2>3, KeptCurrent
<1>10. CASE Tick
  <2>1. hash' = hash /\ split' = split /\ ask' = ask
    BY <1>10 DEF Tick
  <2>2. \A c \in Cookies : \/ sessions'[c] = Nil
                           \/ /\ sessions[c] # Nil
                              /\ sessions'[c].pw = sessions[c].pw
                              /\ sessions'[c].early = sessions[c].early
    BY <1>0, <1>10 DEF Tick, Holding, SessionRec
  <2> QED
    BY <1>00, <2>1, <2>2, KeptCurrent
<1>11. CASE Restart
  BY <1>11 DEF Restart, NoAsk, CurrentInv, NothingBefore, OpensCurrent, SessionsCurrent, Holding
<1>12. CASE UNCHANGED admVars
  BY <1>12 DEF admVars, CurrentInv, NothingBefore, OpensCurrent, SessionsCurrent, Holding
<1> QED
  BY <1>1, <1>2, <1>4, <1>5, <1>6, <1>7, <1>8, <1>9, <1>10, <1>11, <1>12 DEF AdmNext

\* A session was opened with the password in force, for any number of requests
\* at once, unless the password was written while they were under way or a
\* save has failed (setup, change_password).
THEOREM SessionsStayCurrent == AdmSpec => []SessionsCurrent
<1>1. AdmInit => PasswordsAsked /\ CurrentInv
  BY DEF AdmInit, NoAsk, PasswordsAsked, CurrentInv, NothingBefore, OpensCurrent,
         SessionsCurrent, Holding
<1>2. CurrentInv => SessionsCurrent
  BY DEF CurrentInv
<1>3. Types /\ PasswordsAsked /\ CurrentInv /\ [AdmNext]_admVars
        => Types' /\ PasswordsAsked' /\ CurrentInv'
  BY AdmAssumption, NextTypes, NextPasswords, NextCurrent
<1> QED
  BY InitTypes, <1>1, <1>2, <1>3, PTL DEF AdmSpec

-----------------------------------------------------------------------------
\* The requests from an address that have got past the throttle and may yet be
\* counted as failures.
Under(a) == {h \in Asks : ask[h].from = a /\ ask[h].pc \in {"read", "wrong"}}

LockInv == \A a \in Addresses : Locked(a) => late[a] + Cardinality(Under(a)) < Cardinality(Asks)

\* Fewer requests are under way after a step that takes none past the throttle.
LEMMA UnderShrinks ==
  ASSUME IsFiniteSet(Asks), NEW S, NEW T \in SUBSET Asks, S \subseteq T
  PROVE  /\ Cardinality(S) \in Nat /\ Cardinality(T) \in Nat
         /\ Cardinality(S) <= Cardinality(T)
<1>1. IsFiniteSet(T)
  BY FS_Subset
<1>2. IsFiniteSet(S) /\ Cardinality(S) <= Cardinality(T)
  BY <1>1, FS_Subset
<1> QED
  BY <1>1, <1>2, FS_CardinalityType

\* A failure takes its own request off those under way.
LEMMA FailureCounts ==
  ASSUME IsFiniteSet(Asks), NEW T \in SUBSET Asks, NEW h \in T
  PROVE  /\ Cardinality(T) \in Nat /\ Cardinality(T \ {h}) = Cardinality(T) - 1
         /\ Cardinality(T) <= Cardinality(Asks) /\ Cardinality(Asks) \in Nat
<1>1. IsFiniteSet(T) /\ Cardinality(T) <= Cardinality(Asks)
  BY FS_Subset
<1> QED
  BY <1>1, FS_CardinalityType, FS_RemoveElement

\* A step that counts nothing, locks nothing and takes no request of a locked
\* address past the throttle.
LEMMA KeptLock ==
  ASSUME IsFiniteSet(Asks), Types, Types', LockInv, late' = late,
         \A a \in Addresses : Locked(a)' => Locked(a) /\ Under(a)' \subseteq Under(a)
  PROVE  LockInv'
<1> SUFFICES ASSUME NEW a \in Addresses, Locked(a)'
             PROVE  late[a] + Cardinality(Under(a)') < Cardinality(Asks)
  BY DEF LockInv
<1>1. Locked(a) /\ Under(a)' \subseteq Under(a) /\ Under(a) \in SUBSET Asks
  BY DEF Under
<1>2. /\ Cardinality(Under(a)') \in Nat /\ Cardinality(Under(a)) \in Nat
      /\ Cardinality(Under(a)') <= Cardinality(Under(a))
  BY <1>1, UnderShrinks
<1>3. late[a] \in Nat /\ Cardinality(Asks) \in Nat
  BY FS_CardinalityType DEF Types
<1>4. late[a] + Cardinality(Under(a)) < Cardinality(Asks)
  BY <1>1 DEF LockInv
<1> QED
  BY <1>2, <1>3, <1>4

\* A wrong password is counted once, and leaves those under way.
LEMMA WrongLock ==
  ASSUME IsFiniteSet(Asks), Types, LockInv, NEW h \in Asks, Wrong(h),
         ask[h].from \in Addresses
  PROVE  LockInv'
<1>1. /\ \A g \in Asks \ {h} : ask'[g] = ask[g]
      /\ ask'[h].pc = "idle" /\ ask[h].pc = "wrong"
  BY DEF Wrong, Ended, NoAsk, Types
<1> SUFFICES ASSUME NEW a \in Addresses, Locked(a)'
             PROVE  late'[a] + Cardinality(Under(a)') < Cardinality(Asks)
  BY DEF LockInv
<1>2. late[a] \in Nat /\ Cardinality(Asks) \in Nat
  BY FS_CardinalityType DEF Types
<1>3. CASE a # ask[h].from
  <2>1. late'[a] = late[a] /\ throttle'[a] = throttle[a] /\ Under(a)' = Under(a)
    BY <1>1, <1>3 DEF Wrong, LoginFail, Types, Under
  <2> QED
    BY <2>1 DEF LockInv, Locked
<1>4. CASE a = ask[h].from
  <2>1. Under(a) \in SUBSET Asks /\ h \in Under(a) /\ Under(a)' = Under(a) \ {h}
    BY <1>1, <1>4 DEF Under
  <2>2. /\ Cardinality(Under(a)) \in Nat
        /\ Cardinality(Under(a)') = Cardinality(Under(a)) - 1
        /\ Cardinality(Under(a)) <= Cardinality(Asks)
    BY <2>1, FailureCounts
  <2>3. late'[a] = IF Locked(a) THEN late[a] + 1 ELSE 0
    BY <1>4 DEF Wrong, Types
  <2>4. Locked(a) => late[a] + Cardinality(Under(a)) < Cardinality(Asks)
    BY DEF LockInv
  <2> QED
    BY <1>2, <2>2, <2>3, <2>4
<1> QED
  BY <1>3, <1>4

\* A right password unlocks the address it came from.
LEMMA RightLock ==
  ASSUME IsFiniteSet(Asks), Types, LockInv, NEW h \in Asks, Right(h)
  PROVE  LockInv'
<1>1. /\ \A g \in Asks \ {h} : ask'[g] = ask[g]
      /\ ask'[h].pc \in {"idle", "open"} /\ ask[h].pc = "right"
  BY DEF Right, Ended, Goto, NoAsk, Types, AskRec
<1> SUFFICES ASSUME NEW a \in Addresses, Locked(a)'
             PROVE  late'[a] + Cardinality(Under(a)') < Cardinality(Asks)
  BY DEF LockInv
<1>2. a # ask[h].from
  BY DEF Right, LoginOk, Locked, Clean, Types
<1>3. late'[a] = late[a] /\ throttle'[a] = throttle[a] /\ Under(a)' = Under(a)
  BY <1>1, <1>2 DEF Right, LoginOk, Types, Under
<1> QED
  BY <1>3 DEF LockInv, Locked

\* Where a request that has read its password comes from.
FromAddress == \A h \in Asks : ask[h].pc \in {"read", "wrong", "right"} => ask[h].from \in Addresses

\* Every step keeps where they come from.
LEMMA NextFrom ==
  ASSUME Types, FromAddress, [AdmNext]_admVars
  PROVE  FromAddress'
<1>0. \A g \in Asks : ask[g] \in AskRec
  BY DEF Types
<1>1. ASSUME NEW h \in Asks, NEW a \in Addresses, NEW pw \in Passwords,
             NEW o \in BOOLEAN, AskStart(h, a, pw, o) PROVE FromAddress'
  BY <1>1 DEF AskStart, NoAsk, Types, FromAddress
<1>2. ASSUME NEW h \in Asks, NEW pw, Write(h, pw) PROVE FromAddress'
  <2>1. PICK saved \in BOOLEAN :
          ask' = [g \in Asks |->
            IF g # h THEN [ask[g] EXCEPT !.early = ask[g] # NoAsk]
            ELSE IF saved THEN [ask[h] EXCEPT !.pc = IF @ = "setup" THEN "open" ELSE "clear"]
                          ELSE NoAsk]
    BY <1>2 DEF Write
  <2>2. ask'[h].pc \notin {"read", "wrong", "right"}
    BY <1>0, <2>1 DEF NoAsk, AskRec
  <2>3. \A g \in Asks \ {h} : ask'[g].pc = ask[g].pc /\ ask'[g].from = ask[g].from
    BY <1>0, <2>1 DEF AskRec
  <2> QED
    BY <2>2, <2>3 DEF FromAddress
<1>3. ASSUME NEW h \in Asks,
             \/ \E pw \in Passwords : SetupStart(h, pw)
             \/ \E t \in Cookies, new \in Passwords : ChangeStart(h, t, new)
             \/ SetupRefused(h) \/ Wrong(h) \/ Right(h)
             \/ IssueSession(h) \/ SessionClear(h)
      PROVE  FromAddress'
  <2> DEFINE Off == /\ \A g \in Asks \ {h} : ask'[g] = ask[g]
                    /\ ask'[h].pc \notin {"read", "wrong", "right"}
  <2>1. ASSUME NEW pw \in Passwords, SetupStart(h, pw) PROVE Off
    BY <2>1 DEF SetupStart, NoAsk, Types
  <2>2. ASSUME NEW t \in Cookies, NEW new \in Passwords, ChangeStart(h, t, new) PROVE Off
    BY <2>2 DEF ChangeStart, NoAsk, Types
  <2>3. ASSUME SetupRefused(h) \/ Wrong(h) \/ IssueSession(h) PROVE Off
    BY <2>3 DEF SetupRefused, Wrong, IssueSession, Ended, NoAsk, Types
  <2>4. ASSUME Right(h) \/ SessionClear(h) PROVE Off
    BY <1>0, <2>4 DEF Right, SessionClear, Ended, Goto, NoAsk, Types, AskRec
  <2>5. Off
    BY <1>3, <2>1, <2>2, <2>3, <2>4
  <2> QED
    BY <2>5 DEF FromAddress
<1>4. ASSUME NEW h \in Asks, Verify(h) PROVE FromAddress'
  <2>1. /\ \A g \in Asks \ {h} : ask'[g] = ask[g]
        /\ ask[h].pc = "read"
        /\ ask'[h].pc = "idle" \/ ask'[h].from = ask[h].from
    BY <1>0, <1>4 DEF Verify, Ended, Goto, NoAsk, Types, AskRec
  <2> QED
    BY <2>1 DEF FromAddress
<1>5. CASE UNCHANGED ask
  BY <1>5 DEF FromAddress
<1>6. CASE Restart
  BY <1>6 DEF Restart, NoAsk, FromAddress
<1> QED
  BY <1>1, <1>2, <1>3, <1>4, <1>5, <1>6
     DEF AdmNext, Setup, Change, RequireAuth, Logout, Tick, admVars

\* Every step keeps the throttle's count below the requests at a time.
LEMMA NextLock ==
  ASSUME IsFiniteSet(Asks), Types, Types', FromAddress, LockInv, [AdmNext]_admVars
  PROVE  LockInv'
<1>0. \A g \in Asks : ask[g] \in AskRec
  BY DEF Types
<1>1. ASSUME NEW h \in Asks, NEW a \in Addresses, NEW pw \in Passwords,
             NEW o \in BOOLEAN, AskStart(h, a, pw, o) PROVE LockInv'
  <2>1. /\ late' = late /\ throttle' = throttle /\ ~Locked(a)
        /\ \A g \in Asks \ {h} : ask'[g] = ask[g]
        /\ ask'[h].from = a
    BY <1>1 DEF AskStart, NoAsk, Types
  <2>2. \A b \in Addresses \ {a} : Under(b)' \subseteq Under(b)
    BY <2>1 DEF Under
  <2>3. \A b \in Addresses : Locked(b)' => Locked(b) /\ Under(b)' \subseteq Under(b)
    BY <2>1, <2>2 DEF Locked
  <2> QED
    BY <2>1, <2>3, KeptLock
<1>2. ASSUME NEW h \in Asks, NEW pw, Write(h, pw), ask[h].pc \in {"setup", "change"}
      PROVE  LockInv'
  <2>1. PICK saved \in BOOLEAN :
          ask' = [g \in Asks |->
            IF g # h THEN [ask[g] EXCEPT !.early = ask[g] # NoAsk]
            ELSE IF saved THEN [ask[h] EXCEPT !.pc = IF @ = "setup" THEN "open" ELSE "clear"]
                          ELSE NoAsk]
    BY <1>2 DEF Write
  <2>2. ask'[h].pc \notin {"read", "wrong"}
    BY <1>0, <1>2, <2>1 DEF NoAsk, AskRec
  <2>3. \A g \in Asks \ {h} : ask'[g].pc = ask[g].pc /\ ask'[g].from = ask[g].from
    BY <1>0, <2>1 DEF AskRec
  <2>4. late' = late /\ throttle' = throttle
    BY <1>2 DEF Write
  <2>5. \A b \in Addresses : Locked(b)' => Locked(b) /\ Under(b)' \subseteq Under(b)
    BY <2>2, <2>3, <2>4 DEF Under, Locked
  <2> QED
    BY <2>4, <2>5, KeptLock
<1>3. ASSUME NEW h \in Asks,
             \/ \E pw \in Passwords : SetupStart(h, pw)
             \/ \E t \in Cookies, new \in Passwords : ChangeStart(h, t, new)
             \/ SetupRefused(h) \/ Verify(h) \/ IssueSession(h) \/ SessionClear(h)
      PROVE  LockInv'
  <2> DEFINE Off == /\ late' = late /\ throttle' = throttle
                    /\ \A g \in Asks \ {h} : ask'[g] = ask[g]
                    /\ \/ ask'[h].pc \notin {"read", "wrong"}
                       \/ ask[h].pc = "read" /\ ask'[h].from = ask[h].from
  <2>1. ASSUME NEW pw \in Passwords, SetupStart(h, pw) PROVE Off
    BY <2>1 DEF SetupStart, NoAsk, Types
  <2>2. ASSUME NEW t \in Cookies, NEW new \in Passwords, ChangeStart(h, t, new) PROVE Off
    BY <2>2 DEF ChangeStart, NoAsk, Types
  <2>3. ASSUME SetupRefused(h) \/ IssueSession(h) PROVE Off
    BY <2>3 DEF SetupRefused, IssueSession, Ended, NoAsk, Types
  <2>4. ASSUME Verify(h) \/ SessionClear(h) PROVE Off
    BY <1>0, <2>4 DEF Verify, SessionClear, Ended, Goto, NoAsk, Types, AskRec
  <2>5. Off
    BY <1>3, <2>1, <2>2, <2>3, <2>4
  <2>6. \A b \in Addresses : Locked(b)' => Locked(b) /\ Under(b)' \subseteq Under(b)
    BY <2>5 DEF Under, Locked
  <2> QED
    BY <2>5, <2>6, KeptLock
<1>4. ASSUME NEW h \in Asks, Wrong(h) PROVE LockInv'
  <2>1. ask[h].from \in Addresses
    BY <1>4 DEF FromAddress, Wrong
  <2> QED
    BY <1>4, <2>1, WrongLock
<1>5. ASSUME NEW h \in Asks, Right(h) PROVE LockInv'
  BY <1>5, RightLock
<1>6. ASSUME NEW t \in Cookies, RequireAuth(t) \/ Logout(t) PROVE LockInv'
  BY <1>6 DEF RequireAuth, Logout, LockInv, Locked, Under
<1>7. CASE Tick
  <2>1. late' = late /\ ask' = ask
    BY <1>7 DEF Tick
  <2>2. ASSUME NEW b \in Addresses, Locked(b)' PROVE Locked(b)
    <3>1. throttle'[b] = [throttle[b] EXCEPT !.left = IF @ > 0 THEN @ - 1 ELSE 0]
      BY <1>7 DEF Tick
    <3>2. throttle[b] = Count(throttle[b].fails, throttle[b].left)
      BY DEF Types
    <3>3. throttle'[b].left = IF throttle[b].left > 0 THEN throttle[b].left - 1 ELSE 0
      BY <3>1, <3>2 DEF Count
    <3> QED
      BY <2>2, <3>3 DEF Locked
  <2> QED
    BY <2>1, <2>2, KeptLock DEF Under
<1>8. CASE Restart
  BY <1>8 DEF Restart, LockInv, Locked, Clean
<1>9. CASE UNCHANGED admVars
  BY <1>9 DEF admVars, LockInv, Locked, Under
<1> QED
  BY <1>1, <1>2, <1>3, <1>4, <1>5, <1>6, <1>7, <1>8, <1>9 DEF AdmNext, Setup, Change

\* While an address is locked fewer failures are counted than requests run at a
\* time, for any number of them and any limits (login, login_fail).
THEOREM ThrottleHolds == AdmSpec => []LockHolds
<1>1. AdmInit => FromAddress /\ LockInv
  BY DEF AdmInit, NoAsk, Clean, FromAddress, LockInv, Locked
<1>2. Types /\ LockInv => LockHolds
  <2> SUFFICES ASSUME Types, LockInv, NEW a \in Addresses, Locked(a)
               PROVE  late[a] < Cardinality(Asks)
    BY DEF LockHolds
  <2>1. Cardinality(Under(a)) \in Nat /\ Cardinality(Asks) \in Nat /\ late[a] \in Nat
    BY AdmAssumption, UnderShrinks, FS_CardinalityType DEF Under, Types
  <2> QED
    BY <2>1 DEF LockInv
<1>3. Types /\ FromAddress /\ LockInv /\ [AdmNext]_admVars
        => Types' /\ FromAddress' /\ LockInv'
  BY AdmAssumption, NextTypes, NextFrom, NextLock
<1> QED
  BY InitTypes, <1>1, <1>2, <1>3, PTL DEF AdmSpec

-----------------------------------------------------------------------------
(* Types *)

\* What AdmTypeOK says of the passwords, of the throttle and of the sessions.
HashTypes == {hash, file} \subseteq Passwords \cup {Nil} /\ split \in BOOLEAN
ThrottleTypes == throttle \in [Addresses -> [fails : 0..MaxFails-1, left : 0..Lockout]]
SessionTypes == \A t \in Holding :
  sessions[t].pw \in Passwords /\ sessions[t].unused <= sessions[t].age

\* Only a setup, a change or a restart touches the password.
LEMMA NextHash ==
  ASSUME Types, PasswordsAsked, HashTypes, [AdmNext]_admVars
  PROVE  HashTypes'
<1>1. ASSUME NEW h \in Asks, Setup(h) \/ Change(h) PROVE HashTypes'
  <2>1. ask[h].pw \in Passwords
    BY <1>1 DEF Setup, Change, PasswordsAsked
  <2> QED
    BY <1>1, <2>1 DEF Setup, Change, Write, HashTypes
<1>2. CASE Restart
  BY <1>2 DEF Restart, HashTypes
<1>3. CASE UNCHANGED <<hash, file, split>>
  BY <1>3 DEF HashTypes
<1> QED
  BY <1>1, <1>2, <1>3
     DEF AdmNext, admVars, SetupStart, AskStart, ChangeStart, SetupRefused, Verify, Wrong,
         Right, IssueSession, SessionClear, RequireAuth, Logout, Tick

\* The failure that reaches the limit closes the address and starts from none.
LEMMA NextThrottle ==
  ASSUME ThrottleTypes, [AdmNext]_admVars
  PROVE  ThrottleTypes'
<1>1. MaxFails \in Nat \ {0} /\ Lockout \in Nat
  BY AdmAssumption
<1>2. Clean \in [fails : 0..MaxFails-1, left : 0..Lockout]
  BY <1>1 DEF Clean
<1>3. ASSUME NEW a, LoginFail(a) PROVE ThrottleTypes'
  <2>1. CASE a \in Addresses
    <3> DEFINE n == throttle[a].fails + 1
    <3>1. throttle[a] \in [fails : 0..MaxFails-1, left : 0..Lockout]
      BY <2>1 DEF ThrottleTypes
    <3>2. CASE n >= MaxFails
      <4>1. [fails |-> 0, left |-> Lockout] \in [fails : 0..MaxFails-1, left : 0..Lockout]
        BY <1>1
      <4>2. throttle' = [throttle EXCEPT ![a] = [fails |-> 0, left |-> Lockout]]
        BY <1>3, <3>2 DEF LoginFail
      <4> QED
        BY <4>1, <4>2 DEF ThrottleTypes
    <3>3. CASE ~(n >= MaxFails)
      <4>1. n \in 0..MaxFails-1
        BY <1>1, <3>1, <3>3
      <4>2. [throttle[a] EXCEPT !.fails = n] \in [fails : 0..MaxFails-1, left : 0..Lockout]
        BY <3>1, <4>1
      <4> QED
        BY <1>3, <3>3, <4>2 DEF LoginFail, ThrottleTypes
    <3> QED
      BY <3>2, <3>3
  <2>2. CASE a \notin Addresses
    BY <1>3, <2>2 DEF LoginFail, ThrottleTypes
  <2> QED
    BY <2>1, <2>2
<1>4. ASSUME NEW h \in Asks, Wrong(h) \/ Right(h) PROVE ThrottleTypes'
  BY <1>2, <1>3, <1>4 DEF Wrong, Right, LoginOk, ThrottleTypes
<1>5. CASE Tick
  <2>1. ASSUME NEW a \in Addresses
        PROVE  [throttle[a] EXCEPT !.left = IF @ > 0 THEN @ - 1 ELSE 0]
                 \in [fails : 0..MaxFails-1, left : 0..Lockout]
    <3>1. throttle[a].left \in 0..Lockout /\ throttle[a] \in [fails : 0..MaxFails-1, left : 0..Lockout]
      BY DEF ThrottleTypes
    <3>2. (IF throttle[a].left > 0 THEN throttle[a].left - 1 ELSE 0) \in 0..Lockout
      BY <1>1, <3>1
    <3> QED
      BY <3>1, <3>2
  <2> QED
    BY <1>5, <2>1 DEF Tick, ThrottleTypes
<1>6. CASE Restart
  BY <1>2, <1>6 DEF Restart, ThrottleTypes
<1>7. CASE UNCHANGED throttle
  BY <1>7 DEF ThrottleTypes
<1> QED
  BY <1>4, <1>5, <1>6, <1>7
     DEF AdmNext, admVars, SetupStart, AskStart, ChangeStart, Setup, Change, Write,
         SetupRefused, Verify, IssueSession, SessionClear, RequireAuth, Logout

\* A session opens with the request's password and is used no earlier than it
\* was opened; both clocks stop at their limits, the shorter one first.
LEMMA NextSessions ==
  ASSUME Types, PasswordsAsked, SessionTypes, [AdmNext]_admVars
  PROVE  SessionTypes'
<1>1. \A t \in Holding : sessions[t] \in SessionRec
  BY DEF Types, Holding
<1>2. ASSUME NEW t \in Cookies, sessions' = Looked(t) PROVE SessionTypes'
  <2> SUFFICES ASSUME NEW s \in Holding'
               PROVE  sessions'[s].pw \in Passwords /\ sessions'[s].unused <= sessions'[s].age
    BY DEF SessionTypes
  <2>1. s \in Holding /\ (sessions'[s] = sessions[s]
                           \/ sessions'[s] = [sessions[s] EXCEPT !.unused = 0])
    BY <1>2 DEF Holding, Looked, Types
  <2> QED
    BY <1>1, <2>1 DEF SessionTypes, SessionRec
<1>3. ASSUME NEW h \in Asks, IssueSession(h) PROVE SessionTypes'
  <2>1. PICK t \in Cookies \ Holding :
          sessions' = [sessions EXCEPT ![t] = Opened(ask[h].pw, ask[h].early)]
    BY <1>3 DEF IssueSession
  <2>2. ask[h].pw \in Passwords
    BY <1>3 DEF IssueSession, PasswordsAsked
  <2>3. sessions'[t].pw \in Passwords /\ sessions'[t].unused <= sessions'[t].age
    BY <2>1, <2>2 DEF Opened, Types
  <2>4. \A s \in Holding' \ {t} : s \in Holding /\ sessions'[s] = sessions[s]
    BY <2>1 DEF Holding, Types
  <2> QED
    BY <2>3, <2>4 DEF SessionTypes
<1>4. ASSUME NEW t \in Cookies, Logout(t) PROVE SessionTypes'
  <2>1. \A s \in Holding' : s \in Holding /\ sessions'[s] = sessions[s]
    BY <1>4 DEF Logout, Holding, Types
  <2> QED
    BY <2>1 DEF SessionTypes
<1>5. CASE Tick
  <2> SUFFICES ASSUME NEW s \in Holding'
               PROVE  sessions'[s].pw \in Passwords /\ sessions'[s].unused <= sessions'[s].age
    BY DEF SessionTypes
  <2>1. s \in Holding
    BY <1>5 DEF Tick, Holding
  <2>2. /\ sessions[s] \in SessionRec /\ sessions[s].pw \in Passwords
        /\ sessions[s].unused <= sessions[s].age
    BY <1>1, <2>1 DEF SessionTypes
  <2>3. sessions'[s] = [sessions[s] EXCEPT !.age = Older(@, Absolute),
                                           !.unused = Older(@, SessionIdle)]
    BY <1>5, <2>1 DEF Tick, Holding
  <2>4. /\ sessions'[s].pw = sessions[s].pw
        /\ sessions'[s].age = Older(sessions[s].age, Absolute)
        /\ sessions'[s].unused = Older(sessions[s].unused, SessionIdle)
    BY <2>2, <2>3 DEF SessionRec
  <2>5. sessions[s].age \in Nat /\ sessions[s].unused \in Nat
    BY <2>2 DEF SessionRec
  <2> QED
    BY <2>2, <2>4, <2>5, AdmAssumption DEF Older
<1>6. CASE sessions' = [t \in Cookies |-> Nil]
  BY <1>6 DEF SessionTypes, Holding
<1>7. CASE UNCHANGED sessions
  BY <1>7 DEF SessionTypes, Holding
<1> QED
  BY <1>2, <1>3, <1>4, <1>5, <1>6, <1>7
     DEF AdmNext, admVars, SetupStart, AskStart, ChangeStart, Setup, Change, Write,
         SetupRefused, Verify, Wrong, Right, SessionClear, RequireAuth, Restart

\* Types: the throttle never counts to its limit, and a session was never used
\* before it was opened (login_fail, session_new, session_valid).
THEOREM SessionsTyped == AdmSpec => []AdmTypeOK
<1>1. AdmInit => PasswordsAsked /\ HashTypes /\ ThrottleTypes /\ SessionTypes
  <2> SUFFICES ASSUME AdmInit
               PROVE  PasswordsAsked /\ HashTypes /\ ThrottleTypes /\ SessionTypes
    OBVIOUS
  <2>1. Clean \in [fails : 0..MaxFails-1, left : 0..Lockout]
    BY AdmAssumption DEF Clean
  <2>2. ThrottleTypes
    BY <2>1 DEF AdmInit, ThrottleTypes
  <2>3. PasswordsAsked /\ HashTypes /\ SessionTypes
    BY DEF AdmInit, NoAsk, PasswordsAsked, HashTypes, SessionTypes, Holding
  <2> QED
    BY <2>2, <2>3
<1>2. Types /\ HashTypes /\ ThrottleTypes /\ SessionTypes => AdmTypeOK
  <2>1. Types => \A h \in Asks : ask[h].pc \in PCs
    BY DEF Types, AskRec
  <2> QED
    BY <2>1 DEF HashTypes, ThrottleTypes, SessionTypes, AdmTypeOK, PCs
<1>3. Types /\ PasswordsAsked /\ HashTypes /\ ThrottleTypes /\ SessionTypes
        /\ [AdmNext]_admVars
      => (Types /\ PasswordsAsked /\ HashTypes /\ ThrottleTypes /\ SessionTypes)'
  BY NextTypes, NextPasswords, NextHash, NextThrottle, NextSessions
<1> QED
  BY InitTypes, <1>1, <1>2, <1>3, PTL DEF AdmSpec

-----------------------------------------------------------------------------
(* The locks of the handlers. *)

\* A thread stands at one of the scopes of its handler, with some of its locks.
Standing(t) ==
  at[t] # Asleep =>
    /\ at[t] \in [run : LockUsers, scope : Nat, has : Nat]
    /\ at[t].scope \in 1..Len(Scopes[at[t].run])
    /\ at[t].has \in 0..Len(Scope(t))

AllStand ==
  /\ at = [t \in Threads |-> at[t]]
  /\ \A t \in Threads : Standing(t)

\* The orders in which the scopes of a handler take their locks: put_config and
\* jukebox_mode have one of their own.
Orders(h) ==
  {<<"config:read", "sessions">>, <<"db", "jukebox">>, <<"db", "jukebox", "sessions">>,
   <<"jukebox">>, <<"sessions">>, <<"paths">>}
  \cup (CASE h = "put_config"   -> {<<"config", "paths", "db">>}
          [] h = "jukebox_mode" -> {<<"jukebox", "config">>}
          [] OTHER -> {})

\* Short sequences and what they become with others behind them.
LEMMA ShortSequences ==
  ASSUME NEW S, NEW x \in S, NEW y \in S, NEW z \in S, NEW q \in Seq(S)
  PROVE  /\ <<x>> \in Seq(S) /\ <<x, y>> \in Seq(S) /\ <<x, y, z>> \in Seq(S)
         /\ <<x>> \o q \in Seq(S) /\ Len(<<x>> \o q) > 0
         /\ <<x, y>> \o q \in Seq(S) /\ Len(<<x, y>> \o q) > 0
         /\ <<x, y, z>> \o q \in Seq(S) /\ Len(<<x, y, z>> \o q) > 0
OBVIOUS

\* Each handler has scopes, of its orders.
LEMMA ScopeOrders ==
  ASSUME NEW h \in LockUsers
  PROVE  Scopes[h] \in Seq(Orders(h)) /\ Len(Scopes[h]) > 0
<1>1. LockUsers = {"put_config", "jukebox_mode", "jukebox_next", "delete_share",
                   "disconnect", "status"}
  BY DEF LockUsers, Scopes
<1> DEFINE s   == <<"sessions">>
           ps  == <<"paths">>
           j   == <<"jukebox">>
           dj  == <<"db", "jukebox">>
           djs == <<"db", "jukebox", "sessions">>
           rs  == <<"config:read", "sessions">>
           pc  == <<"config", "paths", "db">>
           jm  == <<"jukebox", "config">>
<1>2. /\ {s, ps, j, dj, djs, rs} \subseteq Orders(h)
      /\ h = "put_config" => pc \in Orders(h)
      /\ h = "jukebox_mode" => jm \in Orders(h)
  BY DEF Orders
<1>3. <<s, djs>> \in Seq(Orders(h))
  BY <1>2, ShortSequences
<1>4. CASE h = "put_config"
  <2>1. Scopes[h] = <<pc, j>> \o <<s, djs>>
    BY <1>4 DEF Scopes, BroadcastJukebox
  <2> HIDE DEF s, ps, j, dj, djs, rs, pc, jm
  <2> QED
    BY <1>2, <1>3, <1>4, <2>1, ShortSequences
<1>5. CASE h = "jukebox_mode"
  <2>1. Scopes[h] = <<jm>> \o <<s, djs>>
    BY <1>5 DEF Scopes, BroadcastJukebox
  <2> HIDE DEF s, ps, j, dj, djs, rs, pc, jm
  <2> QED
    BY <1>2, <1>3, <1>5, <2>1, ShortSequences
<1>6. CASE h = "jukebox_next"
  <2>1. Scopes[h] = <<dj>> \o <<s, djs>>
    BY <1>6 DEF Scopes, BroadcastJukebox
  <2> HIDE DEF s, ps, j, dj, djs, rs, pc, jm
  <2> QED
    BY <1>2, <1>3, <1>6, <2>1, ShortSequences
<1>7. CASE h = "delete_share"
  <2>1. Scopes[h] = <<ps, dj>> \o <<s, djs>>
    BY <1>7 DEF Scopes, BroadcastJukebox
  <2> HIDE DEF s, ps, j, dj, djs, rs, pc, jm
  <2> QED
    BY <1>2, <1>3, <1>7, <2>1, ShortSequences
<1>8. CASE h = "disconnect"
  <2>1. Scopes[h] = <<s, s, dj>> \o <<s, djs>>
    BY <1>8 DEF Scopes, BroadcastJukebox
  <2> HIDE DEF s, ps, j, dj, djs, rs, pc, jm
  <2> QED
    BY <1>2, <1>3, <1>8, <2>1, ShortSequences
<1>9. CASE h = "status"
  <2>1. Scopes[h] = <<rs>>
    BY <1>9 DEF Scopes, BroadcastJukebox
  <2> HIDE DEF s, ps, j, dj, djs, rs, pc, jm
  <2> QED
    BY <1>2, <1>3, <1>9, <2>1, ShortSequences
<1> QED
  BY <1>1, <1>4, <1>5, <1>6, <1>7, <1>8, <1>9

\* Each of these orders is a sequence of locks.
LEMMA OrderLength ==
  ASSUME NEW h, NEW o \in Orders(h)
  PROVE  Len(o) \in Nat
<1>1. CASE h = "put_config" /\ o = <<"config", "paths", "db">>
  BY <1>1
<1>2. CASE h = "jukebox_mode" /\ o = <<"jukebox", "config">>
  BY <1>2
<1>3. CASE o \in {<<"config:read", "sessions">>, <<"db", "jukebox">>,
                  <<"db", "jukebox", "sessions">>,
                  <<"jukebox">>, <<"sessions">>, <<"paths">>}
  BY <1>3
<1> QED
  BY <1>1, <1>2, <1>3 DEF Orders

\* A thread stays within the scopes of its handler.
LEMMA NextStand ==
  ASSUME AllStand, [LockNext]_at
  PROVE  AllStand'
<1> DEFINE Stands(r) == r # Asleep =>
                          /\ r \in [run : LockUsers, scope : Nat, has : Nat]
                          /\ r.scope \in 1..Len(Scopes[r.run])
                          /\ r.has \in 0..Len(Scopes[r.run][r.scope])
<1>1. CASE UNCHANGED at
  BY <1>1 DEF AllStand, Standing, Scope
<1>2. ASSUME NEW t \in Threads, NEW r, at' = [at EXCEPT ![t] = r], Stands(r)
      PROVE  AllStand'
  <2>1. at' = [u \in Threads |-> IF u = t THEN r ELSE at[u]]
    BY <1>2 DEF AllStand
  <2>2. ASSUME NEW u \in Threads PROVE Standing(u)'
    <3>1. CASE u = t
      BY <1>2, <2>1, <3>1 DEF Standing, Scope
    <3>2. CASE u # t
      BY <2>1, <3>2 DEF AllStand, Standing, Scope
    <3> QED
      BY <3>1, <3>2
  <2> QED
    BY <2>1, <2>2 DEF AllStand
<1>3. ASSUME NEW t \in Threads, NEW h \in LockUsers, Start(t, h)
      PROVE  AllStand'
  <2>1. Len(Scopes[h]) \in Nat /\ Len(Scopes[h]) > 0
        /\ Scopes[h][1] \in Orders(h)
    BY ScopeOrders
  <2>2. Len(Scopes[h][1]) \in Nat
    BY <2>1 DEF Orders
  <2>3. Begun(h) \in [run : LockUsers, scope : Nat, has : Nat]
        /\ Begun(h).run = h /\ Begun(h).scope = 1 /\ Begun(h).has = 0
    BY DEF Begun
  <2>4. Begun(h).scope \in 1..Len(Scopes[Begun(h).run])
        /\ Begun(h).has \in 0..Len(Scopes[Begun(h).run][Begun(h).scope])
    BY <2>1, <2>2, <2>3
  <2>5. at' = [at EXCEPT ![t] = Begun(h)]
    BY <1>3 DEF Start
  <2>6. Stands(Begun(h))
    BY <2>3, <2>4
  <2> HIDE DEF Stands
  <2> QED
    BY <1>2, <2>5, <2>6
<1>4. ASSUME NEW t \in Threads, Acquire(t)
      PROVE  AllStand'
  <2> DEFINE r == [at[t] EXCEPT !.has = @ + 1]
  <2>1. at[t] # Asleep /\ at[t].has < Len(Scope(t)) /\ at' = [at EXCEPT ![t] = r]
    BY <1>4 DEF Acquire, Wanted
  <2>2. /\ at[t] \in [run : LockUsers, scope : Nat, has : Nat]
        /\ at[t].scope \in 1..Len(Scopes[at[t].run])
        /\ at[t].has \in 0..Len(Scope(t))
    BY <2>1 DEF AllStand, Standing
  <2>3. r \in [run : LockUsers, scope : Nat, has : Nat]
        /\ r.run = at[t].run /\ r.scope = at[t].scope /\ r.has = at[t].has + 1
    BY <2>2
  <2>4. Len(Scope(t)) \in Nat
    BY <2>2, ScopeOrders DEF Orders, Scope
  <2>5. r.has \in 0..Len(Scope(t)) /\ r.scope \in 1..Len(Scopes[r.run])
    BY <2>1, <2>2, <2>3, <2>4
  <2> HIDE DEF r
  <2>6. Stands(r)
    BY <2>3, <2>5 DEF Scope
  <2> HIDE DEF Stands
  <2> QED
    BY <1>2, <2>1, <2>6
<1>5. ASSUME NEW t \in Threads, Release(t)
      PROVE  AllStand'
  <2>1. /\ at[t] # Asleep
        /\ at[t] \in [run : LockUsers, scope : Nat, has : Nat]
        /\ at[t].scope \in 1..Len(Scopes[at[t].run])
    BY <1>5 DEF Release, AllStand, Standing
  <2>2. CASE at[t].scope < Len(Scopes[at[t].run])
    <3> DEFINE r == [run |-> at[t].run, scope |-> at[t].scope + 1, has |-> 0]
    <3>1. at' = [at EXCEPT ![t] = r]
      BY <1>5, <2>2 DEF Release, After
    <3>2. r \in [run : LockUsers, scope : Nat, has : Nat]
          /\ r.run = at[t].run /\ r.scope = at[t].scope + 1 /\ r.has = 0
      BY <2>1
    <3>3. Scopes[r.run] \in Seq(Orders(r.run)) /\ Len(Scopes[r.run]) \in Nat
      BY <3>2, ScopeOrders
    <3>4. r.scope \in 1..Len(Scopes[r.run])
      BY <2>1, <2>2, <3>2, <3>3
    <3>5. Scopes[r.run][r.scope] \in Orders(r.run)
      <4> HIDE DEF r
      <4> QED
        BY <3>3, <3>4
    <3>6. Len(Scopes[r.run][r.scope]) \in Nat
      BY <3>5, OrderLength
    <3>7. r.has \in 0..Len(Scopes[r.run][r.scope])
      BY <3>2, <3>6
    <3> HIDE DEF r
    <3>8. Stands(r)
      BY <3>2, <3>4, <3>7
    <3> HIDE DEF Stands
    <3> QED
      BY <1>2, <3>1, <3>8
  <2>3. CASE ~(at[t].scope < Len(Scopes[at[t].run]))
    <3>1. at' = [at EXCEPT ![t] = Asleep]
      BY <1>5, <2>3 DEF Release, After
    <3>2. Stands(Asleep)
      OBVIOUS
    <3> HIDE DEF Stands
    <3> QED
      BY <1>2, <3>1, <3>2
  <2> QED
    BY <2>2, <2>3
<1> QED
  BY <1>1, <1>3, <1>4, <1>5 DEF LockNext

\* Who holds a lock and wants another is in one of six places.
AtConfig(t)  == at[t].run = "put_config" /\ Held(t) = {"config"} /\ Wanted(t) = {"paths"}
AtPaths(t)   == at[t].run = "put_config" /\ Held(t) = {"config", "paths"}
                  /\ Wanted(t) = {"db"}
AtMode(t)    == at[t].run = "jukebox_mode" /\ Held(t) = {"jukebox"}
                  /\ Wanted(t) = {"config"}
AtDb(t)      == Held(t) = {"db"} /\ Wanted(t) = {"jukebox"}
AtJukebox(t) == Held(t) = {"db", "jukebox"} /\ Wanted(t) = {"sessions"}
AtStatus(t)  == Held(t) = {"config:read"} /\ Wanted(t) = {"sessions"}

LEMMA Places ==
  ASSUME NEW t \in Threads, Standing(t), Held(t) # {}, Wanted(t) # {}
  PROVE  \/ AtConfig(t) \/ AtPaths(t) \/ AtMode(t)
         \/ AtDb(t) \/ AtJukebox(t) \/ AtStatus(t)
<1> DEFINE k == at[t].has
<1>1. /\ at[t] # Asleep /\ at[t].run \in LockUsers
      /\ at[t].scope \in 1..Len(Scopes[at[t].run])
      /\ k \in Nat /\ k < Len(Scope(t))
      /\ Held(t) = {Scope(t)[i] : i \in 1..k} /\ Wanted(t) = {Scope(t)[k + 1]}
  BY DEF Standing, Held, Wanted
<1>2. Scope(t) \in Orders(at[t].run)
  BY <1>1, ScopeOrders DEF Scope
<1>3. k > 0
  BY <1>1
<1>4. ASSUME NEW a, NEW b, Scope(t) = <<a, b>>
      PROVE  Held(t) = {a} /\ Wanted(t) = {b}
  <2>1. k = 1
    BY <1>1, <1>3, <1>4
  <2> QED
    BY <1>1, <1>4, <2>1
<1>5. ASSUME NEW a, NEW b, NEW c, Scope(t) = <<a, b, c>>
      PROVE  \/ Held(t) = {a} /\ Wanted(t) = {b}
             \/ Held(t) = {a, b} /\ Wanted(t) = {c}
  <2>1. k = 1 \/ k = 2
    BY <1>1, <1>3, <1>5
  <2>2. CASE k = 1
    BY <1>1, <1>5, <2>2
  <2>3. CASE k = 2
    <3>1. {Scope(t)[i] : i \in 1..2} = {a, b}
      BY <1>5
    <3> QED
      BY <1>1, <1>5, <2>3, <3>1
  <2> QED
    BY <2>1, <2>2, <2>3
<1>6. ASSUME NEW a, Scope(t) = <<a>>
      PROVE  FALSE
  BY <1>1, <1>3, <1>6
<1>7. \/ Scope(t) = <<"config:read", "sessions">>
      \/ Scope(t) = <<"db", "jukebox">>
      \/ Scope(t) = <<"db", "jukebox", "sessions">>
      \/ Scope(t) = <<"jukebox">> \/ Scope(t) = <<"sessions">> \/ Scope(t) = <<"paths">>
      \/ at[t].run = "put_config" /\ Scope(t) = <<"config", "paths", "db">>
      \/ at[t].run = "jukebox_mode" /\ Scope(t) = <<"jukebox", "config">>
  BY <1>2 DEF Orders
<1> HIDE DEF k
<1> QED
  BY <1>4, <1>5, <1>6, <1>7
     DEF AtConfig, AtPaths, AtMode, AtDb, AtJukebox, AtStatus

\* The threads of a circle hold and want, so they are in these places; whoever
\* wants the connections waits for nobody in it, and from each other place the
\* next lock in the circle leads to the next place.
LEMMA CircleCloses ==
  ASSUME AllStand, NEW W \in SUBSET Threads, W # {},
         \A t \in W : \E u \in W : WaitsFor(t, u)
  PROVE  \E a, b, c \in W : AtMode(a) /\ (AtConfig(b) \/ AtPaths(b)) /\ AtDb(c)
<1> DEFINE In(t) == \/ AtConfig(t) \/ AtPaths(t) \/ AtMode(t)
                    \/ AtDb(t) \/ AtJukebox(t) \/ AtStatus(t)
<1>1. ASSUME NEW t \in W
      PROVE  \E u \in W : WaitsFor(t, u) /\ In(u)
  <2>1. PICK u \in W : WaitsFor(t, u)
    OBVIOUS
  <2>2. Held(u) # {} /\ Wanted(u) # {}
    BY <2>1 DEF WaitsFor
  <2> QED
    BY <2>1, <2>2, Places DEF AllStand
<1>2. ASSUME NEW t \in W, NEW l, Wanted(t) = {l}
      PROVE  \E u \in W : In(u) /\ \E m \in Held(u) : Conflict(l, m)
  BY <1>1, <1>2 DEF WaitsFor
<1>3. ASSUME NEW t \in W PROVE Wanted(t) # {"sessions"}
  <2> SUFFICES ASSUME Wanted(t) = {"sessions"} PROVE FALSE
    OBVIOUS
  <2>1. PICK u \in W : In(u) /\ \E m \in Held(u) : Conflict("sessions", m)
    BY <1>2
  <2> QED
    BY <2>1 DEF AtConfig, AtPaths, AtMode, AtDb, AtJukebox, AtStatus, Conflict
<1> HIDE DEF In
<1>4. ASSUME NEW t \in W, In(t) PROVE AtConfig(t) \/ AtPaths(t) \/ AtMode(t) \/ AtDb(t)
  BY <1>3, <1>4 DEF In, AtJukebox, AtStatus
<1>5. ASSUME NEW t \in W, AtConfig(t) PROVE \E u \in W : AtPaths(u)
  <2>1. PICK u \in W : In(u) /\ \E m \in Held(u) : Conflict("paths", m)
    BY <1>2, <1>5 DEF AtConfig
  <2>2. AtConfig(u) \/ AtPaths(u) \/ AtMode(u) \/ AtDb(u)
    BY <1>4, <2>1
  <2> QED
    BY <2>1, <2>2 DEF AtConfig, AtPaths, AtMode, AtDb, Conflict
<1>6. ASSUME NEW t \in W, AtPaths(t) PROVE \E u \in W : AtDb(u)
  <2>1. PICK u \in W : In(u) /\ \E m \in Held(u) : Conflict("db", m)
    BY <1>2, <1>6 DEF AtPaths
  <2>2. AtConfig(u) \/ AtPaths(u) \/ AtMode(u) \/ AtDb(u)
    BY <1>4, <2>1
  <2> QED
    BY <2>1, <2>2 DEF AtConfig, AtPaths, AtMode, AtDb, Conflict
<1>7. ASSUME NEW t \in W, AtDb(t) PROVE \E u \in W : AtMode(u)
  <2>1. PICK u \in W : In(u) /\ \E m \in Held(u) : Conflict("jukebox", m)
    BY <1>2, <1>7 DEF AtDb
  <2>2. AtConfig(u) \/ AtPaths(u) \/ AtMode(u) \/ AtDb(u)
    BY <1>4, <2>1
  <2> QED
    BY <2>1, <2>2 DEF AtConfig, AtPaths, AtMode, AtDb, Conflict
<1>8. ASSUME NEW t \in W, AtMode(t) PROVE \E u \in W : AtConfig(u) \/ AtPaths(u)
  <2>1. PICK u \in W : In(u) /\ \E m \in Held(u) : Conflict("config", m)
    BY <1>2, <1>8 DEF AtMode
  <2>2. AtConfig(u) \/ AtPaths(u) \/ AtMode(u) \/ AtDb(u)
    BY <1>4, <2>1
  <2> QED
    BY <2>1, <2>2 DEF AtConfig, AtPaths, AtMode, AtDb, Conflict
<1>9. \E t \in W : AtConfig(t) \/ AtPaths(t) \/ AtMode(t) \/ AtDb(t)
  BY <1>1, <1>4
<1> QED
  BY <1>5, <1>6, <1>7, <1>8, <1>9

\* A circle of waiting handlers always takes jukebox_mode, put_config and a third
\* one between db and jukebox, however many threads there are (state.rs).
THEOREM OnlyOneCircle == LockSpec => []OneCircle
<1>1. LockInit => AllStand
  BY DEF LockInit, AllStand, Standing
<1>2. AllStand /\ [LockNext]_at => AllStand'
  BY NextStand
<1>3. AllStand => OneCircle
  <2> HAVE AllStand
  <2> USE DEF OneCircle
  <2> TAKE W \in (SUBSET Threads) \ {{}}
  <2> HAVE \A t \in W : \E u \in W : WaitsFor(t, u)
  <2>1. W \in SUBSET Threads /\ W # {}
    OBVIOUS
  <2>2. \E a, b, c \in W : AtMode(a) /\ (AtConfig(b) \/ AtPaths(b)) /\ AtDb(c)
    BY <2>1, CircleCloses
  <2>3. PICK a \in W, b \in W, c \in W :
            AtMode(a) /\ (AtConfig(b) \/ AtPaths(b)) /\ AtDb(c)
    BY <2>2
  <2>4. "config" \in Held(b) /\ "db" \in Held(c)
    BY <2>3 DEF AtConfig, AtPaths, AtDb
  <2> WITNESS a \in W, b \in W, c \in W
  <2> QED
    BY <2>3, <2>4 DEF AtMode, AtConfig, AtPaths, AtDb
<1> QED
  BY <1>1, <1>2, <1>3, PTL DEF LockSpec

=============================================================================
