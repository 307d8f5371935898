------------------------------- MODULE Seeder -------------------------------
(***************************************************************************)
(* The upload cap of a seeding client: serve_chunk of the chunk server     *)
(* (apps/desktop/src-tauri/src/chunk_server.rs) with one token bucket      *)
(* (crates/core/src/p2p.rs) for all the requests it serves at once.        *)
(*                                                                         *)
(* tokens  what the bucket held when it was last refilled                  *)
(* idle    time since then; the bucket is refilled only when it is asked   *)
(* get[r]  the request r: looking the chunk up, waiting, reading           *)
(* slack   history: over all the intervals that end now, the least that    *)
(*         was left of Burst plus the rate for the time of the interval    *)
(*                                                                         *)
(* Bytes are counted in whole units, time in the unit in which the rate is *)
(* given. A chunk that is not held, or cannot be read, ends the request;   *)
(* requests come without end. That a client hangs up is left out.          *)
(***************************************************************************)
EXTENDS Integers

CONSTANTS
  Getters,   \* requests at a time
  Rate,      \* the upload cap, per unit of time
  Chunk,     \* DEFAULT_CHUNK_SIZE
  Lengths,   \* sizes of the chunks asked for
  MaxSleep   \* the longest sleep between two tries (5 s)

ASSUME CapAssumption ==
  Rate \in Nat /\ Chunk \in Nat /\ Lengths \subseteq Nat /\ MaxSleep \in Nat

VARIABLES tokens, idle, get, slack

seedVars == <<tokens, idle, get, slack>>

Least(a, b) == IF a < b THEN a ELSE b
NoGet == [pc |-> "idle", len |-> 0, sleep |-> 0]

-----------------------------------------------------------------------------
(* TokenBucket: the burst holds a default chunk even under a lower cap *)

BurstOfRate == Rate   \* mutant: one second's worth
Burst == IF Rate > Chunk THEN Rate ELSE Chunk

\* Time after which nothing more is gained; idle need not count beyond it.
Full == IF Rate = 0 THEN 0 ELSE (Burst + Rate - 1) \div Rate

RefilledUncapped == tokens + Rate * idle   \* mutant: saved up without limit
Refilled == Least(tokens + Rate * idle, Burst)

Impossible(n) == Rate = 0 \/ n > Burst
TimeUntil(n)  == (n - Refilled + Rate - 1) \div Rate

-----------------------------------------------------------------------------
(* serve_chunk *)

Ask(r, n) ==
  /\ get[r] = NoGet
  /\ get' = [get EXCEPT ![r] = [pc |-> "look", len |-> n, sleep |-> 0]]
  /\ UNCHANGED <<tokens, idle, slack>>

\* The manifest or the bitmap does not have it: not found.
NotHeld(r) ==
  /\ get[r].pc = "look"
  /\ get' = [get EXCEPT ![r] = NoGet]
  /\ UNCHANGED <<tokens, idle, slack>>

Held(r) ==
  /\ get[r].pc = "look"
  /\ get' = [get EXCEPT ![r].pc = "wait"]
  /\ UNCHANGED <<tokens, idle, slack>>

\* A try, under the lock: the bucket is refilled first, whatever comes of it.
TryTake(r) ==
  /\ get[r].pc = "wait" /\ get[r].sleep = 0
  /\ idle' = 0
  /\ \/ /\ Refilled >= get[r].len
        /\ tokens' = Refilled - get[r].len
        /\ slack' = slack - get[r].len
        /\ get' = [get EXCEPT ![r].pc = "read"]
     \/ /\ Refilled < get[r].len
        /\ tokens' = Refilled
        /\ get' = IF Impossible(get[r].len)
                   THEN [get EXCEPT ![r] = NoGet]   \* 503
                   ELSE [get EXCEPT ![r].sleep = Least(TimeUntil(get[r].len), MaxSleep)]
        /\ UNCHANGED slack

\* Sent, or unreadable.
Read(r) ==
  /\ get[r].pc = "read"
  /\ get' = [get EXCEPT ![r] = NoGet]
  /\ UNCHANGED <<tokens, idle, slack>>

\* Time passes for the bucket and the sleepers.
Pass ==
  /\ idle' = Least(idle + 1, Full)
  /\ slack' = Least(slack + Rate, Burst)
  /\ get' = [r \in Getters |->
       IF get[r].sleep > 0 THEN [get[r] EXCEPT !.sleep = @ - 1] ELSE get[r]]
  /\ UNCHANGED tokens

SeedInit == /\ tokens = Burst /\ idle = 0 /\ slack = Burst
            /\ get = [r \in Getters |-> NoGet]

Serve(r) == NotHeld(r) \/ Held(r) \/ TryTake(r) \/ Read(r)
SeedNext == \/ \E r \in Getters : Serve(r) \/ \E n \in Lengths : Ask(r, n)
            \/ Pass

\* Time passes and a handler that can go on does.
SeedFairness == WF_seedVars(Pass) /\ \A r \in Getters : WF_seedVars(Serve(r))
SeedSpec == SeedInit /\ [][SeedNext]_seedVars /\ SeedFairness

-----------------------------------------------------------------------------
SeedTypeOK ==
  /\ tokens \in 0..Burst /\ idle \in 0..Full
  /\ get \in [Getters -> [pc : {"idle", "look", "wait", "read"},
                          len : Lengths \cup {0}, sleep : 0..MaxSleep]]

\* Whatever requests come at once, what goes out in any interval is at most the
\* rate for its time and one burst (serve_chunk, "Rate cap (F4.11)").
CapKept == slack >= 0

\* Tokens go to other requests again and again, without end.
OthersTake(r) ==
  []<><<\E q \in Getters \ {r} : get[q].pc = "wait" /\ get'[q].pc = "read">>_seedVars

\* A request sleeps and tries for ever only while tokens go to others without
\* end: there is no queue for them. When the others leave off it is answered,
\* and one for a chunk of the default size is served, the cap below that size
\* included (TokenBucket, "would livelock the seeder", "callers must not spin").
Answered ==
  \A r \in Getters :
    \/ OthersTake(r)
    \/ /\ get[r] # NoGet ~> get[r] = NoGet
       /\ Rate > 0 /\ get[r].pc = "wait" /\ get[r].len <= Chunk ~> get[r].pc = "read"
=============================================================================
