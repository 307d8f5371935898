------------------------------- MODULE Lobby -------------------------------
(***************************************************************************)
(* The lobby: the server's registry of websocket sessions and peers        *)
(* (crates/server/src/ws.rs, the /ws handlers of data_api.rs, the two      *)
(* broadcasts of state.rs) and the desktop client's websocket loop (ws.rs) *)
(* over connections that break without either side being told.             *)
(*                                                                         *)
(* conns    the open sessions: whose, its mode, server_only, verified, and *)
(*          whether a password was refused since its last hello            *)
(* registry the machines that seed: pairs of a title and a machine         *)
(* task[h]  where handler h is between two lock scopes: the session h, or  *)
(*          a REST handler of the panel                                    *)
(* held[c]  the roster that the handler of session c has read and not sent *)
(* inq      the messages on their way to the server, per connection        *)
(* outq     those on their way to the client                               *)
(* up[c]    whether connection c still carries anything                    *)
(* cl[m]    machine m: its loop, how far it has got with its greeting, its *)
(*          settings, what it has announced on this connection, and what   *)
(*          it shows                                                       *)
(*                                                                         *)
(* Of a snapshot of the jukebox or of the roster the model keeps whether   *)
(* it is current: any later change makes every snapshot, on its way or on  *)
(* a screen, stale; one still in a handler's hands it makes overtaken. Of  *)
(* a password, too, it keeps whether it is the server's current one. A     *)
(* client overwrites what it shows with each message, so of the messages   *)
(* to a client only the last of each kind is kept. A client id is the      *)
(* machine that has it. Names, throughput, pings, the roster's order, and  *)
(* its line for a session before its hello, which is broadcast to nobody,  *)
(* are left out; a download's questions for peers read PeersFor and change *)
(* nothing. Unannounce is never sent by the client.                        *)
(***************************************************************************)
EXTENDS Integers, Sequences, FiniteSets, SequencesExt

CONSTANTS
  Machines,  \* the desktop clients
  Titles,    \* titles, in a version, that may be seeded
  MaxConns,  \* bound on the connections at a time
  MaxActs,   \* bound on what users, downloads and the jukebox do
  None

ASSUME LobbyAssumption ==
  /\ MaxConns \in Nat /\ MaxActs \in Nat /\ IsFiniteSet(Titles)
  /\ None \notin Machines /\ None \notin {"current", "stale", "overtaken"}

VARIABLES conns, registry, task, held, inq, outq, up, cl, acts

lobbyVars  == <<conns, registry, task, held, inq, outq, up, cl, acts>>
serverVars == <<conns, registry, task, held>>

ConnIds  == 1..MaxConns
Admin    == 0
Handlers == ConnIds \cup {Admin}
Modes    == {"client", "playback"}
Anon     == None                      \* the client id of a session before Hello
Seen     == {None, "current", "stale", "overtaken"}

Open == DOMAIN conns
Idle == [pc |-> "idle", to |-> {}]
NoMsgs == [jukebox |-> None, roster |-> None, probe |-> FALSE]

\* One of the bounded number of things that happen in the lobby.
Acts == acts < MaxActs /\ acts' = acts + 1

Goes(h, pc) == task' = [task EXCEPT ![h] = [@ EXCEPT !.pc = pc]]
Done(h)   == task' = [task EXCEPT ![h] = Idle]

Outdated(x) == IF x = None THEN None ELSE "stale"
JukeboxChanges ==
  /\ outq' = [c \in ConnIds |-> [outq[c] EXCEPT !.jukebox = Outdated(@)]]
  /\ cl' = [m \in Machines |-> [cl[m] EXCEPT !.jukebox = Outdated(@)]]
RosterChanges ==
  /\ outq' = [c \in ConnIds |-> [outq[c] EXCEPT !.roster = Outdated(@)]]
  /\ cl' = [m \in Machines |-> [cl[m] EXCEPT !.roster = Outdated(@)]]
  /\ held' = [c \in ConnIds |-> IF held[c] = None THEN None ELSE "overtaken"]

\* What is sent is current; on a broken connection it is lost.
Send(to, k) == outq' = [c \in ConnIds |-> IF c \in to /\ up[c]
                          THEN [outq[c] EXCEPT ![k] = "current"] ELSE outq[c]]
BroadcastRoster == Send(Open, "roster")     \* one lock scope

-----------------------------------------------------------------------------
(* SessionRegistry *)

NewConn == [id |-> Anon, mode |-> "client", server_only |-> FALSE,
            verified |-> FALSE, refused |-> FALSE]

\* What a session announces before its hello is listed under the empty id. No
\* session has it: until its hello each has an id of its own.
Peers == Machines \cup {Anon}
IsServerOnly(p) == \E c \in Open : conns[c].id = p /\ p # Anon /\ conns[c].server_only
PeersFor(t, m)  == {p \in Peers : <<t, p>> \in registry /\ p # m /\ ~IsServerOnly(p)}
PlaybackCount(cs) == Cardinality({c \in DOMAIN cs : cs[c].mode = "playback"})

\* remove: the machine's entries go with its last session.
StillPresentNever(c) == FALSE
StillPresent(c) == \E o \in Open \ {c} : conns[o].id = conns[c].id
Without(c)      == [o \in Open \ {c} |-> conns[o]]
PeersLeft(c)    == IF conns[c].id = Anon \/ StillPresent(c) THEN registry
                   ELSE {p \in registry : p[2] # conns[c].id}

-----------------------------------------------------------------------------
(* handle_client_msg, for the message at the head of a session's queue *)

Took(c, k) == /\ c \in Open /\ task[c] = Idle /\ inq[c] # <<>> /\ Head(inq[c]).k = k
              /\ inq' = [inq EXCEPT ![c] = Tail(@)]

\* Hello takes the registry's lock three times and the jukebox's once.
Hello(c) ==
  /\ Took(c, "hello")
  /\ LET msg == Head(inq[c])
     IN conns' = [conns EXCEPT ![c] = [@ EXCEPT !.id = msg.id, !.mode = msg.mode,
                                                !.verified = FALSE,
                                                !.refused = FALSE]]
  /\ RosterChanges
  /\ Goes(c, "roster")
  /\ UNCHANGED <<registry, up, acts>>

HelloRoster(c) ==
  /\ task[c].pc = "roster"
  /\ BroadcastRoster /\ Goes(c, "push")
  /\ UNCHANGED <<conns, registry, held, inq, up, cl, acts>>

\* probe_candidates, which are seeds other than the machine itself, among them
\* machines this model leaves out; then send_jukebox_to.
HelloPush(c) ==
  /\ task[c].pc = "push"
  /\ \E others \in BOOLEAN :
       LET some == others \/ \E t \in Titles : PeersFor(t, conns[c].id) # {}
           msgs == [outq[c] EXCEPT !.probe = @ \/ some, !.jukebox = "current"]
       IN /\ IF others THEN Acts ELSE UNCHANGED acts
          /\ outq' = IF up[c] THEN [outq EXCEPT ![c] = msgs] ELSE outq
  /\ Done(c)
  /\ UNCHANGED <<conns, registry, held, inq, up, cl>>

\* announce_peer, refused to a session in playback mode, which no session is
\* before its hello.
Announce(c) ==
  /\ Took(c, "announce")
  /\ registry' = IF conns[c].mode = "playback" THEN registry
                 ELSE registry \cup {<<Head(inq[c]).t, conns[c].id>>}
  /\ UNCHANGED <<conns, task, held, outq, up, cl, acts>>

\* update_activity, then the roster.
Activity(c) ==
  /\ Took(c, "activity")
  /\ conns' = [conns EXCEPT ![c].server_only = Head(inq[c]).server_only]
  /\ RosterChanges
  /\ Goes(c, "activity")
  /\ UNCHANGED <<registry, up, acts>>

ActivityRoster(c) ==
  /\ task[c].pc = "activity"
  /\ BroadcastRoster /\ Done(c)
  /\ UNCHANGED <<conns, registry, held, inq, up, cl, acts>>

\* Resync: the jukebox, sent under its lock ...
Resync(c) ==
  /\ Took(c, "resync")
  /\ Send({c}, "jukebox") /\ Goes(c, "read")
  /\ UNCHANGED <<conns, registry, held, up, cl, acts>>

\* ... and the roster, read under the registry's lock and sent without it.
ResyncRead(c) ==
  /\ task[c].pc = "read"
  /\ held' = [held EXCEPT ![c] = "current"] /\ Goes(c, "reply")
  /\ UNCHANGED <<conns, registry, inq, outq, up, cl, acts>>

ResyncReply(c) ==
  /\ task[c].pc = "reply"
  /\ outq' = IF up[c] THEN [outq EXCEPT ![c].roster = held[c]] ELSE outq
  /\ held' = [held EXCEPT ![c] = None] /\ Done(c)
  /\ UNCHANGED <<conns, registry, inq, up, cl, acts>>

\* Verified if the address is not locked out and the password is still the
\* server's. AdminSessions has the throttle; here any attempt may meet it.
PlaybackAuth(c) ==
  /\ Took(c, "auth")
  /\ \E locked \in BOOLEAN :
       conns' = IF Head(inq[c]).pw = "current" /\ ~locked
                THEN [conns EXCEPT ![c].verified = TRUE]
                ELSE [conns EXCEPT ![c].refused = TRUE]
  /\ UNCHANGED <<registry, task, held, outq, up, cl, acts>>

\* The admin changes the password: sessions keep what they have been granted.
PasswordChanges ==
  /\ Acts
  /\ inq' = [c \in ConnIds |-> [i \in DOMAIN inq[c] |->
               IF inq[c][i].k = "auth" THEN [inq[c][i] EXCEPT !.pw = "stale"]
                                       ELSE inq[c][i]]]
  /\ cl' = [m \in Machines |-> [cl[m] EXCEPT !.pw = Outdated(@)]]
  /\ UNCHANGED <<serverVars, outq, up>>

\* JukeboxAdd and JukeboxVote change the jukebox, Next and Ended do if the
\* session is verified; broadcast_jukebox follows.
JukeboxMsg(c) ==
  /\ \E k \in {"vote", "next"} : Took(c, k)
  /\ IF Head(inq[c]).k = "vote" \/ conns[c].verified
     THEN JukeboxChanges /\ Goes(c, "snap")
     ELSE UNCHANGED <<outq, cl, task>>
  /\ UNCHANGED <<conns, registry, held, up, acts>>

\* A REST handler of the panel changes the jukebox.
AdminChange ==
  /\ task[Admin] = Idle /\ Acts
  /\ JukeboxChanges /\ Goes(Admin, "snap")
  /\ UNCHANGED <<conns, registry, held, inq, up>>

\* broadcast_jukebox: the sessions first, under their own lock ...
Snap(h) ==
  /\ task[h].pc = "snap"
  /\ task' = [task EXCEPT ![h] = [pc |-> "send", to |-> Open]]
  /\ UNCHANGED <<conns, registry, held, inq, outq, up, cl, acts>>

\* ... then, with jukebox and registry locked, a snapshot to each of them that
\* is still there.
SendOut(h) ==
  /\ task[h].pc = "send"
  /\ Send(task[h].to \cap Open, "jukebox") /\ Done(h)
  /\ UNCHANGED <<conns, registry, held, inq, up, cl, acts>>

-----------------------------------------------------------------------------
(* ws_session: the end of a session *)

\* The read loop ends: closed, broken, or silent for 90 seconds.
Leave(c) ==
  /\ c \in Open /\ task[c] = Idle /\ ~up[c] /\ inq[c] = <<>>
  /\ conns' = Without(c) /\ registry' = PeersLeft(c)
  /\ RosterChanges
  /\ LET last == conns[c].mode = "playback" /\ PlaybackCount(Without(c)) = 0
     IN Goes(c, IF last THEN "lastgone" ELSE "left")
  /\ UNCHANGED <<inq, up, acts>>

LeaveRoster(c) ==
  /\ task[c].pc \in {"left", "lastgone"}
  /\ BroadcastRoster
  /\ Goes(c, IF task[c].pc = "left" THEN "idle" ELSE "requeue")
  /\ UNCHANGED <<conns, registry, held, inq, up, cl, acts>>

RequeueQuietly(c) ==
  /\ task[c].pc = "requeue"
  /\ \/ Acts /\ JukeboxChanges
     \/ UNCHANGED <<outq, cl, acts>>
  /\ Done(c)
  /\ UNCHANGED <<conns, registry, held, inq, up>>

\* requeue_now_playing, which says whether anything was playing.
Requeue(c) ==
  /\ task[c].pc = "requeue"
  /\ \/ Acts /\ JukeboxChanges /\ Goes(c, "snap")
     \/ Done(c) /\ UNCHANGED <<outq, cl, acts>>
  /\ UNCHANGED <<conns, registry, held, inq, up>>

-----------------------------------------------------------------------------
(* The client's loop *)

\* Connection numbers nobody refers to any more: the server never uses one
\* again, and at most MaxConns are in use at a time here.
Unmade == {c \in ConnIds : /\ c \notin Open /\ task[c] = Idle
                           /\ \A m \in Machines : cl[m].conn # c
                           /\ \A h \in Handlers : c \notin task[h].to}

\* announce_seeds: nothing if sharing back is off or the chunk server is not up.
Seeds(m) == IF cl[m].share /\ cl[m].mode = "client" /\ cl[m].seeder = "up"
            THEN cl[m].seeds ELSE {}

\* What run_once queues before it reads anything: Hello; then the playback
\* password if it has been entered, Resync, and the titles it can seed. These are
\* one part: what else the machine sends between them comes to the same as if it
\* had been sent before or after.
OnlyIf(b, msg) == IF b THEN <<msg>> ELSE <<>>
HelloMsg(m)  == [k |-> "hello", id |-> m, mode |-> cl[m].mode]
AuthMsgs(m)  == OnlyIf(cl[m].mode = "playback" /\ cl[m].pw # None,
                       [k |-> "auth", pw |-> cl[m].pw])
SeedMsgs(m)  == LET ts == SetToSeq(Seeds(m))
                IN [i \in DOMAIN ts |-> [k |-> "announce", t |-> ts[i]]]
GreetingAuthFirst(m, i) ==   \* mutant: the password before the hello
  IF i = 1 THEN AuthMsgs(m) \o <<HelloMsg(m)>>
           ELSE <<[k |-> "resync"]>> \o SeedMsgs(m)
Greeting(m, i) ==
  IF i = 1 THEN <<HelloMsg(m)>>
           ELSE AuthMsgs(m) \o <<[k |-> "resync"]>> \o SeedMsgs(m)

\* The connection is there: what the machine sends goes to it from now on, that
\* is before its own greeting.
Connect(m) ==
  /\ ~cl[m].on
  /\ \E c \in Unmade :
       /\ \A o \in Unmade : c <= o
       /\ cl' = [cl EXCEPT ![m] = [@ EXCEPT !.on = TRUE, !.conn = c, !.say = 1,
                                            !.told = {}]]
       /\ conns' = [o \in Open \cup {c} |-> IF o = c THEN NewConn ELSE conns[o]]
       /\ up' = [up EXCEPT ![c] = TRUE]
  /\ UNCHANGED <<registry, task, held, inq, outq, acts>>

\* send_ws and the loop's own sender: dropped when the connection is gone.
SendWs(m, msgs) == inq' = IF cl[m].on /\ up[cl[m].conn]
                          THEN [inq EXCEPT ![cl[m].conn] = @ \o msgs] ELSE inq

\* The next part of the greeting is queued.
Say(m) ==
  /\ cl[m].say # 0
  /\ SendWs(m, Greeting(m, cl[m].say))
  /\ cl' = [cl EXCEPT ![m] = [@ EXCEPT
       !.say = (cl[m].say + 1) % 3,
       !.told = IF cl[m].say = 2 THEN cl[m].told \cup Seeds(m) ELSE cl[m].told]]
  /\ UNCHANGED <<serverVars, outq, up, acts>>

\* The link is lost; some of what was on its way to the server arrives.
Cut(c) ==
  /\ up[c]
  /\ up' = [up EXCEPT ![c] = FALSE]
  /\ \E n \in 0..Len(inq[c]) : inq' = [inq EXCEPT ![c] = SubSeq(@, 1, n)]
  /\ outq' = [outq EXCEPT ![c] = NoMsgs]
  /\ UNCHANGED <<serverVars, cl, acts>>

\* The client finds out: a failed send, an error, or 60 silent seconds.
Lost(m) ==
  /\ cl[m].on /\ cl[m].say = 0 /\ ~up[cl[m].conn]
  /\ cl' = [cl EXCEPT ![m] = [@ EXCEPT !.on = FALSE, !.conn = 0]]
  /\ UNCHANGED <<serverVars, inq, outq, up, acts>>

\* handle, for everything the server has sent by now.
Receive(m) ==
  LET msgs == outq[cl[m].conn]
      Newer(new, old) == IF new = None THEN old ELSE new
  IN /\ cl[m].on /\ cl[m].say = 0 /\ msgs # NoMsgs
     /\ outq' = [outq EXCEPT ![cl[m].conn] = NoMsgs]
     /\ cl' = [cl EXCEPT ![m] = [@ EXCEPT
          !.jukebox = Newer(msgs.jukebox, cl[m].jukebox),
          !.roster = Newer(msgs.roster, cl[m].roster),
          !.probing = cl[m].probing \/ msgs.probe]]
     /\ UNCHANGED <<serverVars, inq, up, acts>>

\* The reachability test ends, on whatever connection there is by then.
Probed(m, ok) ==
  /\ cl[m].probing
  /\ cl' = [cl EXCEPT ![m].probing = FALSE]
  /\ SendWs(m, <<[k |-> "activity", server_only |-> ~ok]>>)
  /\ UNCHANGED <<serverVars, outq, up, acts>>

\* jukebox_add and jukebox_vote; jukebox_next and jukebox_ended in playback mode.
UserJukebox(m, k) ==
  /\ Acts /\ (k = "next" => cl[m].mode = "playback")
  /\ SendWs(m, <<[k |-> k]>>)
  /\ UNCHANGED <<serverVars, outq, up, cl>>

\* playback_authenticate: checked, then cached, and sent. It may have been changed
\* since it was checked.
EnterPassword(m) ==
  /\ Acts /\ cl[m].mode = "playback"
  /\ \E pw \in {"current", "stale"} :
       /\ cl' = [cl EXCEPT ![m].pw = pw]
       /\ SendWs(m, <<[k |-> "auth", pw |-> pw]>>)
  /\ UNCHANGED <<serverVars, outq, up>>

\* chunk_server::start, once when the program starts: no server in playback mode
\* or with sharing back off. A port that does not bind is one that never gets here.
StartSeeder(m) ==
  /\ cl[m].seeder = "starting" /\ cl[m].mode = "client"
  /\ cl' = [cl EXCEPT ![m].seeder = IF cl[m].share THEN "up" ELSE "down"]
  /\ UNCHANGED <<serverVars, inq, outq, up, acts>>

\* The first chunks of a title are there: the next greeting announces it.
FirstChunks(m, t) ==
  /\ Acts /\ cl[m].mode = "client" /\ t \notin cl[m].seeds
  /\ cl' = [cl EXCEPT ![m].seeds = @ \cup {t}]
  /\ UNCHANGED <<serverVars, inq, outq, up>>

\* A download completes: the title is announced, if sharing back is on, the
\* chunk server is up and there is anyone to hear it. Before the hello it counts
\* for nobody.
Finished(m, t) ==
  /\ Acts /\ cl[m].mode = "client" /\ t \in cl[m].seeds
  /\ LET tells == cl[m].share /\ cl[m].seeder = "up"
     IN /\ SendWs(m, OnlyIf(tells, [k |-> "announce", t |-> t]))
        /\ cl' = IF tells /\ cl[m].say # 1
                 THEN [cl EXCEPT ![m].told = @ \cup {t}] ELSE cl
  /\ UNCHANGED <<serverVars, outq, up>>

\* update_settings with a new name says Hello again; only the client's window
\* has that page.
Rename(m) ==
  /\ Acts /\ cl[m].mode = "client" /\ SendWs(m, <<HelloMsg(m)>>)
  /\ UNCHANGED <<serverVars, outq, up, cl>>

\* update_settings with sharing back on or off: nobody is told.
ShareBack(m) ==
  /\ Acts /\ cl[m].mode = "client"
  /\ cl' = [cl EXCEPT ![m].share = ~@]
  /\ UNCHANGED <<serverVars, inq, outq, up>>

\* set_mode, lockdown_enter and lockdown_exit restart the program in the other
\* mode: its link is gone and the password is forgotten.
SwitchMode(m) ==
  /\ Acts /\ ~cl[m].on
  /\ \E md \in Modes \ {cl[m].mode} :
       cl' = [cl EXCEPT ![m] = [@ EXCEPT !.mode = md, !.pw = None, !.probing = FALSE,
                                         !.seeder = "starting",
                                         !.jukebox = None, !.roster = None]]
  /\ UNCHANGED <<serverVars, inq, outq, up>>

-----------------------------------------------------------------------------
\* A machine starts in one mode, with what it has downloaded before.
Fresh == [on : {FALSE}, conn : {0}, say : {0}, told : {{}}, mode : Modes,
          pw : {None}, share : BOOLEAN, seeder : {"starting"}, seeds : SUBSET Titles,
          probing : {FALSE}, jukebox : {None}, roster : {None}]

LobbyInit ==
  /\ conns = <<>> /\ registry = {} /\ acts = 0
  /\ task = [h \in Handlers |-> Idle] /\ held = [c \in ConnIds |-> None]
  /\ inq = [c \in ConnIds |-> <<>>] /\ outq = [c \in ConnIds |-> NoMsgs]
  /\ up = [c \in ConnIds |-> FALSE]
  /\ cl \in [Machines -> Fresh]

Session(c) == \/ Hello(c) \/ HelloRoster(c) \/ HelloPush(c)
              \/ Announce(c) \/ Activity(c) \/ ActivityRoster(c)
              \/ Resync(c) \/ ResyncRead(c) \/ ResyncReply(c)
              \/ PlaybackAuth(c) \/ JukeboxMsg(c)
              \/ Leave(c) \/ LeaveRoster(c) \/ Requeue(c)
Broadcast(h) == Snap(h) \/ SendOut(h)
Machine(m) == \/ Connect(m) \/ Say(m) \/ Lost(m) \/ Receive(m) \/ StartSeeder(m)
              \/ \E ok \in BOOLEAN : Probed(m, ok)
User(m)    == \/ \E k \in {"vote", "next"} : UserJukebox(m, k)
              \/ EnterPassword(m) \/ Rename(m) \/ ShareBack(m) \/ SwitchMode(m)
              \/ \E t \in Titles : FirstChunks(m, t) \/ Finished(m, t)

LobbyNext ==
  \/ \E c \in ConnIds : Session(c) \/ Cut(c)
  \/ \E h \in Handlers : Broadcast(h)
  \/ \E m \in Machines : Machine(m) \/ User(m)
  \/ AdminChange \/ PasswordChanges

LobbySpec == LobbyInit /\ [][LobbyNext]_lobbyVars

-----------------------------------------------------------------------------
Msgs == [k : {"hello"}, id : Machines, mode : Modes] \cup [k : {"announce"}, t : Titles]
        \cup [k : {"activity"}, server_only : BOOLEAN]
        \cup [k : {"auth"}, pw : {"current", "stale"}]
        \cup [k : {"resync", "vote", "next"}]

LobbyTypeOK ==
  /\ Open \subseteq ConnIds
  /\ conns \in [Open -> [id : Peers, mode : Modes, server_only : BOOLEAN,
                         verified : BOOLEAN, refused : BOOLEAN]]
  /\ registry \subseteq Titles \X Peers
  /\ held \in [ConnIds -> {None, "current", "overtaken"}]
  /\ acts \in 0..MaxActs /\ up \in [ConnIds -> BOOLEAN]
  /\ \A c \in ConnIds : inq[c] \in Seq(Msgs)
  /\ outq \in [ConnIds -> [jukebox : Seen, roster : Seen, probe : BOOLEAN]]
  /\ \A m \in Machines : cl[m].on => cl[m].conn \in ConnIds

\* Nothing is under way: no handler is running, no machine is greeting, no link
\* that is up carries anything.
Quiet == /\ \A h \in Handlers : task[h] = Idle
         /\ \A m \in Machines : cl[m].say = 0
         /\ \A c \in ConnIds : up[c] => inq[c] = <<>> /\ outq[c] = NoMsgs
Linked(m) == cl[m].on /\ up[cl[m].conn]

\* After any reconnects, overlapping sessions of one machine and changes made
\* while it was away, a machine that is connected shows the jukebox as it is, and
\* the roster too, unless the roster it asked for was read before the last change
\* and sent after the broadcast of it (run_once's Hello and Resync,
\* broadcast_jukebox, broadcast_roster).
ShownIsCurrent ==
  Quiet => \A m \in Machines : Linked(m) =>
             cl[m].jukebox = "current" /\ cl[m].roster \in {"current", "overtaken"}

\* The registry lists what the connected machines announced on the connections
\* they have, and only machines with an open session, but for what was announced
\* before a hello: the late end of a machine's old session takes nothing from
\* its new one (remove, announce_seeds).
SeedsListed ==
  /\ Quiet => \A m \in Machines : Linked(m) =>
                \A t \in cl[m].told : <<t, m>> \in registry
  /\ \A p \in registry : p[2] = Anon \/ \E c \in Open : conns[c].id = p[2]

\* A machine whose operator has entered the playback password may advance the
\* queue on whatever connection it has by now, unless the server refused the
\* password on it: the address was locked out, or the password has been changed
\* (update_hello, PlaybackAuth).
AuthorityKept ==
  Quiet => \A m \in Machines : Linked(m) /\ cl[m].pw # None =>
             conns[cl[m].conn].verified \/ conns[cl[m].conn].refused
=============================================================================
