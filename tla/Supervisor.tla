----------------------------- MODULE Supervisor -----------------------------
(***************************************************************************)
(* The server's configuration and the listeners that follow it: put_config *)
(* and jukebox_mode (crates/server/src/admin_api.rs), Config::save         *)
(* (config.rs), the rebind channel and the supervisor's loop (lib.rs), and *)
(* the restart of the process.                                             *)
(*                                                                         *)
(* cfg      the configuration in memory, behind its lock                   *)
(* file     config.toml                                                    *)
(* live     what runs by it: the share path in use, the jukebox's mode     *)
(* req[h]   the request h of the panel, between its lock scopes            *)
(* channel  the rebind channel                                             *)
(* sup      the supervisor's loop: what it does, for which service         *)
(* bound    the address each service listens on, or Down                   *)
(* held     addresses another process holds (an earlier server's sockets)  *)
(* unsaved  history: a save has failed since the process started           *)
(* crossed  history: a mode was set while a request had yet to apply its   *)
(*          own, since the process started                                 *)
(*                                                                         *)
(* One path stands for the three, one string for the settings that nothing *)
(* else follows.                                                           *)
(***************************************************************************)
EXTENDS Integers, Sequences, FiniteSets, SequencesExt, Subsequence

CONSTANTS
  Services,  \* the listeners, the panel's among them
  Panel,     \* the one that serves the requests
  Addrs,     \* bind addresses that parse
  Unusable,  \* those of them no bind succeeds on
  Paths, Modes,
  Requests,  \* requests of the panel at a time
  Tries,     \* attempts at an address in use (5)
  MaxChanges,\* bound on the changes asked for
  Down, None

ASSUME SupAssumption ==
  /\ Services # {} /\ IsFiniteSet(Services) /\ Panel \in Services
  /\ Tries \in Nat /\ MaxChanges \in Nat
  /\ None \notin Services \cup Addrs \cup Modes /\ Down \notin Addrs

VARIABLES cfg, file, live, req, channel, sup, bound, held, unsaved, crossed, changes

supVars == <<cfg, file, live, req, channel, sup, bound, held, unsaved, crossed, changes>>
loopVars == <<channel, sup, bound>>

Config  == [bind : [Services -> Addrs], path : Paths, mode : Modes]
NoReq   == [pc |-> "idle", mode |-> None, rebinds |-> <<>>]
Waiting == [pc |-> "wait", kind |-> None, addr |-> None, tries |-> 0]
InOrder == SetToSeq(Services)

Running(c) == [path |-> c.path, mode |-> c.mode]
Another    == changes < MaxChanges /\ changes' = changes + 1
\* The panel answers while it listens; what it has begun it finishes.
Answers    == bound[Panel] # Down

-----------------------------------------------------------------------------
(* put_config: everything the patch says under the configuration's lock *)

Moved(new)   == Picked(InOrder, {i \in DOMAIN InOrder :
                                   new.bind[InOrder[i]] # cfg.bind[InOrder[i]]})
NewMode(new) == IF new.mode # cfg.mode THEN new.mode ELSE None
Pending      == \E h \in Requests : req[h].mode # None

\* The settings page sends the whole object back: any of its fields may differ.
\* If the save fails the handler returns: memory keeps what the file lacks, and
\* neither the paths nor the listeners hear of it.
PutConfig(h, new) ==
  /\ req[h] = NoReq /\ Answers /\ Another
  /\ cfg' = new
  /\ \E saved \in BOOLEAN :
       IF saved
       THEN /\ file' = new
            /\ live' = [live EXCEPT !.path = new.path]
            /\ req' = [req EXCEPT ![h] = [pc |-> "mode", mode |-> NewMode(new),
                                          rebinds |-> Moved(new)]]
            /\ UNCHANGED unsaved
       ELSE unsaved' = TRUE /\ UNCHANGED <<file, live, req>>
  /\ crossed' = (crossed \/ (Pending /\ new.mode # cfg.mode))
  /\ UNCHANGED <<loopVars, held>>

\* After that lock: the jukebox's mode, then one message for each service.
ApplyMode(h) ==
  /\ req[h].pc = "mode"
  /\ live' = IF req[h].mode = None THEN live ELSE [live EXCEPT !.mode = req[h].mode]
  /\ req' = [req EXCEPT ![h].pc = "send", ![h].mode = None]
  /\ UNCHANGED <<cfg, file, loopVars, held, unsaved, crossed, changes>>

SendUnlessBusy(h) ==   \* mutant: a rebind under way takes care of it
  /\ req[h].pc = "send"
  /\ channel' = IF sup = Waiting THEN channel \o req[h].rebinds ELSE channel
  /\ req' = [req EXCEPT ![h] = NoReq]
  /\ UNCHANGED <<cfg, file, live, sup, bound, held, unsaved, crossed, changes>>
SendRebinds(h) ==
  /\ req[h].pc = "send"
  /\ channel' = channel \o req[h].rebinds
  /\ req' = [req EXCEPT ![h] = NoReq]
  /\ UNCHANGED <<cfg, file, live, sup, bound, held, unsaved, crossed, changes>>

\* jukebox_mode holds both locks over the change and the save.
JukeboxMode(md) ==
  /\ Answers /\ Another
  /\ live' = [live EXCEPT !.mode = md]
  /\ cfg' = [cfg EXCEPT !.mode = md]
  /\ \E saved \in BOOLEAN : /\ file' = IF saved THEN cfg' ELSE file
                            /\ unsaved' = (unsaved \/ ~saved)
  /\ crossed' = (crossed \/ Pending)
  /\ UNCHANGED <<req, loopVars, held>>

\* restart_service rebinds at the address the service has.
RestartService(k) ==
  /\ Answers /\ Another
  /\ channel' = Append(channel, k)
  /\ UNCHANGED <<cfg, file, live, req, sup, bound, held, unsaved, crossed>>

-----------------------------------------------------------------------------
(* The supervisor's loop *)

\* A message: the old listener stops listening and its requests drain.
Take ==
  /\ sup = Waiting /\ channel # <<>>
  /\ channel' = Tail(channel)
  /\ bound' = [bound EXCEPT ![Head(channel)] = Down]
  /\ sup' = [Waiting EXCEPT !.pc = "drain", !.kind = Head(channel)]
  /\ UNCHANGED <<cfg, file, live, req, held, unsaved, crossed, changes>>

\* spawn_listener reads the address once, and only now. The drain may take for
\* ever: the loop awaits the old listener without a time limit, and a stalled
\* upload or a paused stream keeps it. That of the panel waits for the requests
\* it serves.
ReadBind ==
  /\ sup.pc = "drain"
  /\ sup.kind = Panel => \A h \in Requests : req[h] = NoReq
  /\ sup' = [sup EXCEPT !.pc = "bind", !.addr = cfg.bind[sup.kind]]
  /\ UNCHANGED <<cfg, file, live, req, channel, bound, held, unsaved, crossed, changes>>

InUse(a) == a \in held \/ \E k \in Services : bound[k] = a

Listen ==
  /\ sup.pc = "bind" /\ sup.addr \notin Unusable /\ ~InUse(sup.addr)
  /\ bound' = [bound EXCEPT ![sup.kind] = sup.addr]
  /\ sup' = Waiting
  /\ UNCHANGED <<cfg, file, live, req, channel, held, unsaved, crossed, changes>>

\* In use: again in 200 ms, Tries times. Anything else: at once "rebind failed".
TryForever ==   \* mutant: no limit
  /\ sup.pc = "bind" /\ sup.addr \notin Unusable /\ InUse(sup.addr)
  /\ UNCHANGED supVars
TryAgain ==
  /\ sup.pc = "bind" /\ sup.addr \notin Unusable /\ InUse(sup.addr)
  /\ sup' = IF sup.tries < Tries THEN [sup EXCEPT !.tries = @ + 1] ELSE Waiting
  /\ UNCHANGED <<cfg, file, live, req, channel, bound, held, unsaved, crossed, changes>>

BindFails ==
  /\ sup.pc = "bind" /\ sup.addr \in Unusable
  /\ sup' = Waiting
  /\ UNCHANGED <<cfg, file, live, req, channel, bound, held, unsaved, crossed, changes>>

\* The other process lets go.
Release ==
  /\ held # {}
  /\ held' = {}
  /\ UNCHANGED <<cfg, file, live, req, loopVars, unsaved, crossed, changes>>

\* restart_server, or the machine: the file is what is left. The first binds
\* are made in order before the loop.
Restart ==
  /\ Another
  /\ cfg' = file /\ live' = Running(file) /\ unsaved' = FALSE /\ crossed' = FALSE
  /\ req' = [h \in Requests |-> NoReq]
  /\ channel' = InOrder /\ sup' = Waiting
  /\ bound' = [k \in Services |-> Down]
  /\ held' \in SUBSET ({bound[k] : k \in Services} \ {Down})
  /\ UNCHANGED file

-----------------------------------------------------------------------------
Distinct(c) == \A k, l \in Services : c.bind[k] = c.bind[l] => k = l

SupInit ==
  /\ cfg \in {c \in Config : Distinct(c) /\ \A k \in Services : c.bind[k] \notin Unusable}
  /\ file = cfg /\ live = Running(cfg)
  /\ req = [h \in Requests |-> NoReq]
  /\ channel = InOrder /\ sup = Waiting
  /\ bound = [k \in Services |-> Down]
  /\ held = {} /\ unsaved = FALSE /\ crossed = FALSE /\ changes = 0

Rebind  == Take \/ Listen \/ TryAgain \/ BindFails
SupLoop == ReadBind \/ Rebind
SupNext == \/ \E h \in Requests : \/ \E new \in Config : PutConfig(h, new)
                               \/ ApplyMode(h) \/ SendRebinds(h)
        \/ \E md \in Modes : JukeboxMode(md)
        \/ \E k \in Services : RestartService(k)
        \/ SupLoop \/ Release \/ Restart

\* The handlers run to their end, and the loop runs on where it does not wait
\* for connections. Nothing need be asked, and nothing released.
SupFairness == /\ WF_supVars(Rebind)
            /\ \A h \in Requests : WF_supVars(ApplyMode(h) \/ SendRebinds(h))
SupSpec == SupInit /\ [][SupNext]_supVars /\ SupFairness

-----------------------------------------------------------------------------
SupTypeOK ==
  /\ cfg \in Config /\ file \in Config
  /\ live \in [path : Paths, mode : Modes]
  /\ req \in [Requests -> [pc : {"idle", "mode", "send"}, mode : Modes \cup {None},
                           rebinds : Seq(Services)]]
  /\ channel \in Seq(Services)
  /\ sup \in [pc : {"wait", "drain", "bind"}, kind : Services \cup {None},
              addr : Addrs \cup {None}, tries : 0..Tries]
  /\ bound \in [Services -> Addrs \cup {Down}] /\ held \subseteq Addrs
  /\ unsaved \in BOOLEAN /\ crossed \in BOOLEAN /\ changes \in 0..MaxChanges
  /\ \A k, l \in Services : bound[k] = bound[l] /\ bound[k] # Down => k = l

Settled == sup = Waiting /\ channel = <<>> /\ \A h \in Requests : req[h] = NoReq

\* When every request has ended and the channel is empty, each service listens
\* where the configuration says or not at all, and the share path in use is the
\* configured one, in whatever order the requests and their messages came; so
\* is the jukebox's mode, unless two requests that set it crossed. All this if
\* no save has failed (put_config, jukebox_mode, the rebind loop).
FollowsConfig ==
  Settled /\ ~unsaved =>
    /\ \A k \in Services : bound[k] \in {cfg.bind[k], Down}
    /\ live.path = cfg.path /\ file = cfg
    /\ live.mode = cfg.mode \/ crossed

\* No drain goes on for ever.
Drains == []<>(sup.pc # "drain")

\* If every drain ends, a service asked to move comes up at its address, unless
\* that is not free, or a save fails and leaves an address no message was sent
\* for: no request for another service and no failed bind before it keeps the
\* loop from it. One drain that does not end keeps every later message waiting
\* (Supervisor::start, spawn_listener).
Asked(k)  == (\E i \in DOMAIN channel : channel[i] = k) \/ sup.kind = k
Clear(k)  == /\ cfg.bind[k] \notin Unusable \cup held
             /\ \A l \in Services \ {k} : cfg.bind[k] \notin {bound[l], cfg.bind[l]}
ComesUp ==
  Drains => \A k \in Services :
    (Asked(k) /\ Clear(k)) ~> (bound[k] = cfg.bind[k] \/ ~Clear(k) \/ unsaved)
=============================================================================
