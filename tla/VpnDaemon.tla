---------------------------- MODULE VpnDaemon ----------------------------
(***************************************************************************)
(* The life of the connections of warrenvpnd: StartConnection arms the      *)
(* connect-phase lockdown, spawns OpenVPN and attaches to it; the relay     *)
(* task reads its management lines, confines DNS and locks the kill-switch  *)
(* onto the tunnel at every CONNECTED; the end of the management stream     *)
(* decides whether the allowance is kept.  Disconnect, RecoverNetwork,      *)
(* logind and crashes interleave with all of it.  The kill-switch manager   *)
(* is the atomic one of KillSwitchTable, which KillSwitch implements.       *)
(*                                                                         *)
(* Connection ids are random and never reused: an id whose connection has   *)
(* ended and that left no allowance behind stands for the next fresh id.    *)
(***************************************************************************)
EXTENDS KillSwitchTable, Naturals, Sequences

CONSTANTS
  Options,      \* values of the `killswitch` option users pass
  Helpers,      \* whether the config gets the trusted up/down helper
  NftOutcomes,  \* outcomes of an nft transaction
  DnsOutcomes,  \* outcomes of apply_dns_from_env
  MaxLines,     \* bound on unread management lines of one connection
  NoEnvFile,    \* no helper: `env_file` is None
  Unwritten     \* the helper has not run yet

ASSUME DaemonAssumption ==
  /\ Options \subseteq BOOLEAN
  /\ Helpers \subseteq BOOLEAN
  /\ NftOutcomes \subseteq BOOLEAN
  /\ DnsOutcomes \subseteq {"applied", "nothing", "failed"}
  /\ MaxLines \in Nat \ {0}
  /\ NoEnvFile \notin Endpoint
  /\ Unwritten \notin Endpoint

VARIABLES
  stage,       \* where the task that owns the connection is
  killswitch,  \* the option of this connection
  armed,       \* `killswitch_armed` of the relay
  expected,    \* `expected_disconnect`
  snapshot,    \* the value of it the relay read when the stream ended
  seen,        \* the up-helper environment the relay's CONNECTED handler has read
  proc,        \* the OpenVPN process
  sigterm,     \* a SIGTERM reached it through its management socket
  lines,       \* its management lines the relay has not read
  env,         \* contents of the environment file
  peer,        \* the server and device the tunnel really uses, or Unwritten
  doomed       \* connections the logind handler has still to shut down

relayVars == <<stage, killswitch, armed, expected, snapshot, seen>>
procVars == <<proc, sigterm, lines, env, peer>>
vars == <<active, kernel, relayVars, procVars, doomed>>

Stage == {"idle",        \* no such connection
          "spawning",    \* launch_and_attach, armed, before the spawn
          "attaching",   \* waiting for the management socket
          "attached",    \* object registered, relay task starting
          "relaying",    \* relay waits for a line
          "confining",   \* relay handles CONNECTED: DNS
          "locking",     \* relay handles CONNECTED: kill-switch
          "closing",     \* stream ended, kill-switch decision pending
          "reaping"}     \* waiting for the child, object still registered

Registered == {"attached", "relaying", "confining", "locking", "closing", "reaping"}
Alive == {"held", "connecting", "up"}

(* The relay has left its loop: nobody reads the management socket any more.  *)
Deaf(c) == stage[c] \in {"closing", "reaping"}

Env == Endpoint \cup {NoEnvFile, Unwritten}

TypeOK ==
  /\ TableTypeOK
  /\ stage \in [ConnId -> Stage]
  /\ killswitch \in [ConnId -> BOOLEAN]
  /\ armed \in [ConnId -> BOOLEAN]
  /\ expected \in [ConnId -> BOOLEAN]
  /\ snapshot \in [ConnId -> BOOLEAN]
  /\ seen \in [ConnId -> Env]
  /\ proc \in [ConnId -> Alive \cup {"none", "dead"}]
  /\ sigterm \in [ConnId -> BOOLEAN]
  /\ lines \in [ConnId -> Seq({"CONNECTED", "RECONNECTING"})]
  /\ env \in [ConnId -> Env]
  /\ peer \in [ConnId -> Endpoint \cup {Unwritten}]
  /\ doomed \in SUBSET ConnId

-----------------------------------------------------------------------------
Init ==
  /\ TableInit
  /\ stage = [c \in ConnId |-> "idle"]
  /\ killswitch = [c \in ConnId |-> FALSE]
  /\ armed = [c \in ConnId |-> FALSE]
  /\ expected = [c \in ConnId |-> FALSE]
  /\ snapshot = [c \in ConnId |-> FALSE]
  /\ seen = [c \in ConnId |-> NoEnvFile]
  /\ proc = [c \in ConnId |-> "none"]
  /\ sigterm = [c \in ConnId |-> FALSE]
  /\ lines = [c \in ConnId |-> <<>>]
  /\ env = [c \in ConnId |-> NoEnvFile]
  /\ peer = [c \in ConnId |-> Unwritten]
  /\ doomed = {}

(* The connection is gone: objects dropped, child reaped, files removed. *)
Vanish(c) ==
  /\ stage' = [stage EXCEPT ![c] = "idle"]
  /\ killswitch' = [killswitch EXCEPT ![c] = FALSE]
  /\ armed' = [armed EXCEPT ![c] = FALSE]
  /\ expected' = [expected EXCEPT ![c] = FALSE]
  /\ snapshot' = [snapshot EXCEPT ![c] = FALSE]
  /\ seen' = [seen EXCEPT ![c] = NoEnvFile]
  /\ proc' = [proc EXCEPT ![c] = "none"]
  /\ sigterm' = [sigterm EXCEPT ![c] = FALSE]
  /\ lines' = [lines EXCEPT ![c] = <<>>]
  /\ env' = [env EXCEPT ![c] = NoEnvFile]
  /\ peer' = [peer EXCEPT ![c] = Unwritten]
  /\ doomed' = doomed \ {c}

-----------------------------------------------------------------------------
(* Launching: Manager.start_connection and launch_and_attach.               *)

(* The lockdown is armed before anything is spawned.  A failed arm refuses   *)
(* the connection; the entry `insert`ed by the manager is not taken back.    *)
StartConnection(c) ==
  /\ stage[c] = "idle"
  /\ active[c].phase = "none"
  /\ \E k \in Options, h \in Helpers :
       \/ /\ ~k
          /\ UNCHANGED tableVars
          /\ stage' = [stage EXCEPT ![c] = "spawning"]
          /\ killswitch' = [killswitch EXCEPT ![c] = FALSE]
          /\ env' = [env EXCEPT ![c] = IF h THEN Unwritten ELSE NoEnvFile]
       \/ /\ k
          /\ \E ips \in RemoteSets : Arm(c, Connecting(ips), TRUE)
          /\ TRUE \in NftOutcomes
          /\ stage' = [stage EXCEPT ![c] = "spawning"]
          /\ killswitch' = [killswitch EXCEPT ![c] = TRUE]
          /\ env' = [env EXCEPT ![c] = IF h THEN Unwritten ELSE NoEnvFile]
       \/ /\ k
          /\ \E ips \in RemoteSets : Arm(c, Connecting(ips), FALSE)
          /\ FALSE \in NftOutcomes
          /\ UNCHANGED <<stage, killswitch, env>>
  /\ UNCHANGED <<armed, expected, snapshot, seen, proc, sigterm, lines, peer, doomed>>

Spawn(c) ==
  /\ stage[c] = "spawning"
  /\ stage' = [stage EXCEPT ![c] = "attaching"]
  /\ proc' = [proc EXCEPT ![c] = "held"]
  /\ UNCHANGED <<tableVars, killswitch, armed, expected, snapshot, seen,
                 sigterm, lines, env, peer, doomed>>

Attach(c) ==
  /\ stage[c] = "attaching"
  /\ proc[c] = "held"
  /\ stage' = [stage EXCEPT ![c] = "attached"]
  /\ UNCHANGED <<tableVars, killswitch, armed, expected, snapshot, seen,
                 procVars, doomed>>

ForgetsChild(c) ==    \* mutant: no kill_on_drop
  /\ stage[c] \in {"spawning", "attaching"}
  /\ stage' = [stage EXCEPT ![c] = "idle"]
  /\ UNCHANGED <<tableVars, killswitch, armed, expected, snapshot, seen,
                 procVars, doomed>>

(* Spawn error, no socket in time, early exit, refused connect or object     *)
(* registration: `?` returns, dropping (and killing) the child.  The         *)
(* connect-phase allowance stays in the manager's map.                       *)
LaunchFails(c) ==
  /\ stage[c] \in {"spawning", "attaching"}
  /\ Vanish(c)
  /\ UNCHANGED tableVars

(* The relay starts: state on, bytecount, hold release. *)
ReleaseHold(c) ==
  /\ stage[c] = "attached"
  /\ stage' = [stage EXCEPT ![c] = "relaying"]
  /\ proc' = [proc EXCEPT ![c] = IF @ = "held" THEN "connecting" ELSE @]
  /\ UNCHANGED <<tableVars, killswitch, armed, expected, snapshot, seen,
                 sigterm, lines, env, peer, doomed>>

-----------------------------------------------------------------------------
(* The OpenVPN process and the up helper it runs.                           *)

CanSay(c) == Len(lines[c]) < MaxLines

(* SIGTERM is written to the management socket of a process that still runs.   *)
SendSigterm(c, sent) ==
  sigterm' = [sigterm EXCEPT ![c] = @ \/ (sent /\ proc[c] \in Alive)]

(* A line for the relay; it is lost when the relay has stopped listening.     *)
Says(c, l) == lines' = IF Deaf(c) THEN lines ELSE [lines EXCEPT ![c] = Append(@, l)]

(* The tunnel comes up to server e: the kernel lets the handshake out, the   *)
(* device is free, and the helper records the endpoint before CONNECTED is   *)
(* reported.  On a reconnect that kept the device (persist-tun) the helper   *)
(* does not run and the file keeps the earlier endpoint.                     *)
Establish(c, e) ==
  /\ proc[c] = "connecting"
  /\ CanSay(c)
  /\ Accepts(kernel, Handshake(e))
  /\ \A d \in ConnId \ {c} : peer[d] # Unwritten => peer[d].dev # e.dev
  /\ proc' = [proc EXCEPT ![c] = "up"]
  /\ peer' = [peer EXCEPT ![c] = e]
  /\ \/ env[c] # NoEnvFile /\ env' = [env EXCEPT ![c] = e]
     \/ env[c] # Unwritten /\ UNCHANGED env
  /\ Says(c, "CONNECTED")
  /\ UNCHANGED <<tableVars, relayVars, sigterm, doomed>>

(* ping-restart, a server restart, a network change. *)
TunnelDrops(c) ==
  /\ proc[c] = "up"
  /\ CanSay(c)
  /\ proc' = [proc EXCEPT ![c] = "connecting"]
  /\ peer' = [peer EXCEPT ![c] = Unwritten]
  /\ Says(c, "RECONNECTING")
  /\ UNCHANGED <<tableVars, relayVars, sigterm, env, doomed>>

(* The process ends: SIGTERM, a fatal error, a kill. *)
ProcessExits(c) ==
  /\ proc[c] \in Alive
  /\ proc' = [proc EXCEPT ![c] = "dead"]
  /\ peer' = [peer EXCEPT ![c] = Unwritten]
  /\ sigterm' = [sigterm EXCEPT ![c] = FALSE]
  /\ UNCHANGED <<tableVars, relayVars, lines, env, doomed>>

-----------------------------------------------------------------------------
(* The relay task.                                                          *)

LocksOnce(c) ==    \* mutant: arm on the first CONNECTED only
  /\ stage[c] = "relaying"
  /\ lines[c] # <<>>
  /\ lines' = [lines EXCEPT ![c] = Tail(@)]
  /\ \/ /\ Head(lines[c]) = "CONNECTED" /\ ~armed[c]
        /\ seen' = [seen EXCEPT ![c] = env[c]]
        /\ stage' = [stage EXCEPT ![c] = "confining"]
     \/ /\ Head(lines[c]) # "CONNECTED" \/ armed[c]
        /\ UNCHANGED <<seen, stage>>
  /\ UNCHANGED <<tableVars, killswitch, armed, expected, snapshot,
                 proc, sigterm, env, peer, doomed>>

(* A management line; at CONNECTED the environment file is read. *)
RelayLine(c) ==
  /\ stage[c] = "relaying"
  /\ lines[c] # <<>>
  /\ lines' = [lines EXCEPT ![c] = Tail(@)]
  /\ \/ /\ Head(lines[c]) = "CONNECTED"
        /\ seen' = [seen EXCEPT ![c] = env[c]]
        /\ stage' = [stage EXCEPT ![c] = "confining"]
     \/ /\ Head(lines[c]) # "CONNECTED"
        /\ UNCHANGED <<seen, stage>>
  /\ UNCHANGED <<tableVars, killswitch, armed, expected, snapshot,
                 proc, sigterm, env, peer, doomed>>

(* Pushed DNS is applied if there is an environment; a failure with the      *)
(* kill-switch on asks OpenVPN to exit, and the handler goes on.             *)
ConfineDns(c) ==
  /\ stage[c] = "confining"
  /\ \/ /\ seen[c] # NoEnvFile
        /\ \E r \in DnsOutcomes :
             SendSigterm(c, r = "failed" /\ killswitch[c])
     \/ /\ seen[c] = NoEnvFile
        /\ UNCHANGED sigterm
  /\ stage' = [stage EXCEPT ![c] = IF killswitch[c] THEN "locking" ELSE "relaying"]
  /\ seen' = [seen EXCEPT ![c] = IF killswitch[c] THEN @ ELSE NoEnvFile]
  /\ UNCHANGED <<tableVars, killswitch, armed, expected, snapshot,
                 proc, lines, env, peer, doomed>>

RunsUnarmed(c) ==    \* mutant: a failed arm does not take the tunnel down
  /\ stage[c] = "locking"
  /\ stage' = [stage EXCEPT ![c] = "relaying"]
  /\ seen' = [seen EXCEPT ![c] = NoEnvFile]
  /\ \E ok \in NftOutcomes :
       \/ /\ seen[c] \in Endpoint
          /\ Arm(c, Connected(seen[c]), ok)
          /\ armed' = [armed EXCEPT ![c] = ok]
       \/ /\ seen[c] \notin Endpoint
          /\ armed' = [armed EXCEPT ![c] = FALSE]
          /\ UNCHANGED tableVars
  /\ UNCHANGED <<killswitch, expected, snapshot, sigterm, proc, lines, env, peer, doomed>>

StaysArmed(c) ==    \* mutant: `killswitch_armed` is never reset
  /\ stage[c] = "locking"
  /\ stage' = [stage EXCEPT ![c] = "relaying"]
  /\ seen' = [seen EXCEPT ![c] = NoEnvFile]
  /\ \/ /\ seen[c] \in Endpoint
        /\ \E ok \in NftOutcomes :
             /\ Arm(c, Connected(seen[c]), ok)
             /\ armed' = [armed EXCEPT ![c] = @ \/ ok]
             /\ SendSigterm(c, ~ok)
     \/ /\ seen[c] \notin Endpoint
        /\ SendSigterm(c, TRUE)
        /\ UNCHANGED <<tableVars, armed>>
  /\ UNCHANGED <<killswitch, expected, snapshot, proc, lines, env, peer, doomed>>

(* The lock onto the tunnel; without an endpoint, or when nft fails, OpenVPN *)
(* is asked to exit.                                                         *)
LockTunnel(c) ==
  /\ stage[c] = "locking"
  /\ stage' = [stage EXCEPT ![c] = "relaying"]
  /\ seen' = [seen EXCEPT ![c] = NoEnvFile]
  /\ \/ /\ seen[c] \in Endpoint
        /\ \E ok \in NftOutcomes :
             /\ Arm(c, Connected(seen[c]), ok)
             /\ armed' = [armed EXCEPT ![c] = ok]
             /\ SendSigterm(c, ~ok)
     \/ /\ seen[c] \notin Endpoint
        /\ armed' = [armed EXCEPT ![c] = FALSE]
        /\ SendSigterm(c, TRUE)
        /\ UNCHANGED tableVars
  /\ UNCHANGED <<killswitch, expected, snapshot, proc, lines, env, peer, doomed>>

IgnoresEof(c) ==    \* mutant: end of file ends the relay only if it was asked to
  /\ stage[c] = "relaying"
  /\ proc[c] = "dead"
  /\ lines[c] = <<>>
  /\ expected[c]
  /\ snapshot' = [snapshot EXCEPT ![c] = TRUE]
  /\ stage' = [stage EXCEPT ![c] = "closing"]
  /\ UNCHANGED <<tableVars, killswitch, armed, expected, seen, procVars, doomed>>

(* The process is gone and every line was handled: end of the stream.        *)
StreamEnds(c) ==
  /\ stage[c] = "relaying"
  /\ proc[c] = "dead"
  /\ lines[c] = <<>>
  /\ snapshot' = [snapshot EXCEPT ![c] = expected[c]]
  /\ stage' = [stage EXCEPT ![c] = "closing"]
  /\ UNCHANGED <<tableVars, killswitch, armed, expected, seen, procVars, doomed>>

(* The relay's loop also ends on a failing read, and on an end of file that is *)
(* not the end of the process: the lines it had not read are lost, OpenVPN     *)
(* runs on, and no SIGTERM written before or after need reach it.             *)
ChannelBreaks(c) ==
  /\ stage[c] \in {"attached", "relaying"}
  /\ proc[c] \in Alive
  /\ lines' = [lines EXCEPT ![c] = <<>>]
  /\ sigterm' = [sigterm EXCEPT ![c] = FALSE]
  /\ snapshot' = [snapshot EXCEPT ![c] = expected[c]]
  /\ stage' = [stage EXCEPT ![c] = "closing"]
  /\ UNCHANGED <<tableVars, killswitch, armed, expected, seen, proc, env, peer, doomed>>

NeverKeeps(c) ==    \* mutant: an unexpected drop withdraws the lock too
  /\ stage[c] = "closing"
  /\ stage' = [stage EXCEPT ![c] = "reaping"]
  /\ \E ok \in NftOutcomes : Disarm(c, ok)
  /\ UNCHANGED <<killswitch, armed, expected, snapshot, seen, procVars, doomed>>

KeepsAlways(c) ==    \* mutant: the expected flag is not consulted
  /\ stage[c] = "closing"
  /\ stage' = [stage EXCEPT ![c] = "reaping"]
  /\ \/ /\ armed[c]
        /\ UNCHANGED tableVars
     \/ /\ ~armed[c]
        /\ \E ok \in NftOutcomes : Disarm(c, ok)
  /\ UNCHANGED <<killswitch, armed, expected, snapshot, seen, procVars, doomed>>

(* A tunnel-locked connection that dropped unasked keeps its allowance; any  *)
(* other end disarms it.                                                     *)
DecideLock(c) ==
  /\ stage[c] = "closing"
  /\ stage' = [stage EXCEPT ![c] = "reaping"]
  /\ \/ /\ armed[c] /\ ~snapshot[c]
        /\ UNCHANGED tableVars
     \/ /\ ~armed[c] \/ snapshot[c]
        /\ \E ok \in NftOutcomes : Disarm(c, ok)
  /\ UNCHANGED <<killswitch, armed, expected, snapshot, seen, procVars, doomed>>

(* `child.wait` returns, and the object, the registry entry and the files go.  *)
Unregister(c) ==
  /\ stage[c] = "reaping"
  /\ proc[c] = "dead"
  /\ Vanish(c)
  /\ UNCHANGED tableVars

-----------------------------------------------------------------------------
(* Requests, power events, failures.                                        *)

(* Nobody looks whether the write succeeds; once the stream has ended, it binds *)
(* OpenVPN to nothing.                                                        *)
Terminate(c) == SendSigterm(c, ~Deaf(c))

ForgetsSignal(c) ==    \* mutant: the flag is set, OpenVPN is not told
  /\ stage[c] \in Registered
  /\ expected' = [expected EXCEPT ![c] = TRUE]
  /\ UNCHANGED <<tableVars, stage, killswitch, armed, snapshot, seen, procVars, doomed>>

(* Disconnect, by the owner, on the registered object. *)
Disconnect(c) ==
  /\ stage[c] \in Registered
  /\ expected' = [expected EXCEPT ![c] = TRUE]
  /\ Terminate(c)
  /\ UNCHANGED <<tableVars, stage, killswitch, armed, snapshot, seen,
                 proc, lines, env, peer, doomed>>

RecoverNetwork ==
  /\ \E ok \in NftOutcomes : Recover(ok)
  /\ UNCHANGED <<relayVars, procVars, doomed>>

(* logind announces a shutdown: the handler copies the list of connections,  *)
(* then shuts each of them down.                                             *)
PrepareForShutdown ==
  /\ doomed = {}
  /\ doomed' = {c \in ConnId : stage[c] \in Registered}
  /\ UNCHANGED <<tableVars, relayVars, procVars>>

ShutdownNext(c) ==
  /\ c \in doomed
  /\ doomed' = doomed \ {c}
  /\ expected' = [expected EXCEPT ![c] = TRUE]
  /\ Terminate(c)
  /\ UNCHANGED <<tableVars, stage, killswitch, armed, snapshot, seen,
                 proc, lines, env, peer>>

AllVanish ==
  /\ stage' = [c \in ConnId |-> "idle"]
  /\ killswitch' = [c \in ConnId |-> FALSE]
  /\ armed' = [c \in ConnId |-> FALSE]
  /\ expected' = [c \in ConnId |-> FALSE]
  /\ snapshot' = [c \in ConnId |-> FALSE]
  /\ seen' = [c \in ConnId |-> NoEnvFile]
  /\ proc' = [c \in ConnId |-> "none"]
  /\ sigterm' = [c \in ConnId |-> FALSE]
  /\ lines' = [c \in ConnId |-> <<>>]
  /\ env' = [c \in ConnId |-> NoEnvFile]
  /\ peer' = [c \in ConnId |-> Unwritten]
  /\ doomed' = {}

(* systemd kills the daemon's control group, OpenVPN included. *)
DaemonRestarts == Restart /\ AllVanish

MachineBoots == Boot /\ AllVanish

-----------------------------------------------------------------------------
Launch(c) == Spawn(c) \/ Attach(c) \/ LaunchFails(c) \/ ReleaseHold(c)

Relay(c) ==
  \/ RelayLine(c) \/ ConfineDns(c) \/ LockTunnel(c)
  \/ StreamEnds(c) \/ DecideLock(c) \/ Unregister(c)

OpenVpn(c) ==
  \/ \E e \in Server : Establish(c, e)
  \/ TunnelDrops(c)
  \/ ProcessExits(c)

Next ==
  \/ \E c \in ConnId :
       \/ StartConnection(c) \/ Launch(c) \/ Relay(c) \/ OpenVpn(c) \/ ChannelBreaks(c)
       \/ Disconnect(c) \/ ShutdownNext(c)
  \/ RecoverNetwork
  \/ PrepareForShutdown
  \/ DaemonRestarts
  \/ MachineBoots

Spec == Init /\ [][Next]_vars

(* tokio runs every ready task (launches, relays, the logind loop), with     *)
(* bounded waits: wait_for_socket gives up after ten seconds, nft exits.     *)
(* OpenVPN obeys a SIGTERM on its management socket.  Users, servers, broken  *)
(* channels and crashes are under no obligation.                             *)
Fairness ==
  \A c \in ConnId :
    /\ WF_vars(Launch(c))
    /\ WF_vars(Relay(c))
    /\ WF_vars(sigterm[c] /\ ProcessExits(c))
    /\ WF_vars(ShutdownNext(c))

FairSpec == Spec /\ Fairness

-----------------------------------------------------------------------------
(* A connection whose own arm succeeded and was not undone: still running    *)
(* under its connect-phase lockdown, locked onto its tunnel, or dropped      *)
(* unexpectedly after that.                                                  *)
Shielded(c) ==
  \/ active[c].phase = "connecting" /\ stage[c] # "idle"
  \/ active[c].phase = "connected" /\ (armed[c] \/ stage[c] = "idle")

(* While any connection is shielded the default-drop table is installed, and *)
(* it still admits what that connection's allowance grants: no other         *)
(* connection's connect, reconnect, failed nft run, disconnect or teardown   *)
(* opens its protection or cuts its tunnel off (killswitch.rs:1-8).          *)
ShieldHolds ==
  \A c \in ConnId : Shielded(c) =>
    /\ kernel.up
    /\ \A p \in Packet : Grants(active[c], p) => Accepts(kernel, p)

(* The relay has lost a process that runs on: it can neither see it end nor,  *)
(* perhaps, tell it to (connection.rs:571 waits for it without a limit).      *)
Severed(c) == Deaf(c) /\ proc[c] \in Alive

(* A connection locked onto its tunnel that nobody had asked to end: not yet,  *)
(* or not before its stream ended.                                           *)
HoldsLock(c) ==
  /\ active[c].phase = "connected"
  /\ \/ stage[c] = "idle"
     \/ armed[c] /\ ~snapshot[c] /\ (Deaf(c) \/ ~expected[c])

(* The lock outlives an unexpected drop: neither the end of its own relay, nor *)
(* a Disconnect or shutdown that comes after the drop was noticed, nor         *)
(* anything another connection does takes it away, only RecoverNetwork or the  *)
(* end of the daemon (connection.rs:550-562).                                *)
LockOutlivesDrop ==
  [][\A c \in ConnId :
       (HoldsLock(c) /\ active'[c].phase # "connected") =>
          RecoverNetwork \/ DaemonRestarts \/ MachineBoots]_vars

(* An orderly disconnect leaves no allowance of its connection behind, even   *)
(* when nft failed on the way (connection.rs:563-566).                       *)
OrderlyEndLeavesNothing ==
  \A c \in ConnId : stage[c] = "reaping" /\ snapshot[c] => active[c] = NotArmed

(* When the relay has caught up with a running tunnel, a kill-switch lock     *)
(* that stands is on the endpoint the up helper last recorded, whatever       *)
(* reconnects happened in between (connection.rs:441-480).                    *)
LockFollowsHelper ==
  \A c \in ConnId :
    (stage[c] = "relaying" /\ proc[c] = "up" /\ lines[c] = <<>>
       /\ armed[c] /\ active[c].phase # "none") => active[c] = Connected(env[c])

(* No OpenVPN process runs without a task of the daemon that waits for it:    *)
(* "never leak the root openvpn on an error path" (connection.rs:293).        *)
NoOrphanProcess ==
  \A c \in ConnId : proc[c] \in Alive => stage[c] # "idle"

(* A Disconnect, from the user or from logind, ends in the connection being   *)
(* unregistered and forgotten, unless its channel broke under a live process.  *)
DisconnectCompletes == \A c \in ConnId : expected[c] ~> (stage[c] = "idle" \/ Severed(c))

(* A kill-switch tunnel does not stay up unarmed: it is locked or taken down  *)
(* ("never run a kill-switch tunnel unprotected", connection.rs:474), as long  *)
(* as its management channel works.                                          *)
NeverRunsUnarmed ==
  \A c \in ConnId : (killswitch[c] /\ proc[c] = "up" /\ ~armed[c])
                      ~> (armed[c] \/ proc[c] # "up" \/ Severed(c))

(* Every launched connection whose process ended is cleaned up.               *)
DeadIsReaped == \A c \in ConnId : proc[c] = "dead" ~> stage[c] = "idle"

-----------------------------------------------------------------------------
(* What comments and documents of the repository say, and the code does not. *)

(* "A connection that never reaches CONNECTED is still fail-closed"            *)
(* (connection.rs:275-277): an end nobody asked for, during the connect       *)
(* phase, does not open egress.                                               *)
NeverConnectedStaysBlocked ==
  [][\A c \in ConnId :
       (/\ stage[c] = "closing" /\ stage'[c] = "reaping" /\ proc[c] = "dead"
        /\ active[c].phase = "connecting" /\ ~snapshot[c] /\ kernel.up) => kernel'.up]_vars
=============================================================================
